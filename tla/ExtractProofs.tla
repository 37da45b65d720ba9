--------------------------- MODULE ExtractProofs ----------------------------
(***************************************************************************)
(* What isRecursive detects, and invariants of the extraction for every    *)
(* set of programs and every bound of memory: the types, and that every    *)
(* goroutine that is started gets a tree.  The inductive invariant is IInv *)
(* of Extract; one lemma for each action, after those on the programs, the *)
(* work that is left, the stack of open ifs and the nodes that are added.  *)
(***************************************************************************)
EXTENDS Extract, Lemmas

\* Whatever the stack, isRecursive holds exactly for a function called by
\* itself: its comparison of the calls between two occurrences of a function
\* starts with that function, so no longer cycle of calls is ever found.
THEOREM OnlyDirectRecursion ==
    ASSUME NEW S, NEW fns \in Seq(S)
    PROVE  Repeats(fns) <=> Len(fns) >= 2 /\ fns[2] = fns[1]
<1>1. ASSUME Repeats(fns) PROVE Len(fns) >= 2 /\ fns[2] = fns[1]
  <2>1. PICK m \in 2..Len(fns) :
           /\ fns[m] = fns[1]
           /\ \A j \in 2..m : m + j - 2 <= Len(fns) /\ fns[m + j - 2] = fns[j]
    BY <1>1 DEF Repeats
  <2>2. Len(fns) \in Nat /\ Len(fns) >= 2 /\ 2 \in 2..m
    BY <2>1
  <2>3. fns[m + 2 - 2] = fns[2]
    BY <2>1, <2>2
  <2>. QED  BY <2>1, <2>2, <2>3
<1>2. ASSUME Len(fns) >= 2, fns[2] = fns[1] PROVE Repeats(fns)
  <2>1. 2 \in 2..Len(fns) /\ \A j \in 2..(2-1) : FALSE
    BY <1>2
  <2>2. \A j \in 2..2 : 2 + j - 2 <= Len(fns) /\ fns[2 + j - 2] = fns[j]
    BY <1>2
  <2>. QED  BY <1>2, <2>1, <2>2 DEF Repeats
<1>. QED  BY <1>1, <1>2

-----------------------------------------------------------------------------
(* Programs. *)

LEMMA BlockOfProgram ==
    ASSUME NEW p, IsProgram(p), NEW f \in DOMAIN p, NEW b \in 1..Len(p[f])
    PROVE  IsBlock(p, f, b)
BY DEF IsProgram

\* A select above a successor of a block is in the block or above it.
LEMMA SelectsPassOn ==
    ASSUME NEW p, IsProgram(p), NEW f \in DOMAIN p, NEW b \in 1..Len(p[f]),
           NEW k \in 1..Len(p[f][b].succs)
    PROVE  SelectsAbove(p, f, p[f][b].succs[k])
             \subseteq SelectsBefore(p, f, b, Len(p[f][b].ins) + 1) \cup SelectsAbove(p, f, b)
<1>. DEFINE next == p[f][b].succs[k]
<1>1. SUFFICES ASSUME NEW s \in 1..Len(p[f]), Dominates(p, f, s, next), s # b
               PROVE  Dominates(p, f, s, b)
  BY DEF SelectsAbove, SelectsIn
<1>2. PICK S \in SUBSET (1..Len(p[f])) :
         /\ 1 \in S /\ next \notin S
         /\ \A c \in S \ {s} : \A j \in 1..Len(p[f][c].succs) : p[f][c].succs[j] \in S
  BY <1>1 DEF Dominates
<1>3. b \notin S
  BY <1>1, <1>2
<1>. QED  BY <1>2, <1>3 DEF Dominates

\* No select is above the entry of a function: only the entry dominates it.
LEMMA NothingAboveEntry ==
    ASSUME NEW p, NEW f
    PROVE  SelectsAbove(p, f, 1) = {}
BY DEF SelectsAbove, Dominates

\* One instruction further, at most its own select comes before.
LEMMA SelectsUpTo ==
    ASSUME NEW p, NEW f, NEW b, NEW i \in Nat
    PROVE  SelectsBefore(p, f, b, i + 1) \subseteq SelectsBefore(p, f, b, i) \cup
             (IF p[f][b].ins[i].op = "select" THEN {p[f][b].ins[i].x} ELSE {})
<1>1. ASSUME NEW j \in 1..(i + 1 - 1), p[f][b].ins[j].op = "select", j # i
      PROVE  j \in 1..(i - 1)
  BY <1>1
<1>. QED  BY <1>1 DEF SelectsBefore

-----------------------------------------------------------------------------
(* The work that is left. *)

\* Longer lists of frames, nodes, channels and deferred calls, and more selects.
LEMMA WorkStays ==
    ASSUME NEW p, NEW fs, NEW gs, NEW t, NEW u, NEW cs, NEW ds, NEW sel, NEW sem,
           Len(fs) \in Nat, Len(gs) \in Nat, Len(fs) <= Len(gs),
           Len(t) \in Nat, Len(u) \in Nat, Len(t) <= Len(u),
           cs \subseteq ds, DOMAIN sel \subseteq DOMAIN sem,
           \A k \in 1..Len(fs) : /\ Len(fs[k].defers) \in Nat /\ Len(gs[k].defers) \in Nat
                                 /\ Len(fs[k].defers) <= Len(gs[k].defers)
    PROVE  ItemsOf(p, fs, t, cs, sel) \subseteq ItemsOf(p, gs, u, ds, sem)
<1>1. SUFFICES ASSUME NEW w \in ItemsOf(p, fs, t, cs, sel)
               PROVE  w \in ItemsOf(p, gs, u, ds, sem)
  OBVIOUS
<1>2. w \in [do : WorkKind, fr : 1..Len(fs), fn : DOMAIN p, b : Nat, i : Nat, at : 0..Len(t)]
  BY DEF ItemsOf
<1>3. w \in [do : WorkKind, fr : 1..Len(gs), fn : DOMAIN p, b : Nat, i : Nat, at : 0..Len(u)]
  BY <1>2
<1>4. w.do = "defers" => w.i <= Len(gs[w.fr].defers)
  <2>1. w.do = "defers" => w.i <= Len(fs[w.fr].defers)
    BY DEF ItemsOf
  <2>2. w.fr \in 1..Len(fs) /\ w.i \in Nat
    BY <1>2
  <2>. QED  BY <2>1, <2>2
<1>. QED  BY <1>3, <1>4, Zenon DEF ItemsOf

\* What is known of an item of work.
LEMMA FieldsOfItem ==
    ASSUME NEW p, NEW fs, NEW t, NEW cs, NEW sel, NEW w \in ItemsOf(p, fs, t, cs, sel)
    PROVE  /\ w \in [do : WorkKind, fr : 1..Len(fs), fn : DOMAIN p, b : Nat, i : Nat, at : 0..Len(t)]
           /\ w.b \in 1..Len(p[w.fn])
           /\ w.do \notin {"block", "defers"} => w.i \in 1..Len(p[w.fn][w.b].ins)
BY DEF ItemsOf

\* The visit of the entry of a function with blocks, and that of a successor.
LEMMA EntryIsWork ==
    ASSUME NEW p, NEW fs, NEW t, NEW cs, NEW sel, IsProgram(p), Len(t) \in Nat,
           NEW fr \in 1..Len(fs), NEW f \in DOMAIN p, p[f] # << >>
    PROVE  VisitOf(fr, f, 1) \in ItemsOf(p, fs, t, cs, sel)
<1>1. 1 \in 1..Len(p[f]) /\ SelectsAbove(p, f, 1) = {}
  BY NothingAboveEntry DEF IsProgram
<1>2. VisitOf(fr, f, 1) \in
        [do : WorkKind, fr : 1..Len(fs), fn : DOMAIN p, b : Nat, i : Nat, at : 0..Len(t)]
  BY DEF VisitOf, Item, WorkKind
<1>. QED  BY <1>1, <1>2 DEF VisitOf, Item, ItemsOf

\* A successor of a block that was visited to its end may be visited: what is above
\* it is above that block, or in it.
LEMMA SuccessorIsWork ==
    ASSUME NEW p, NEW fs, NEW t, NEW cs, NEW sel, IsProgram(p), Len(t) \in Nat,
           NEW w \in ItemsOf(p, fs, t, cs, sel), w.do \notin {"block", "defers"},
           w.i = Len(p[w.fn][w.b].ins), p[w.fn][w.b].ins[w.i].op # "select",
           NEW k \in 1..Len(p[w.fn][w.b].succs)
    PROVE  VisitOf(w.fr, w.fn, p[w.fn][w.b].succs[k]) \in ItemsOf(p, fs, t, cs, sel)
<1>. DEFINE next == p[w.fn][w.b].succs[k]
<1>1. /\ w.fr \in 1..Len(fs) /\ w.fn \in DOMAIN p /\ w.i \in Nat
      /\ w.b \in 1..Len(p[w.fn])
  BY FieldsOfItem
<1>2. next \in 1..Len(p[w.fn]) /\ next \in Nat
  <2>1. next \in 1..Len(p[w.fn])
    BY <1>1, BlockOfProgram, Zenon DEF IsBlock
  <2>. QED  BY <2>1
<1>3. SelectsAbove(p, w.fn, next) \subseteq DOMAIN sel
  <2>1. SelectsAbove(p, w.fn, w.b) \subseteq DOMAIN sel
    BY DEF ItemsOf
  <2>2. SelectsBefore(p, w.fn, w.b, w.i) \subseteq DOMAIN sel
    BY DEF ItemsOf
  <2>3. SelectsBefore(p, w.fn, w.b, w.i + 1) \subseteq DOMAIN sel
    BY <1>1, <2>2, SelectsUpTo
  <2>. QED  BY <1>1, <2>1, <2>3, SelectsPassOn
<1>. HIDE DEF next
<1>4. VisitOf(w.fr, w.fn, next) \in
        [do : WorkKind, fr : 1..Len(fs), fn : DOMAIN p, b : Nat, i : Nat, at : 0..Len(t)]
  BY <1>1, <1>2 DEF VisitOf, Item, WorkKind
<1>5. VisitOf(w.fr, w.fn, next) \in ItemsOf(p, fs, t, cs, sel)
  BY <1>2, <1>3, <1>4 DEF VisitOf, Item, ItemsOf
<1>. QED  BY <1>5 DEF next

\* The instructions of a block, from the first to the last.
LEMMA InstructionsAreWork ==
    ASSUME NEW p, NEW fs, NEW t, NEW cs, NEW sel, IsProgram(p), Len(t) \in Nat,
           NEW w \in ItemsOf(p, fs, t, cs, sel), w.do = "block"
    PROVE  Item("ins", w.fr, w.fn, w.b, 1, 0) \in ItemsOf(p, fs, t, cs, sel)
<1>1. w.fr \in 1..Len(fs) /\ w.fn \in DOMAIN p /\ w.b \in Nat /\ w.b \in 1..Len(p[w.fn])
  BY FieldsOfItem
<1>2. 1 \in 1..Len(p[w.fn][w.b].ins)
  <2>1. IsBlock(p, w.fn, w.b)
    BY <1>1, BlockOfProgram
  <2>2. Len(p[w.fn][w.b].ins) \in Nat \ {0}
    BY <2>1 DEF IsBlock
  <2>. QED  BY <2>2
<1>3. SelectsBefore(p, w.fn, w.b, 1) = {}
  BY DEF SelectsBefore
<1>4. SelectsAbove(p, w.fn, w.b) \subseteq DOMAIN sel
  BY DEF ItemsOf
<1>. DEFINE v == Item("ins", w.fr, w.fn, w.b, 1, 0)
<1>5. v \in [do : WorkKind, fr : 1..Len(fs), fn : DOMAIN p, b : Nat, i : Nat, at : 0..Len(t)]
  BY <1>1 DEF Item, WorkKind
<1>. QED  BY <1>1, <1>2, <1>3, <1>4, <1>5 DEF Item, ItemsOf

\* After an instruction that is not the last one of its block comes the next.
LEMMA NextIsWork ==
    ASSUME NEW p, NEW fs, NEW t, NEW cs, NEW sel,
           NEW w \in ItemsOf(p, fs, t, cs, sel), w.do = "ins",
           Len(p[w.fn][w.b].ins) \in Nat, w.i < Len(p[w.fn][w.b].ins),
           p[w.fn][w.b].ins[w.i].op = "select" => p[w.fn][w.b].ins[w.i].x \in DOMAIN sel
    PROVE  [w EXCEPT !.i = @ + 1] \in ItemsOf(p, fs, t, cs, sel)
<1>. DEFINE v == [w EXCEPT !.i = @ + 1]
<1>1. /\ w \in [do : WorkKind, fr : 1..Len(fs), fn : DOMAIN p, b : Nat, i : Nat, at : 0..Len(t)]
      /\ w.i \in 1..Len(p[w.fn][w.b].ins) /\ w.i \in Nat
  BY FieldsOfItem
<1>2. /\ v \in [do : WorkKind, fr : 1..Len(fs), fn : DOMAIN p, b : Nat, i : Nat, at : 0..Len(t)]
      /\ v.do = w.do /\ v.fr = w.fr /\ v.fn = w.fn /\ v.b = w.b /\ v.i = w.i + 1
  BY <1>1
<1>3. v.i \in 1..Len(p[w.fn][w.b].ins)
  BY <1>1, <1>2
<1>4. SelectsBefore(p, w.fn, w.b, w.i + 1) \subseteq DOMAIN sel
  <2>1. SelectsBefore(p, w.fn, w.b, w.i) \subseteq DOMAIN sel
    BY DEF ItemsOf
  <2>. QED  BY <1>1, <2>1, SelectsUpTo
<1>5. w.b \in 1..Len(p[w.fn]) /\ SelectsAbove(p, w.fn, w.b) \subseteq DOMAIN sel
  BY DEF ItemsOf
<1>. QED  BY <1>2, <1>3, <1>4, <1>5 DEF ItemsOf

\* What is done after the branches of an If, or a branch of them.
LEMMA BranchIsWork ==
    ASSUME NEW p, NEW fs, NEW t, NEW cs, NEW sel,
           NEW w \in ItemsOf(p, fs, t, cs, sel), w.do \notin {"block", "defers"},
           NEW do \in {"else", "endif", "stop", "selelse"}, NEW at \in 0..Len(t),
           do \in {"else", "endif"} => p[w.fn][w.b].ins[w.i].op \in {"if", "ifrecv"},
           do = "selelse" => p[w.fn][w.b].ins[w.i].op = "ifsel",
           do = "stop" => /\ p[w.fn][w.b].ins[w.i].op = "ifrecv"
                          /\ p[w.fn][w.b].ins[w.i].x \in cs /\ at # 0
    PROVE  [w EXCEPT !.do = do, !.at = at] \in ItemsOf(p, fs, t, cs, sel)
<1>. DEFINE v == [w EXCEPT !.do = do, !.at = at]
<1>1. /\ w \in [do : WorkKind, fr : 1..Len(fs), fn : DOMAIN p, b : Nat, i : Nat, at : 0..Len(t)]
      /\ do \in WorkKind
  BY FieldsOfItem DEF WorkKind
<1>2. /\ v \in [do : WorkKind, fr : 1..Len(fs), fn : DOMAIN p, b : Nat, i : Nat, at : 0..Len(t)]
      /\ v.do = do /\ v.fr = w.fr /\ v.fn = w.fn /\ v.b = w.b /\ v.i = w.i /\ v.at = at
  BY <1>1
<1>3. /\ w.b \in 1..Len(p[w.fn]) /\ SelectsAbove(p, w.fn, w.b) \subseteq DOMAIN sel
      /\ w.i \in 1..Len(p[w.fn][w.b].ins)
      /\ SelectsBefore(p, w.fn, w.b, w.i) \subseteq DOMAIN sel
  BY DEF ItemsOf
<1>. QED  BY <1>2, <1>3 DEF ItemsOf

\* The deferred calls of a frame may be run.
LEMMA DefersAreWork ==
    ASSUME NEW p, NEW fs, NEW t, NEW cs, NEW sel,
           NEW w \in ItemsOf(p, fs, t, cs, sel), NEW n \in Nat, n <= Len(fs[w.fr].defers)
    PROVE  [w EXCEPT !.do = "defers", !.i = n] \in ItemsOf(p, fs, t, cs, sel)
<1>. DEFINE v == [w EXCEPT !.do = "defers", !.i = n]
<1>1. w \in [do : WorkKind, fr : 1..Len(fs), fn : DOMAIN p, b : Nat, i : Nat, at : 0..Len(t)]
  BY FieldsOfItem
<1>2. /\ v \in [do : WorkKind, fr : 1..Len(fs), fn : DOMAIN p, b : Nat, i : Nat, at : 0..Len(t)]
      /\ v.do = "defers" /\ v.fr = w.fr /\ v.fn = w.fn /\ v.b = w.b /\ v.i = n
  BY <1>1 DEF WorkKind
<1>3. w.b \in 1..Len(p[w.fn]) /\ SelectsAbove(p, w.fn, w.b) \subseteq DOMAIN sel
  BY DEF ItemsOf
<1>. QED  BY <1>2, <1>3 DEF ItemsOf

-----------------------------------------------------------------------------
(* Stacks of work, and the ifs that are open in them. *)

LEMMA OpenBefore ==
    ASSUME NEW S, NEW x \in S, NEW s \in Seq(S)
    PROVE  /\ Cardinality(Open(s)) \in Nat
           /\ Cardinality(Open(<<x>> \o s)) =
                 Cardinality(Open(s)) + (IF IsOpen(x) THEN 1 ELSE 0)
<1>. DEFINE v == <<x>> \o s
            f == [j \in Open(s) |-> j + 1]
<1>1. Len(s) \in Nat /\ Len(v) = Len(s) + 1 /\ v[1] = x /\ \A j \in 1..Len(s) : v[j + 1] = s[j]
  <2>1. <<x>> \in Seq(S) /\ Len(<<x>>) = 1 /\ Len(s) \in Nat
    BY LenProperties
  <2>2. \A j \in 1..(1 + Len(s)) : v[j] = IF j <= 1 THEN <<x>>[j] ELSE s[j - 1]
    BY <2>1, ConcatProperties
  <2>3. Len(v) = 1 + Len(s)
    BY <2>1, ConcatProperties
  <2>. HIDE DEF v
  <2>4. v[1] = x
    BY <2>1, <2>2
  <2>5. ASSUME NEW j \in 1..Len(s) PROVE v[j + 1] = s[j]
    <3>1. j + 1 \in 1..(1 + Len(s)) /\ ~(j + 1 <= 1) /\ (j + 1) - 1 = j
      BY <2>1
    <3>. QED  BY <2>2, <3>1
  <2>. QED  BY <2>1, <2>3, <2>4, <2>5
<1>2. IsFiniteSet(Open(s)) /\ Cardinality(Open(s)) \in Nat
  <2>1. IsFiniteSet(1..Len(s)) /\ Open(s) \subseteq 1..Len(s)
    BY <1>1, FS_Interval DEF Open
  <2>2. IsFiniteSet(Open(s))
    BY <2>1, FS_Subset
  <2>. QED  BY <2>2, FS_CardinalityType
<1>. HIDE DEF v
<1>3. Open(v) = {j + 1 : j \in Open(s)} \cup (IF IsOpen(x) THEN {1} ELSE {})
  <2>1. ASSUME NEW k \in Open(v), k # 1 PROVE k \in {j + 1 : j \in Open(s)}
    <3>1. k - 1 \in 1..Len(s) /\ k = (k - 1) + 1
      BY <1>1, <2>1 DEF Open
    <3>2. v[k] = s[k - 1]
      BY <1>1, <3>1
    <3>3. k - 1 \in Open(s)
      BY <2>1, <3>1, <3>2 DEF Open
    <3>. QED  BY <3>1, <3>3
  <2>2. 1 \in Open(v) <=> IsOpen(x)
    BY <1>1 DEF Open
  <2>3. ASSUME NEW j \in Open(s) PROVE j + 1 \in Open(v)
    <3>1. j \in 1..Len(s) /\ IsOpen(s[j])
      BY DEF Open
    <3>2. j + 1 \in 1..Len(v) /\ v[j + 1] = s[j]
      BY <1>1, <3>1
    <3>. QED  BY <3>1, <3>2 DEF Open
  <2>. QED  BY <2>1, <2>2, <2>3
<1>4. Cardinality({j + 1 : j \in Open(s)}) = Cardinality(Open(s)) /\ IsFiniteSet({j + 1 : j \in Open(s)})
  <2>1. f \in Bijection(Open(s), {j + 1 : j \in Open(s)})
    <3>1. f \in [Open(s) -> {j + 1 : j \in Open(s)}]
      OBVIOUS
    <3>2. \A i, j \in Open(s) : f[i] = f[j] => i = j
      BY DEF Open
    <3>3. \A k \in {j + 1 : j \in Open(s)} : \E j \in Open(s) : f[j] = k
      OBVIOUS
    <3>. QED  BY <3>1, <3>2, <3>3 DEF Bijection, Injection, Surjection, IsInjective
  <2>. QED  BY <1>2, <2>1, FS_Bijection DEF ExistsBijection
<1>5. 1 \notin {j + 1 : j \in Open(s)}
  BY <1>1 DEF Open
<1>6. CASE IsOpen(x)
  <2>1. Open(v) = {j + 1 : j \in Open(s)} \cup {1}
    BY <1>3, <1>6
  <2>2. Cardinality(Open(v)) = Cardinality(Open(s)) + 1
    BY <1>4, <1>5, <2>1, FS_AddElement
  <2>. QED  BY <1>2, <1>6, <2>2 DEF v
<1>7. CASE ~IsOpen(x)
  <2>1. Open(v) = {j + 1 : j \in Open(s)}
    BY <1>3, <1>7
  <2>2. Cardinality(Open(v)) = Cardinality(Open(s))
    BY <1>4, <2>1
  <2>. QED  BY <1>2, <1>7, <2>2 DEF v
<1>. QED  BY <1>6, <1>7

\* No work, no open if.
LEMMA NothingOpen == Cardinality(Open(<< >>)) = 0
<1>1. Open(<< >>) = {}
  BY DEF Open
<1>. QED  BY <1>1, FS_EmptySet

\* Without its top a stack has one open if less, or as many.
LEMMA OpenTail ==
    ASSUME NEW S, NEW s \in Seq(S), s # << >>
    PROVE  /\ Cardinality(Open(Tail(s))) \in Nat
           /\ Cardinality(Open(s)) =
                 Cardinality(Open(Tail(s))) + (IF IsOpen(s[1]) THEN 1 ELSE 0)
<1>1. s[1] \in S /\ Tail(s) \in Seq(S) /\ s = <<s[1]>> \o Tail(s)
  BY HeadBefore
<1>2. /\ Cardinality(Open(Tail(s))) \in Nat
      /\ Cardinality(Open(<<s[1]>> \o Tail(s))) =
            Cardinality(Open(Tail(s))) + (IF IsOpen(s[1]) THEN 1 ELSE 0)
  BY <1>1, OpenBefore
<1>. QED  BY <1>1, <1>2, Zenon

-----------------------------------------------------------------------------
(* The nodes that are added. *)

\* The tree t with the nodes ns appended to node n.
GrownTree(t, n, ns) ==
    [t EXCEPT ![n].kids = @ \o [i \in 1..Len(ns) |-> Len(t) + i]] \o ns

\* Nodes without children, with channels of cs.
AreNew(ns, cs) ==
    \A k \in 1..Len(ns) : /\ ns[k].kids = << >>
                          /\ ns[k].kind \in CommKind => ns[k].arg \in cs

\* How many children a node has; no node has fewer in u than in t.
CountOf(t, n) == Len(t[n].kids)
Widens(t, u) ==
    \A m \in 1..Len(t) : /\ CountOf(t, m) \in Nat /\ CountOf(u, m) \in Nat
                         /\ CountOf(t, m) <= CountOf(u, m)

\* k nodes are the last children of node m, and have none; the others keep theirs.
GrownBy(t, u, m, k) ==
    /\ Len(u) = Len(t) + k
    /\ \A n \in 1..Len(t) : n # m => u[n].kids = t[n].kids
    /\ CountOf(u, m) = CountOf(t, m) + k
    /\ \A j \in 1..CountOf(t, m) : u[m].kids[j] = t[m].kids[j]
    /\ \A j \in 1..k : /\ u[m].kids[CountOf(t, m) + j] = Len(t) + j
                       /\ u[Len(t) + j].kids = << >>

\* Nodes appended to a node of a tree, which remains one.
LEMMA TreeGrows ==
    ASSUME NEW p, NEW t, NEW cs, NEW ds, IsTree(p, t, cs), cs \subseteq ds,
           NEW n \in 1..Len(t), NEW ns \in Seq(NodeOf(p)), AreNew(ns, ds)
    PROVE  /\ IsTree(p, GrownTree(t, n, ns), ds)
           /\ Len(t) \in Nat /\ Len(ns) \in Nat
           /\ Len(GrownTree(t, n, ns)) = Len(t) + Len(ns)
           /\ Widens(t, GrownTree(t, n, ns))
           /\ CountOf(GrownTree(t, n, ns), n) = CountOf(t, n) + Len(ns)
           /\ GrownBy(t, GrownTree(t, n, ns), n, Len(ns))
<1>. DEFINE more == [i \in 1..Len(ns) |-> Len(t) + i]
            kids == t[n].kids \o more
            node == [t[n] EXCEPT !.kids = kids]
            u == [t EXCEPT ![n] = node]
<1>1. t \in Seq(NodeOf(p)) /\ Len(t) \in Nat /\ Len(ns) \in Nat
  BY LenProperties DEF IsTree
<1>2. GrownTree(t, n, ns) = u \o ns
  BY <1>1 DEF GrownTree
<1>3. more \in Seq(Nat) /\ Len(more) = Len(ns) /\ \A i \in 1..Len(ns) : more[i] = Len(t) + i
  <2>1. more \in [1..Len(ns) -> Nat]
    BY <1>1
  <2>2. more \in Seq(Nat)
    BY <1>1, <2>1, SeqDef
  <2>. QED  BY <1>1, <2>1, <2>2, LenProperties
<1>4. /\ t[n] \in NodeOf(p)
      /\ t[n].kids \in Seq(Nat) /\ Len(t[n].kids) \in Nat
  <2>1. t[n] \in NodeOf(p)
    BY <1>1, ElementOfSeq
  <2>. QED  BY <2>1, LenProperties DEF NodeOf
<1>. HIDE DEF more
<1>5. /\ kids \in Seq(Nat) /\ Len(kids) = Len(t[n].kids) + Len(ns)
      /\ \A j \in 1..(Len(t[n].kids) + Len(ns)) :
            kids[j] = IF j <= Len(t[n].kids) THEN t[n].kids[j] ELSE more[j - Len(t[n].kids)]
  <2>1. /\ kids \in Seq(Nat) /\ Len(kids) = Len(t[n].kids) + Len(more)
        /\ \A j \in 1..(Len(t[n].kids) + Len(more)) :
              kids[j] = IF j <= Len(t[n].kids) THEN t[n].kids[j] ELSE more[j - Len(t[n].kids)]
    <3>. DEFINE old == t[n].kids
    <3>1. old \in Seq(Nat)
      BY <1>4
    <3>. HIDE DEF old
    <3>2. /\ old \o more \in Seq(Nat) /\ Len(old \o more) = Len(old) + Len(more)
          /\ \A j \in 1..(Len(old) + Len(more)) :
                (old \o more)[j] = IF j <= Len(old) THEN old[j] ELSE more[j - Len(old)]
      <4>. DEFINE N == Nat
      <4>1. old \in Seq(N) /\ more \in Seq(N)
        BY <1>3, <3>1
      <4>. HIDE DEF N
      <4>2. /\ old \o more \in Seq(N) /\ Len(old \o more) = Len(old) + Len(more)
            /\ \A j \in 1..(Len(old) + Len(more)) :
                  (old \o more)[j] = IF j <= Len(old) THEN old[j] ELSE more[j - Len(old)]
        BY <4>1, ConcatProperties
      <4>. QED  BY <4>2 DEF N
    <3>. QED  BY <3>2 DEF old
  <2>. HIDE DEF kids
  <2>. QED  BY <1>3, <2>1
<1>. HIDE DEF kids
<1>6. node \in NodeOf(p) /\ node.kids = kids /\ node.kind = t[n].kind /\ node.arg = t[n].arg
  BY <1>4, <1>5 DEF NodeOf
<1>. HIDE DEF node
<1>7. /\ u \in Seq(NodeOf(p)) /\ Len(u) = Len(t)
      /\ \A m \in 1..Len(t) : u[m] = IF m = n THEN node ELSE t[m]
  BY <1>1, <1>6, ExceptSeq
<1>. HIDE DEF u
<1>. DEFINE v == u \o ns
<1>8. /\ v \in Seq(NodeOf(p)) /\ Len(v) = Len(t) + Len(ns)
      /\ \A m \in 1..(Len(t) + Len(ns)) : v[m] = IF m <= Len(t) THEN u[m] ELSE ns[m - Len(t)]
  <2>1. /\ v \in Seq(NodeOf(p)) /\ Len(v) = Len(u) + Len(ns)
        /\ \A m \in 1..(Len(u) + Len(ns)) : v[m] = IF m <= Len(u) THEN u[m] ELSE ns[m - Len(u)]
    BY <1>7, ConcatProperties
  <2>. HIDE DEF v
  <2>. QED  BY <1>7, <2>1
<1>. HIDE DEF v
<1>9. ASSUME NEW m \in 1..Len(t)
      PROVE  v[m] = IF m = n THEN node ELSE t[m]
  <2>1. m \in 1..(Len(t) + Len(ns)) /\ m <= Len(t)
    BY <1>1
  <2>. QED  BY <2>1, <1>7, <1>8
<1>10. ASSUME NEW m \in 1..Len(t)
       PROVE  /\ Len(t[m].kids) \in Nat /\ Len(v[m].kids) \in Nat
              /\ Len(t[m].kids) <= Len(v[m].kids)
  <2>1. Len(t[m].kids) \in Nat
    <3>1. t[m] \in NodeOf(p)
      BY <1>1, ElementOfSeq
    <3>. QED  BY <3>1, LenProperties DEF NodeOf
  <2>2. Len(kids) \in Nat
    BY <1>5, LenProperties
  <2>3. CASE m = n
    <3>1. v[m].kids = kids /\ Len(kids) = Len(t[m].kids) + Len(ns)
      BY <1>5, <1>6, <1>9, <2>3
    <3>. QED  BY <1>1, <2>1, <2>2, <3>1
  <2>4. CASE m # n
    <3>1. v[m] = t[m]
      BY <1>9, <2>4
    <3>. QED  BY <2>1, <3>1
  <2>. QED  BY <2>3, <2>4
<1>11. ASSUME NEW m \in 1..Len(v)
       PROVE  /\ v[m].kind \in CommKind => v[m].arg \in ds
              /\ \A j \in 1..Len(v[m].kids) : v[m].kids[j] \in (m+1)..Len(v)
  <2>1. CASE m \in 1..Len(t)
    <3>1. t[m].kind \in CommKind => t[m].arg \in cs
      BY <2>1 DEF IsTree
    <3>2. \A j \in 1..Len(t[m].kids) : t[m].kids[j] \in (m+1)..Len(t)
      BY <2>1 DEF IsTree
    <3>3. CASE m # n
      <4>1. v[m] = t[m]
        BY <1>9, <2>1, <3>3
      <4>. QED  BY <1>1, <1>8, <3>1, <3>2, <4>1
    <3>4. CASE m = n
      <4>1. v[m].kind = t[m].kind /\ v[m].arg = t[m].arg /\ v[m].kids = kids
        BY <1>6, <1>9, <2>1, <3>4
      <4>2. ASSUME NEW j \in 1..Len(kids) PROVE kids[j] \in (m+1)..Len(v)
        <5>1. CASE j <= Len(t[n].kids)
          <6>1. j \in 1..Len(t[m].kids) /\ kids[j] = t[m].kids[j]
            BY <1>1, <1>4, <1>5, <3>4, <5>1
          <6>2. t[m].kids[j] \in (m+1)..Len(t)
            BY <3>2, <6>1
          <6>. QED  BY <1>1, <1>8, <6>1, <6>2
        <5>2. CASE ~(j <= Len(t[n].kids))
          <6>1. j - Len(t[n].kids) \in 1..Len(ns) /\ j \in 1..(Len(t[n].kids) + Len(ns))
            BY <1>1, <1>4, <1>5, <5>2
          <6>2. kids[j] = Len(t) + (j - Len(t[n].kids))
            BY <1>3, <1>5, <5>2, <6>1
          <6>3. kids[j] \in (Len(t) + 1)..(Len(t) + Len(ns))
            <7>. DEFINE d == j - Len(t[n].kids)
            <7>1. d \in 1..Len(ns) /\ kids[j] = Len(t) + d
              BY <6>1, <6>2
            <7>. HIDE DEF d
            <7>. QED  BY <1>1, <7>1
          <6>. QED  BY <1>1, <1>8, <2>1, <6>3
        <5>. QED  BY <5>1, <5>2
      <4>. QED  BY <3>1, <4>1, <4>2
    <3>. QED  BY <3>3, <3>4
  <2>2. CASE m \notin 1..Len(t)
    <3>1. m - Len(t) \in 1..Len(ns) /\ m \in 1..(Len(t) + Len(ns)) /\ ~(m <= Len(t))
      BY <1>1, <1>8, <2>2
    <3>2. v[m] = ns[m - Len(t)]
      BY <1>8, <3>1
    <3>3. v[m].kids = << >>
      BY <3>1, <3>2 DEF AreNew
    <3>4. v[m].kind \in CommKind => v[m].arg \in ds
      BY <3>1, <3>2 DEF AreNew
    <3>5. Len(v[m].kids) = 0
      BY <3>3, EmptySeq
    <3>. QED  BY <3>4, <3>5
  <2>. QED  BY <2>1, <2>2
<1>12. IsTree(p, v, ds)
  BY <1>8, <1>11 DEF IsTree
<1>13. CountOf(v, n) = CountOf(t, n) + Len(ns) /\ Widens(t, v)
  <2>1. Len(v[n].kids) = Len(t[n].kids) + Len(ns)
    BY <1>5, <1>6, <1>9
  <2>. QED  BY <2>1, <1>10 DEF CountOf, Widens
<1>14. GrownBy(t, v, n, Len(ns))
  <2>1. v[n].kids = kids
    BY <1>6, <1>9
  <2>2. \A m \in 1..Len(t) : m # n => v[m].kids = t[m].kids
    BY <1>9
  <2>3. ASSUME NEW j \in 1..Len(t[n].kids) PROVE v[n].kids[j] = t[n].kids[j]
    <3>1. j \in 1..(Len(t[n].kids) + Len(ns)) /\ j <= Len(t[n].kids)
      BY <1>1, <1>4
    <3>. QED  BY <1>5, <2>1, <3>1
  <2>4. ASSUME NEW j \in 1..Len(ns)
        PROVE  v[n].kids[Len(t[n].kids) + j] = Len(t) + j /\ v[Len(t) + j].kids = << >>
    <3>. DEFINE c == Len(t[n].kids)
    <3>1. c + j \in 1..(c + Len(ns)) /\ ~(c + j <= c) /\ (c + j) - c = j
      BY <1>1, <1>4
    <3>2. kids[c + j] = more[j]
      BY <1>5, <3>1
    <3>3. Len(t) + j \in 1..(Len(t) + Len(ns)) /\ ~(Len(t) + j <= Len(t)) /\ (Len(t) + j) - Len(t) = j
      BY <1>1
    <3>4. v[Len(t) + j] = ns[j]
      BY <1>8, <3>3
    <3>. QED  BY <1>3, <2>1, <3>2, <3>4 DEF AreNew
  <2>. QED  BY <1>8, <1>13, <2>2, <2>3, <2>4 DEF GrownBy, CountOf
<1>15. GrownTree(t, n, ns) = v
  BY <1>2 DEF v
<1>. QED  BY <1>1, <1>8, <1>12, <1>13, <1>14, <1>15

-----------------------------------------------------------------------------
(* The work on top of the stack. *)

LEMMA AtTop ==
    ASSUME IInv, Running
    PROVE  /\ Top \in Items /\ Pop \in Seq(Items) /\ IsProgram(prog)
           /\ Cardinality(Open(Pop)) \in Nat
           /\ Cardinality(Open(work)) = Cardinality(Open(Pop)) + (IF IsOpen(Top) THEN 1 ELSE 0)
           /\ Top \in [do : WorkKind, fr : 1..Len(frames), fn : DOMAIN prog, b : Nat, i : Nat,
                       at : 0..Len(tree)]
           /\ Top.b \in 1..Len(prog[Top.fn]) /\ IsBlock(prog, Top.fn, Top.b)
           /\ Len(frames) \in Nat /\ Len(tree) \in Nat
<1>1. work \in Seq(Items) /\ work # << >> /\ IsProgram(prog)
  BY DEF IInv, Running
<1>2. Top \in Items /\ Pop \in Seq(Items)
  BY <1>1, HeadBefore DEF Top, Pop
<1>3. /\ Cardinality(Open(Pop)) \in Nat
      /\ Cardinality(Open(work)) = Cardinality(Open(Pop)) + (IF IsOpen(Top) THEN 1 ELSE 0)
  BY <1>1, OpenTail DEF Top, Pop
<1>4. /\ Top \in [do : WorkKind, fr : 1..Len(frames), fn : DOMAIN prog, b : Nat, i : Nat,
                  at : 0..Len(tree)]
      /\ Top.b \in 1..Len(prog[Top.fn])
  BY <1>2, FieldsOfItem DEF Items
<1>5. IsBlock(prog, Top.fn, Top.b)
  <2>1. Top.fn \in DOMAIN prog
    BY <1>4
  <2>. QED  BY <1>1, <1>4, <2>1, BlockOfProgram
<1>6. Len(frames) \in Nat /\ Len(tree) \in Nat
  BY LenProperties DEF IInv, AreFrames, IsTree
<1>. QED  BY <1>1, <1>2, <1>3, <1>4, <1>5, <1>6

\* What is known at an instruction.
LEMMA AtInstruction ==
    ASSUME IInv, Running, Top.do \notin {"block", "defers"}
    PROVE  /\ Top.i \in 1..Len(prog[Top.fn][Top.b].ins)
           /\ Len(prog[Top.fn][Top.b].ins) \in Nat
           /\ IsInstruction(prog, Cur)
           /\ Cur.op \in {"if", "ifrecv", "ifsel"} =>
                 \A k \in 1..2 : Succ(k) \in Items
           /\ Cur.op = "jump" => Succ(1) \in Items
<1>1. Top \in Items /\ IsProgram(prog) /\ IsBlock(prog, Top.fn, Top.b) /\ Len(tree) \in Nat
  BY AtTop
<1>2. Top.i \in 1..Len(prog[Top.fn][Top.b].ins)
  BY <1>1, FieldsOfItem DEF Items
<1>3. IsInstruction(prog, Cur) /\ Len(prog[Top.fn][Top.b].ins) \in Nat
  <2>1. IsInstruction(prog, Cur)
    BY <1>1, <1>2, Zenon DEF IsBlock, Cur
  <2>2. Len(prog[Top.fn][Top.b].ins) \in Nat \ {0}
    BY <1>1 DEF IsBlock
  <2>. QED  BY <2>1, <2>2
<1>4. ASSUME Cur.op # "select", Top.i = Len(prog[Top.fn][Top.b].ins),
             NEW k \in 1..Len(prog[Top.fn][Top.b].succs)
      PROVE  Succ(k) \in Items
  BY <1>1, <1>4, SuccessorIsWork DEF Items, Succ, Cur
<1>5. ASSUME Cur.op \in {"if", "ifrecv", "ifsel"}, NEW k \in 1..2
      PROVE  Succ(k) \in Items
  <2>1. /\ Top.i = Len(prog[Top.fn][Top.b].ins)
        /\ Len(prog[Top.fn][Top.b].succs) = 2
    BY <1>1, <1>2, <1>5, Zenon DEF IsBlock, Cur
  <2>2. Cur.op # "select"
    BY <1>5
  <2>3. k \in 1..Len(prog[Top.fn][Top.b].succs)
    BY <2>1
  <2>. QED  BY <1>4, <2>1, <2>2, <2>3
<1>6. ASSUME Cur.op = "jump"
      PROVE  Succ(1) \in Items
  <2>1. /\ Top.i = Len(prog[Top.fn][Top.b].ins)
        /\ Len(prog[Top.fn][Top.b].succs) = 1
    BY <1>1, <1>2, <1>6, Zenon DEF IsBlock, Cur
  <2>2. Cur.op # "select"
    BY <1>6
  <2>3. 1 \in 1..Len(prog[Top.fn][Top.b].succs)
    BY <2>1
  <2>. QED  BY <1>4, <2>1, <2>2, <2>3
<1>. QED  BY <1>2, <1>3, <1>5, <1>6

\* The work after an instruction, once there is more of everything or there is not.
LEMMA RestOfWork ==
    ASSUME IInv, Running, Top.do = "ins", NEW fs, NEW t, NEW cs, NEW sel,
           Items \subseteq ItemsOf(prog, fs, t, cs, sel),
           Cur.op = "select" => Cur.x \in DOMAIN sel
    PROVE  /\ Rest \in Seq(ItemsOf(prog, fs, t, cs, sel))
           /\ Cardinality(Open(Rest)) = Cardinality(Open(Pop))
           /\ Cardinality(Open(Pop)) = Cardinality(Open(work))
           /\ Cardinality(Open(Rest)) \in Nat
<1>. DEFINE S == ItemsOf(prog, fs, t, cs, sel)
<1>1. /\ Top \in S /\ Pop \in Seq(S) /\ Cardinality(Open(Pop)) \in Nat
      /\ Cardinality(Open(Pop)) = Cardinality(Open(work))
  <2>1. Top \in Items /\ Pop \in Seq(Items) /\ ~IsOpen(Top)
    BY AtTop DEF IsOpen
  <2>2. Cardinality(Open(Pop)) \in Nat /\ Cardinality(Open(work)) = Cardinality(Open(Pop)) + 0
    BY <2>1, AtTop, Zenon
  <2>. QED  BY <2>1, <2>2, SeqMonotonic
<1>2. Len(prog[Top.fn][Top.b].ins) \in Nat
  BY AtInstruction
<1>3. CASE Top.i < Len(prog[Top.fn][Top.b].ins)
  <2>. DEFINE next == [Top EXCEPT !.i = @ + 1]
  <2>1. next \in S
    BY <1>1, <1>2, <1>3, NextIsWork DEF Cur
  <2>2. ~IsOpen(next)
    <3>1. next.do = Top.do
      BY AtTop
    <3>. QED  BY <3>1 DEF IsOpen
  <2>. HIDE DEF next, S
  <2>3. Rest = <<next>> \o Pop
    BY <1>3 DEF Rest, next
  <2>4. Rest \in Seq(S)
    BY <1>1, <2>1, <2>3, OneBefore
  <2>5. Cardinality(Open(Rest)) = Cardinality(Open(Pop)) + 0
    BY <1>1, <2>1, <2>2, <2>3, OpenBefore, Zenon
  <2>. QED  BY <1>1, <2>4, <2>5 DEF S
<1>4. CASE ~(Top.i < Len(prog[Top.fn][Top.b].ins))
  <2>1. Rest = Pop
    BY <1>4 DEF Rest
  <2>. QED  BY <1>1, <2>1
<1>. QED  BY <1>3, <1>4

\* The work after an instruction that opens no if.
LEMMA RestIsWork ==
    ASSUME IInv, Running, Top.do = "ins", prog' = prog, Items \subseteq Items',
           Cur.op = "select" => Cur.x \in DOMAIN selNode'
    PROVE  /\ Rest \in Seq(Items')
           /\ Cardinality(Open(Rest)) = Cardinality(Open(Pop))
           /\ Cardinality(Open(Pop)) = Cardinality(Open(work))
           /\ Cardinality(Open(Rest)) \in Nat
<1>1. Items' = ItemsOf(prog, frames', tree', chans', selNode')
  BY DEF Items
<1>. QED  BY <1>1, RestOfWork

-----------------------------------------------------------------------------
(* Steps that add nodes, and steps that only move on. *)

LEMMA NodesAdded ==
    ASSUME IInv, NEW n \in 1..Len(tree), NEW ns \in Seq(NodeOf(prog)), AreNew(ns, chans'),
           tree' = Grown(n, ns), chans \subseteq chans',
           UNCHANGED <<prog, frames>>
    PROVE  /\ IsTree(prog, tree', chans')
           /\ Len(tree) \in Nat /\ Len(ns) \in Nat /\ Len(tree') = Len(tree) + Len(ns)
           /\ AreSelects(prog, tree', selNode)
           /\ DOMAIN selNode \subseteq DOMAIN selNode' => Items \subseteq Items'
           /\ CountOf(tree, n) \in Nat /\ CountOf(tree', n) = CountOf(tree, n) + Len(ns)
           /\ GrownBy(tree, tree', n, Len(ns))
<1>1. tree' = GrownTree(tree, n, ns)
  BY DEF Grown, GrownTree
<1>2. IsTree(prog, tree, chans) /\ AreSelects(prog, tree, selNode) /\ AreFrames(prog, frames)
  BY DEF IInv
<1>3. /\ IsTree(prog, tree', chans')
      /\ Len(tree) \in Nat /\ Len(ns) \in Nat /\ Len(tree') = Len(tree) + Len(ns)
      /\ Widens(tree, tree') /\ CountOf(tree', n) = CountOf(tree, n) + Len(ns)
      /\ GrownBy(tree, tree', n, Len(ns))
  <2>. DEFINE u == GrownTree(tree, n, ns)
  <2>1. /\ IsTree(prog, u, chans')
        /\ Len(tree) \in Nat /\ Len(ns) \in Nat /\ Len(u) = Len(tree) + Len(ns)
        /\ Widens(tree, u) /\ CountOf(u, n) = CountOf(tree, n) + Len(ns)
        /\ GrownBy(tree, u, n, Len(ns))
    BY <1>2, TreeGrows
  <2>2. tree' = u
    BY <1>1
  <2>. HIDE DEF u
  <2>. QED  BY <2>1, <2>2
<1>4. AreSelects(prog, tree', selNode)
  <2>1. SUFFICES ASSUME NEW x \in DOMAIN selNode
                 PROVE  /\ selNode[x].parent \in 1..Len(tree')
                        /\ \A i \in TestedCases(prog, x) :
                              i \in Nat /\ i < CountOf(tree', selNode[x].parent)
    BY DEF AreSelects, CountOf
  <2>2. /\ selNode[x].parent \in 1..Len(tree)
        /\ \A i \in TestedCases(prog, x) :
              i \in Nat /\ i < CountOf(tree, selNode[x].parent)
    BY <1>2 DEF AreSelects, CountOf
  <2>. DEFINE m == selNode[x].parent
  <2>. HIDE DEF m
  <2>3. m \in 1..Len(tree')
    BY <1>3, <2>2 DEF m
  <2>4. ASSUME NEW i \in TestedCases(prog, x) PROVE i \in Nat /\ i < CountOf(tree', m)
    <3>1. i \in Nat /\ i < CountOf(tree, m) /\ m \in 1..Len(tree)
      BY <2>2 DEF m
    <3>2. CountOf(tree, m) \in Nat /\ CountOf(tree', m) \in Nat /\ CountOf(tree, m) <= CountOf(tree', m)
      BY <1>3, <3>1 DEF Widens
    <3>. QED  BY <3>1, <3>2
  <2>. QED  BY <2>3, <2>4 DEF m
<1>5. ASSUME DOMAIN selNode \subseteq DOMAIN selNode' PROVE Items \subseteq Items'
  <2>1. Len(frames) \in Nat /\ \A k \in 1..Len(frames) : Len(frames[k].defers) \in Nat
    <3>1. frames \in Seq(FrameOf(prog))
      BY <1>2 DEF AreFrames
    <3>2. ASSUME NEW k \in 1..Len(frames) PROVE Len(frames[k].defers) \in Nat
      <4>1. frames[k] \in FrameOf(prog)
        BY <3>1, ElementOfSeq
      <4>. QED  BY <4>1, LenProperties DEF FrameOf
    <3>. QED  BY <3>1, <3>2, LenProperties
  <2>2. Len(tree') \in Nat /\ Len(tree) <= Len(tree')
    BY <1>3
  <2>3. ItemsOf(prog, frames, tree, chans, selNode)
          \subseteq ItemsOf(prog, frames, tree', chans', selNode')
    BY <1>3, <1>5, <2>1, <2>2, WorkStays
  <2>. QED  BY <2>3 DEF Items
<1>6. CountOf(tree, n) \in Nat
  BY <1>3 DEF Widens
<1>. QED  BY <1>3, <1>4, <1>5, <1>6

\* AddNode, and what is left to do in the tree with one node more.
LEMMA NodeAdded ==
    ASSUME IInv, NEW n \in 1..Len(tree), NEW k \in Kind, NEW x \in ArgOf(prog),
           AddNodeAt(n, k, x), chans \subseteq chans', k \in CommKind => x \in chans',
           UNCHANGED <<prog, frames, selNode>>
    PROVE  /\ IsTree(prog, tree', chans') /\ AreSelects(prog, tree', selNode)
           /\ Len(tree) \in Nat /\ Len(tree') = Len(tree) + 1 /\ leaf' \in 1..Len(tree')
           /\ Items \subseteq Items'
<1>. DEFINE ns == <<Leaf(k, x)>>
<1>1. /\ ns \in Seq(NodeOf(prog)) /\ Len(ns) = 1 /\ AreNew(ns, chans')
  <2>1. Leaf(k, x) \in NodeOf(prog)
    BY EmptySeq DEF Leaf, NodeOf
  <2>2. Leaf(k, x).kids = << >> /\ Leaf(k, x).kind = k /\ Leaf(k, x).arg = x
    BY DEF Leaf
  <2>3. <<Leaf(k, x)>> \in Seq(NodeOf(prog)) /\ Len(<<Leaf(k, x)>>) = 1
        /\ <<Leaf(k, x)>>[1] = Leaf(k, x)
    BY <2>1
  <2>. QED  BY <2>2, <2>3 DEF AreNew
<1>2. tree' = Grown(n, ns) /\ leaf' = Len(tree) + 1
  BY DEF AddNodeAt
<1>. HIDE DEF ns
<1>3. /\ IsTree(prog, tree', chans') /\ AreSelects(prog, tree', selNode)
      /\ Len(tree) \in Nat /\ Len(tree') = Len(tree) + Len(ns)
      /\ Items \subseteq Items'
  <2>1. UNCHANGED <<prog, frames>> /\ DOMAIN selNode \subseteq DOMAIN selNode'
    OBVIOUS
  <2>. QED  BY <1>1, <1>2, <2>1, NodesAdded, Zenon
<1>. QED  BY <1>1, <1>2, <1>3

\* A step that adds a node.
LEMMA NodeStep ==
    ASSUME IInv, Running, NEW n \in 1..Len(tree), NEW k \in Kind, NEW x \in ArgOf(prog),
           AddNodeAt(n, k, x), chans \subseteq chans', chans' \subseteq Chan,
           k \in CommKind => x \in chans', recvTest' \subseteq chans',
           UNCHANGED <<prog, pc, frames, role, root, queue, types, selNode>>,
           work' \in Seq(Items'), ifparent' \in Seq(1..Len(tree)),
           Len(ifparent') = Cardinality(Open(work'))
    PROVE  IInv'
<1>1. /\ IsTree(prog', tree', chans') /\ AreSelects(prog', tree', selNode')
      /\ Len(tree) \in Nat /\ Len(tree') = Len(tree) + 1 /\ leaf' \in 1..Len(tree')
  BY NodeAdded
<1>2. /\ IsProgram(prog') /\ AreFrames(prog', frames') /\ role' \in Role
      /\ queue' \in Seq(Called(prog', frames')) /\ pc' \in {"init", "main", "gortns"}
  BY DEF IInv, Running
<1>3. /\ root' \in 1..Len(tree')
      /\ \A r \in DOMAIN types' : r \in Role /\ types'[r] \in 1..Len(tree')
  BY <1>1 DEF IInv
<1>4. \A j \in 1..Len(frames') : frames'[j].role \in Treed(types', role', queue', frames')
  BY DEF IInv, Running
<1>5. ifparent' \in Seq(1..Len(tree'))
  <2>1. 1..Len(tree) \subseteq 1..Len(tree')
    BY <1>1
  <2>. QED  BY <2>1, SeqMonotonic
<1>. QED  BY <1>1, <1>2, <1>3, <1>4, <1>5 DEF IInv

\* A step that only moves on, or ends the program.
LEMMA WorkStep ==
    ASSUME IInv, Running,
           UNCHANGED <<prog, frames, role, root, queue, types, selNode, tree, chans>>,
           pc' \in {"init", "main", "gortns", "crashed"},
           recvTest' \subseteq chans, leaf' \in 1..Len(tree),
           work' \in Seq(Items), ifparent' \in Seq(1..Len(tree)),
           Len(ifparent') = Cardinality(Open(work'))
    PROVE  IInv'
<1>1. Items' = Items
  BY DEF Items
<1>2. \A j \in 1..Len(frames') : frames'[j].role \in Treed(types', role', queue', frames')
  BY DEF IInv, Running
<1>. QED  BY <1>1, <1>2 DEF IInv

-----------------------------------------------------------------------------
(* The actions. *)

\* One piece of work, or two, on a stack.
LEMMA Pushed ==
    ASSUME NEW S, NEW s \in Seq(S), NEW x \in S
    PROVE  /\ <<x>> \o s \in Seq(S) /\ Cardinality(Open(s)) \in Nat
           /\ IsOpen(x) => Cardinality(Open(<<x>> \o s)) = Cardinality(Open(s)) + 1
           /\ ~IsOpen(x) => Cardinality(Open(<<x>> \o s)) = Cardinality(Open(s))
<1>1. /\ <<x>> \o s \in Seq(S) /\ Cardinality(Open(s)) \in Nat
      /\ Cardinality(Open(<<x>> \o s)) = Cardinality(Open(s)) + (IF IsOpen(x) THEN 1 ELSE 0)
  BY OneBefore, OpenBefore
<1>. QED  BY <1>1

\* Two items on the stack, the second perhaps an open if.
LEMMA PushedTwo ==
    ASSUME NEW S, NEW s \in Seq(S), NEW x \in S, NEW y \in S, ~IsOpen(x)
    PROVE  /\ <<x, y>> \o s \in Seq(S) /\ Cardinality(Open(s)) \in Nat
           /\ IsOpen(y) => Cardinality(Open(<<x, y>> \o s)) = Cardinality(Open(s)) + 1
           /\ ~IsOpen(y) => Cardinality(Open(<<x, y>> \o s)) = Cardinality(Open(s))
<1>1. <<x, y>> \o s = <<x>> \o (<<y>> \o s)
  <2>1. <<x>> \in Seq(S) /\ <<y>> \in Seq(S) /\ <<x, y>> = <<x>> \o <<y>>
    <3>1. <<x>> \in Seq(S) /\ <<y>> \in Seq(S)
      OBVIOUS
    <3>2. Append(<<x>>, y) = <<x>> \o <<y>>
      BY <3>1, AppendIsConcat
    <3>3. Append(<<x>>, y) = <<x, y>>
      <4>. DEFINE one == Append(<<x>>, y)
                  two == <<x, y>>
      <4>1. /\ one \in Seq(S) /\ Len(one) = 2 /\ one[1] = x /\ one[2] = y
        BY <3>1, AppendProperties
      <4>2. /\ two \in Seq(S) /\ Len(two) = 2 /\ two[1] = x /\ two[2] = y
        OBVIOUS
      <4>. HIDE DEF one, two
      <4>3. \A i \in 1..2 : one[i] = two[i]
        BY <4>1, <4>2
      <4>4. one = two
        BY <4>1, <4>2, <4>3, SeqEqual
      <4>. QED  BY <4>4 DEF one, two
    <3>. QED  BY <3>1, <3>2, <3>3
  <2>. QED  BY <2>1, ConcatAssociative
<1>. DEFINE v == <<y>> \o s
<1>2. /\ v \in Seq(S) /\ Cardinality(Open(s)) \in Nat
      /\ IsOpen(y) => Cardinality(Open(v)) = Cardinality(Open(s)) + 1
      /\ ~IsOpen(y) => Cardinality(Open(v)) = Cardinality(Open(s))
  BY Pushed
<1>. HIDE DEF v
<1>3. <<x>> \o v \in Seq(S) /\ Cardinality(Open(<<x>> \o v)) = Cardinality(Open(v))
  BY <1>2, Pushed
<1>4. <<x, y>> \o s = <<x>> \o v
  BY <1>1 DEF v
<1>. QED  BY <1>2, <1>3, <1>4

\* The work below the top.
LEMMA Popped ==
    ASSUME IInv, Running
    PROVE  /\ Pop \in Seq(Items) /\ Cardinality(Open(Pop)) \in Nat
           /\ ifparent \in Seq(1..Len(tree)) /\ Len(ifparent) \in Nat
           /\ ~IsOpen(Top) => Cardinality(Open(Pop)) = Len(ifparent)
           /\ IsOpen(Top) => Cardinality(Open(Pop)) = Len(ifparent) - 1
<1>1. /\ ifparent \in Seq(1..Len(tree)) /\ Len(ifparent) = Cardinality(Open(work))
  BY DEF IInv
<1>2. /\ Pop \in Seq(Items) /\ Cardinality(Open(Pop)) \in Nat
      /\ Cardinality(Open(work)) = Cardinality(Open(Pop)) + (IF IsOpen(Top) THEN 1 ELSE 0)
  BY AtTop
<1>3. Len(ifparent) \in Nat
  BY <1>1, LenProperties
<1>. QED  BY <1>1, <1>2, <1>3

\* What nodes are about.
LEMMA ArgsOf ==
    ASSUME IInv
    PROVE  /\ NoArg \in ArgOf(prog) /\ Chan \subseteq ArgOf(prog) /\ chans \subseteq Chan
           /\ recvTest \subseteq chans /\ leaf \in 1..Len(tree)
           /\ \A f \in DOMAIN prog, b \in Nat : BlockLabel(f, b) \in ArgOf(prog)
<1>1. NoArg \in ArgOf(prog) /\ Chan \subseteq ArgOf(prog)
  BY ProgramAssumption DEF NoArg, ArgOf
<1>2. chans \subseteq Chan /\ recvTest \subseteq chans /\ leaf \in 1..Len(tree)
  BY DEF IInv
<1>3. \A f \in DOMAIN prog, b \in Nat : BlockLabel(f, b) \in ArgOf(prog)
  <2>1. SUFFICES ASSUME NEW f \in DOMAIN prog, NEW b \in Nat
                 PROVE  BlockLabel(f, b) \in ArgOf(prog)
    OBVIOUS
  <2>2. BlockLabel(f, b) \in {BlockLabel(g, c) : g \in DOMAIN prog, c \in Nat}
    OBVIOUS
  <2>. QED  BY <2>2 DEF ArgOf
<1>. QED  BY <1>1, <1>2, <1>3

\* visitBlock, with a label, a goto or neither.
LEMMA BlockStep == ASSUME IInv, VisitBlock PROVE IInv'
<1>. DEFINE label == BlockLabel(Top.fn, Top.b)
            first == Item("ins", Top.fr, Top.fn, Top.b, 1, 0)
<1>1. /\ Running /\ Top.do = "block"
      /\ UNCHANGED <<prog, pc, frames, role, root, queue, chans, types, ifparent, selNode, recvTest>>
  BY DEF VisitBlock, Doing
<1>2. \/ /\ AddNode("goto", label) /\ work' = Pop
      \/ /\ AddNode("label", label) /\ work' = <<first>> \o Pop
      \/ /\ work' = <<first>> \o Pop /\ UNCHANGED <<tree, leaf>>
  BY DEF VisitBlock
<1>3. /\ Top \in Items /\ Top.fn \in DOMAIN prog /\ Top.b \in Nat /\ IsProgram(prog)
      /\ Len(tree) \in Nat /\ ~IsOpen(Top)
  BY <1>1, AtTop DEF IsOpen
<1>4. first \in Items
  BY <1>1, <1>3, InstructionsAreWork DEF Items
<1>5. ~IsOpen(first)
  BY DEF IsOpen, Item
<1>6. label \in ArgOf(prog) /\ leaf \in 1..Len(tree) /\ chans \subseteq Chan /\ recvTest \subseteq chans
  BY <1>3, ArgsOf
<1>7. /\ Pop \in Seq(Items) /\ Cardinality(Open(Pop)) = Len(ifparent)
      /\ ifparent \in Seq(1..Len(tree))
  BY <1>1, <1>3, Popped
<1>. HIDE DEF label, first
<1>8. ASSUME Items \subseteq Items'
      PROVE  /\ Pop \in Seq(Items') /\ <<first>> \o Pop \in Seq(Items')
             /\ Cardinality(Open(<<first>> \o Pop)) = Len(ifparent)
  <2>1. Pop \in Seq(Items') /\ first \in Items'
    BY <1>4, <1>7, <1>8, SeqMonotonic
  <2>. QED  BY <1>5, <1>7, <2>1, Pushed
<1>9. ASSUME NEW k \in {"goto", "label"}, AddNode(k, label),
             work' = Pop \/ work' = <<first>> \o Pop
      PROVE  IInv'
  <2>1. k \in Kind /\ k \notin CommKind
    BY <1>9 DEF Kind, CommKind
  <2>2. AddNodeAt(leaf, k, label) /\ chans' = chans
    BY <1>1, <1>9 DEF AddNode
  <2>3. Items \subseteq Items'
    BY <1>1, <1>6, <2>1, <2>2, NodeAdded
  <2>4. work' \in Seq(Items') /\ Cardinality(Open(work')) = Len(ifparent')
    BY <1>1, <1>7, <1>8, <1>9, <2>3
  <2>. QED  BY <1>1, <1>6, <1>7, <2>1, <2>2, <2>4, NodeStep
<1>10. ASSUME work' = <<first>> \o Pop, UNCHANGED <<tree, leaf>> PROVE IInv'
  <2>1. Items' = Items
    BY <1>1, <1>10 DEF Items
  <2>2. work' \in Seq(Items) /\ Cardinality(Open(work')) = Len(ifparent')
    BY <1>1, <1>8, <1>10, <2>1
  <2>3. pc' \in {"init", "main", "gortns", "crashed"}
    BY <1>1 DEF Running
  <2>. QED  BY <1>1, <1>6, <1>7, <1>10, <2>2, <2>3, WorkStep
<1>. QED  BY <1>2, <1>9, <1>10

\* MakeChan, sends and receives.
LEMMA CommStep == ASSUME IInv, VisitComm PROVE IInv'
<1>. DEFINE k == IF Cur.op = "make" THEN "skip" ELSE Cur.op
            x == IF Cur.op = "make" THEN NoArg ELSE Cur.x
<1>1. /\ Running /\ Top.do = "ins" /\ Cur.op \in {"make", "send", "recv"}
      /\ AddNodeAt(leaf, k, x) /\ chans' = chans \cup {Cur.x} /\ work' = Rest
      /\ UNCHANGED <<prog, pc, frames, role, root, visited, queue, types, ifparent, selNode, recvTest>>
  BY DEF VisitComm, OnIns, Doing, AddNode, MadeChan
<1>2. Cur.x \in Chan
  <2>1. IsInstruction(prog, Cur)
    BY <1>1, AtInstruction
  <2>. QED  BY <1>1, <2>1 DEF IsInstruction
<1>3. /\ x \in ArgOf(prog) /\ leaf \in 1..Len(tree)
      /\ chans \subseteq chans' /\ chans' \subseteq Chan /\ recvTest' \subseteq chans'
  BY <1>1, <1>2, ArgsOf
<1>4. k \in Kind /\ (k \in CommKind => x \in chans')
  BY <1>1 DEF Kind, CommKind
<1>. HIDE DEF k, x
<1>5. Items \subseteq Items'
  BY <1>1, <1>3, <1>4, NodeAdded
<1>6. ~IsOpen(Top) /\ Cur.op # "select"
  BY <1>1 DEF IsOpen
<1>7. work' \in Seq(Items') /\ Cardinality(Open(work')) = Len(ifparent')
  BY <1>1, <1>5, <1>6, RestIsWork, Popped
<1>8. ifparent' \in Seq(1..Len(tree))
  BY <1>1, Popped
<1>. QED  BY <1>1, <1>3, <1>4, <1>7, <1>8, NodeStep

\* A receive with ok, which leaves a known channel to the test.
LEMMA RecvOkStep == ASSUME IInv, VisitRecvOk PROVE IInv'
<1>1. /\ Running /\ Top.do = "ins" /\ Cur.op = "recvok"
      /\ chans' = chans \cup {Cur.x} /\ work' = Rest
      /\ UNCHANGED <<prog, pc, frames, role, root, visited, queue, types, ifparent, selNode>>
  BY DEF VisitRecvOk, OnIns, Doing, MadeChan
<1>2. Cur.x \in Chan
  <2>1. IsInstruction(prog, Cur)
    BY <1>1, AtInstruction
  <2>. QED  BY <1>1, <2>1 DEF IsInstruction
<1>3. /\ Cur.x \in ArgOf(prog) /\ leaf \in 1..Len(tree)
      /\ chans \subseteq chans' /\ chans' \subseteq Chan /\ recvTest \subseteq chans
  BY <1>1, <1>2, ArgsOf
<1>4. ~IsOpen(Top) /\ Cur.op # "select" /\ pc' \in {"init", "main", "gortns", "crashed"}
  BY <1>1 DEF IsOpen, Running
<1>5. ifparent' \in Seq(1..Len(tree))
  BY <1>1, Popped
<1>6. CASE Cur.x \in chans
  <2>1. chans' = chans /\ recvTest' \subseteq chans /\ UNCHANGED <<tree, leaf>>
    BY <1>1, <1>3, <1>6 DEF VisitRecvOk
  <2>2. Items' = Items
    BY <1>1, <2>1 DEF Items
  <2>3. work' \in Seq(Items) /\ Cardinality(Open(work')) = Len(ifparent')
    BY <1>1, <1>4, <2>2, RestIsWork, Popped
  <2>. QED  BY <1>1, <1>3, <1>4, <1>5, <2>1, <2>3, WorkStep
<1>7. CASE Cur.x \notin chans
  <2>1. AddNodeAt(leaf, "recv", Cur.x) /\ recvTest' \subseteq chans'
    BY <1>1, <1>3, <1>7 DEF VisitRecvOk, AddNode
  <2>2. "recv" \in Kind /\ Cur.x \in chans'
    BY <1>1 DEF Kind, CommKind
  <2>3. Items \subseteq Items'
    BY <1>1, <1>3, <2>1, <2>2, NodeAdded
  <2>4. work' \in Seq(Items') /\ Cardinality(Open(work')) = Len(ifparent')
    BY <1>1, <1>4, <2>3, RestIsWork, Popped
  <2>. QED  BY <1>1, <1>3, <1>5, <2>1, <2>2, <2>4, NodeStep
<1>. QED  BY <1>6, <1>7

\* A step that only moves on, with the same ifs open.
LEMMA MoveStep ==
    ASSUME IInv, Running,
           UNCHANGED <<prog, frames, role, root, queue, types, selNode, tree, chans, ifparent, recvTest>>,
           pc' \in {pc, "crashed"}, leaf' \in 1..Len(tree),
           work' \in Seq(Items), Cardinality(Open(work')) = Cardinality(Open(work))
    PROVE  IInv'
<1>1. pc' \in {"init", "main", "gortns", "crashed"}
  BY DEF Running
<1>2. recvTest' \subseteq chans /\ ifparent' \in Seq(1..Len(tree)) /\ Len(ifparent') = Cardinality(Open(work'))
  BY DEF IInv
<1>. QED  BY <1>1, <1>2, WorkStep

\* The nodes of the cases of the select i, and that for its default.
CaseNodes(i) ==
    LET cases == [k \in 1..Len(i.args) |-> Leaf(i.args[k].op, i.args[k].x)]
    IN  IF Blocking(i) THEN cases ELSE Append(cases, Leaf("skip", NoArg))

LEMMA CasesAreNodes ==
    ASSUME IInv, Running, Top.do = "ins", Cur.op = "select",
           \A k \in 1..Len(Cur.args) : Cur.args[k].x \in chans
    PROVE  /\ CaseNodes(Cur) \in Seq(NodeOf(prog)) /\ Len(CaseNodes(Cur)) = NodesOf(Cur)
           /\ AreNew(CaseNodes(Cur), chans)
           /\ \A j \in 1..NodesOf(Cur) : CaseNodes(Cur)[j].kind \in {"send", "recv", "skip"}
<1>. DEFINE cases == [k \in 1..Len(Cur.args) |-> Leaf(Cur.args[k].op, Cur.args[k].x)]
            ns    == IF Blocking(Cur) THEN cases ELSE Append(cases, Leaf("skip", NoArg))
<1>1. /\ Len(Cur.args) \in Nat
      /\ \A k \in 1..Len(Cur.args) : Cur.args[k].op \in {"send", "recv"}
  BY AtInstruction DEF IsInstruction
<1>2. ASSUME NEW k \in 1..Len(Cur.args)
      PROVE  /\ cases[k] \in NodeOf(prog) /\ cases[k].kids = << >>
             /\ cases[k].kind \in CommKind => cases[k].arg \in chans
             /\ cases[k].kind \in {"send", "recv", "skip"}
  <2>1. /\ Cur.args[k].op \in Kind /\ Cur.args[k].op \in {"send", "recv"}
        /\ Cur.args[k].x \in chans /\ Cur.args[k].x \in ArgOf(prog)
    BY <1>1, ArgsOf DEF Kind, CommKind
  <2>. QED  BY <2>1 DEF Leaf, NodeOf
<1>3. cases \in Seq(NodeOf(prog)) /\ Len(cases) = Len(Cur.args)
  <2>1. cases \in [1..Len(Cur.args) -> NodeOf(prog)]
    BY <1>2
  <2>2. cases \in Seq(NodeOf(prog))
    BY <1>1, <2>1, SeqDef
  <2>. QED  BY <1>1, <2>1, <2>2, LenProperties
<1>4. AreNew(cases, chans) /\ \A k \in 1..Len(cases) : cases[k].kind \in {"send", "recv", "skip"}
  BY <1>2, <1>3 DEF AreNew
<1>. HIDE DEF cases
<1>5. /\ ns \in Seq(NodeOf(prog)) /\ Len(ns) = NodesOf(Cur) /\ AreNew(ns, chans)
      /\ \A j \in 1..NodesOf(Cur) : ns[j].kind \in {"send", "recv", "skip"}
  <2>1. CASE Blocking(Cur)
    <3>1. ns = cases /\ NodesOf(Cur) = Len(Cur.args) + 0
      BY <2>1 DEF NodesOf
    <3>. QED  BY <1>1, <1>3, <1>4, <3>1
  <2>2. CASE ~Blocking(Cur)
    <3>. DEFINE last == Leaf("skip", NoArg)
    <3>1. ns = Append(cases, last) /\ NodesOf(Cur) = Len(Cur.args) + 1
      BY <2>2 DEF NodesOf
    <3>2. last \in NodeOf(prog) /\ last.kids = << >> /\ last.kind \notin CommKind /\ last.kind = "skip"
      BY ArgsOf DEF Leaf, NodeOf, Kind, CommKind
    <3>. HIDE DEF last, ns
    <3>3. /\ ns \in Seq(NodeOf(prog)) /\ Len(ns) = Len(cases) + 1
          /\ \A j \in 1..Len(cases) : ns[j] = cases[j]
          /\ ns[Len(cases) + 1] = last
      BY <1>3, <3>1, <3>2, AppendProperties
    <3>4. \A j \in 1..Len(ns) : j \in 1..Len(cases) \/ j = Len(cases) + 1
      BY <1>1, <1>3, <3>3
    <3>5. AreNew(ns, chans)
      BY <1>4, <3>2, <3>3, <3>4 DEF AreNew
    <3>6. Len(ns) = NodesOf(Cur)
      BY <1>3, <3>1, <3>3
    <3>. QED  BY <1>4, <3>2, <3>3, <3>4, <3>5, <3>6
  <2>. QED  BY <2>1, <2>2
<1>6. CaseNodes(Cur) = ns
  BY DEF CaseNodes, cases
<1>. HIDE DEF ns
<1>. QED  BY <1>5, <1>6

\* visitSelect appends them to the leaf.
LEMMA NodesOfCases ==
    ASSUME IInv, VisitSelect, \A k \in 1..Len(Cur.args) : Cur.args[k].x \in chans
    PROVE  /\ IsTree(prog, tree', chans') /\ AreSelects(prog, tree', selNode)
           /\ Len(tree) \in Nat /\ CountOf(tree, leaf) \in Nat /\ NodesOf(Cur) \in Nat
           /\ tree' = GrownTree(tree, leaf, CaseNodes(Cur))
           /\ GrownBy(tree, tree', leaf, NodesOf(Cur))
           /\ leaf' = IF NodesOf(Cur) = 0 THEN leaf ELSE Len(tree) + NodesOf(Cur)
           /\ selNode' = [x \in DOMAIN selNode \cup {Cur.x} |->
                           IF x = Cur.x THEN [parent |-> leaf, blocking |-> Blocking(Cur)]
                           ELSE selNode[x]]
           /\ DOMAIN selNode \subseteq DOMAIN selNode' => Items \subseteq Items'
           /\ work' = Rest /\ pc' = pc
<1>1. /\ Running /\ Top.do = "ins" /\ Cur.op = "select"
      /\ UNCHANGED <<prog, frames, role, root, queue, chans, types, ifparent, recvTest>>
  BY DEF VisitSelect, OnIns, Doing
<1>2. leaf \in 1..Len(tree) /\ work \in Seq(Items) /\ chans \subseteq Chan
  BY DEF IInv
<1>. DEFINE ns == CaseNodes(Cur)
<1>3. /\ tree' = Grown(leaf, ns) /\ leaf' = LastNode(ns)
      /\ selNode' = [x \in DOMAIN selNode \cup {Cur.x} |->
                      IF x = Cur.x THEN [parent |-> leaf, blocking |-> Blocking(Cur)]
                      ELSE selNode[x]]
      /\ work' = Rest /\ pc' = pc
  BY DEF VisitSelect, CaseNodes
<1>4. ns \in Seq(NodeOf(prog)) /\ Len(ns) = NodesOf(Cur) /\ AreNew(ns, chans)
  BY <1>1, CasesAreNodes
<1>5. tree' = GrownTree(tree, leaf, ns)
  BY <1>3 DEF Grown, GrownTree
<1>. HIDE DEF ns
<1>6. /\ IsTree(prog, tree', chans')
      /\ Len(tree) \in Nat /\ Len(ns) \in Nat /\ Len(tree') = Len(tree) + Len(ns)
      /\ AreSelects(prog, tree', selNode)
      /\ DOMAIN selNode \subseteq DOMAIN selNode' => Items \subseteq Items'
      /\ CountOf(tree, leaf) \in Nat /\ GrownBy(tree, tree', leaf, Len(ns))
  <2>1. AreNew(ns, chans') /\ chans \subseteq chans'
    BY <1>1, <1>4
  <2>. QED  BY <1>1, <1>2, <1>3, <1>4, <2>1, NodesAdded
<1>7. leaf' = IF Len(ns) = 0 THEN leaf ELSE Len(tree) + Len(ns)
  <2>1. Len(ns) = 0 <=> ns = << >>
    BY <1>4, EmptySeq
  <2>. QED  BY <1>3, <2>1 DEF LastNode
<1>8. Len(ns) = NodesOf(Cur) /\ tree' = GrownTree(tree, leaf, CaseNodes(Cur))
  BY <1>4, <1>5 DEF ns
<1>. QED  BY <1>3, <1>6, <1>7, <1>8

\* visitSelect, whose node is found by the tests after it.
LEMMA SelectStep == ASSUME IInv, VisitSelect PROVE IInv'
<1>1. /\ Running /\ Top.do = "ins" /\ Cur.op = "select"
      /\ UNCHANGED <<prog, frames, role, root, queue, chans, types, ifparent, recvTest>>
  BY DEF VisitSelect, OnIns, Doing
<1>2. leaf \in 1..Len(tree) /\ work \in Seq(Items) /\ chans \subseteq Chan
  BY DEF IInv
<1>3. CASE \E k \in 1..Len(Cur.args) : Cur.args[k].x \notin chans
  <2>1. pc' = "crashed" /\ UNCHANGED <<work, tree, leaf, selNode>>
    BY <1>3 DEF VisitSelect
  <2>. QED  BY <1>1, <1>2, <2>1, MoveStep
<1>4. CASE ~ \E k \in 1..Len(Cur.args) : Cur.args[k].x \notin chans
  <2>. DEFINE n == NodesOf(Cur)
  <2>1. /\ selNode' = [x \in DOMAIN selNode \cup {Cur.x} |->
                        IF x = Cur.x THEN [parent |-> leaf, blocking |-> Blocking(Cur)]
                        ELSE selNode[x]]
        /\ leaf' = (IF n = 0 THEN leaf ELSE Len(tree) + n) /\ work' = Rest /\ pc' = pc
    BY <1>4, NodesOfCases
  <2>2. \A k \in TestedCases(prog, Cur.x) : k \in Nat /\ k < n
    BY <1>1, AtInstruction DEF IsInstruction
  <2>3. /\ IsTree(prog, tree', chans')
        /\ Len(tree) \in Nat /\ n \in Nat /\ Len(tree') = Len(tree) + n
        /\ AreSelects(prog, tree', selNode)
        /\ DOMAIN selNode \subseteq DOMAIN selNode' => Items \subseteq Items'
        /\ CountOf(tree, leaf) \in Nat /\ CountOf(tree', leaf) = CountOf(tree, leaf) + n
    BY <1>4, NodesOfCases DEF GrownBy
  <2>. HIDE DEF n
  <2>4. DOMAIN selNode' = DOMAIN selNode \cup {Cur.x}
    BY <2>1
  <2>5. leaf \in 1..Len(tree') /\ leaf' \in 1..Len(tree')
    <3>1. leaf' = leaf \/ (n # 0 /\ leaf' = Len(tree) + n)
      BY <2>1
    <3>. QED  BY <1>2, <2>3, <3>1
  <2>6. AreSelects(prog, tree', selNode')
    <3>1. SUFFICES ASSUME NEW x \in DOMAIN selNode'
                   PROVE  /\ selNode'[x].parent \in 1..Len(tree')
                          /\ \A k \in TestedCases(prog, x) :
                                k \in Nat /\ k < CountOf(tree', selNode'[x].parent)
      BY DEF AreSelects, CountOf
    <3>2. CASE x = Cur.x
      <4>1. selNode'[x].parent = leaf
        BY <2>1, <3>2
      <4>2. ASSUME NEW k \in TestedCases(prog, x) PROVE k \in Nat /\ k < CountOf(tree', leaf)
        <5>1. k \in Nat /\ k < n
          BY <2>2, <3>2
        <5>. QED  BY <2>3, <5>1
      <4>. QED  BY <2>5, <4>1, <4>2
    <3>3. CASE x # Cur.x
      <4>1. x \in DOMAIN selNode /\ selNode'[x] = selNode[x]
        BY <2>1, <2>4, <3>3
      <4>. QED  BY <2>3, <4>1 DEF AreSelects, CountOf
    <3>. QED  BY <3>2, <3>3
  <2>7. Items \subseteq Items'
    BY <2>3, <2>4
  <2>8. work' \in Seq(Items') /\ Cardinality(Open(work')) = Cardinality(Open(work))
    BY <1>1, <2>1, <2>4, <2>7, RestIsWork
  <2>9. ifparent' \in Seq(1..Len(tree')) /\ Len(ifparent') = Cardinality(Open(work'))
    <3>1. ifparent \in Seq(1..Len(tree)) /\ Len(ifparent) = Cardinality(Open(work))
      BY DEF IInv
    <3>2. 1..Len(tree) \subseteq 1..Len(tree')
      BY <2>3
    <3>. QED  BY <1>1, <2>8, <3>1, <3>2, SeqMonotonic
  <2>10. /\ root' \in 1..Len(tree')
         /\ \A r \in DOMAIN types' : r \in Role /\ types'[r] \in 1..Len(tree')
    BY <1>1, <2>3 DEF IInv
  <2>11. /\ IsProgram(prog') /\ AreFrames(prog', frames') /\ role' \in Role
         /\ queue' \in Seq(Called(prog', frames')) /\ pc' \in {"init", "main", "gortns"}
         /\ chans' \subseteq Chan /\ recvTest' \subseteq chans'
    BY <1>1, <2>1 DEF IInv, Running
  <2>12. \A j \in 1..Len(frames') : frames'[j].role \in Treed(types', role', queue', frames')
    BY <1>1 DEF IInv, Running
  <2>13. IsTree(prog', tree', chans') /\ AreSelects(prog', tree', selNode')
    BY <1>1, <2>3, <2>6
  <2>. QED  BY <2>5, <2>8, <2>9, <2>10, <2>11, <2>12, <2>13 DEF IInv
<1>. QED  BY <1>3, <1>4

\* visitJump.
LEMMA JumpStep == ASSUME IInv, VisitJump PROVE IInv'
<1>1. /\ Running /\ Top.do = "ins" /\ Cur.op = "jump" /\ work' = <<Succ(1)>> \o Rest
      /\ UNCHANGED <<prog, pc, frames, role, root, leaf, queue, tree, chans, types, ifparent,
                     selNode, recvTest>>
  BY DEF VisitJump, OnIns, Doing
<1>2. Succ(1) \in Items /\ ~IsOpen(Succ(1)) /\ leaf \in 1..Len(tree)
  BY <1>1, AtInstruction, ArgsOf DEF IsOpen, Succ, VisitOf, Item
<1>3. Items' = Items
  BY <1>1 DEF Items
<1>4. Rest \in Seq(Items) /\ Cardinality(Open(Rest)) = Cardinality(Open(work))
  BY <1>1, <1>3, RestIsWork
<1>5. work' \in Seq(Items) /\ Cardinality(Open(work')) = Cardinality(Open(work))
  BY <1>1, <1>2, <1>4, Pushed
<1>. QED  BY <1>1, <1>2, <1>5, MoveStep

\* Instructions without a node.
LEMMA ReturnStep == ASSUME IInv, VisitReturn PROVE IInv'
<1>1. /\ Running /\ Top.do = "ins" /\ Cur.op \in {"return", "panic"} /\ work' = Rest
      /\ UNCHANGED <<prog, pc, frames, role, root, leaf, queue, tree, chans, types, ifparent,
                     selNode, recvTest>>
  BY DEF VisitReturn, OnIns, Doing
<1>2. Items' = Items /\ leaf' \in 1..Len(tree) /\ Cur.op # "select"
  BY <1>1, ArgsOf DEF Items
<1>3. work' \in Seq(Items) /\ Cardinality(Open(work')) = Cardinality(Open(work))
  BY <1>1, <1>2, RestIsWork
<1>. QED  BY <1>1, <1>2, <1>3, MoveStep

\* What waits at an If: its second branch, or what is done after that.
LEMMA ThenIsWork ==
    ASSUME IInv, Running, Top.do \notin {"block", "defers"},
           NEW do \in {"else", "endif", "stop", "selelse"}, NEW at \in 0..Len(tree),
           do \in {"else", "endif"} => Cur.op \in {"if", "ifrecv"},
           do = "selelse" => Cur.op = "ifsel",
           do = "stop" => Cur.op = "ifrecv" /\ Cur.x \in chans /\ at # 0
    PROVE  Then(do, at) \in Items /\ (IsOpen(Then(do, at)) <=> do \in {"else", "endif"})
<1>1. Top \in Items
  BY AtTop
<1>2. [Top EXCEPT !.do = do, !.at = at] \in ItemsOf(prog, frames, tree, chans, selNode)
  BY <1>1, BranchIsWork, Zenon DEF Items, Cur
<1>3. [Top EXCEPT !.do = do, !.at = at].do = do
  BY AtTop
<1>. QED  BY <1>2, <1>3 DEF Then, Items, IsOpen

\* The visit of a block is not itself an open if.
LEMMA SuccessorNotOpen == \A k : ~IsOpen(Succ(k))
BY DEF IsOpen, Succ, VisitOf, Item

\* visitIf up to its first branch pushes the node it branches from.
LEMMA IfStep == ASSUME IInv, VisitIf PROVE IInv'
<1>1. /\ Running /\ Top.do = "ins" /\ Cur.op \in {"if", "ifrecv"}
      /\ ifparent' = Append(ifparent, leaf) /\ AddNodeAt(leaf, "skip", NoArg)
      /\ work' = <<Succ(1), Then("else", 0)>> \o Pop
      /\ UNCHANGED <<prog, pc, frames, role, root, queue, chans, types, selNode, recvTest>>
  BY DEF VisitIf, OnIns, Doing, AddNode
<1>2. Succ(1) \in Items /\ ~IsOpen(Succ(1)) /\ Len(tree) \in Nat
  BY <1>1, AtInstruction, SuccessorNotOpen, AtTop
<1>3. Then("else", 0) \in Items /\ IsOpen(Then("else", 0))
  BY <1>1, <1>2, ThenIsWork
<1>4. /\ NoArg \in ArgOf(prog) /\ leaf \in 1..Len(tree) /\ chans \subseteq Chan /\ recvTest' \subseteq chans'
      /\ "skip" \in Kind /\ "skip" \notin CommKind /\ chans \subseteq chans'
  BY <1>1, ArgsOf DEF Kind, CommKind
<1>5. Items \subseteq Items'
  BY <1>1, <1>4, NodeAdded
<1>6. /\ Pop \in Seq(Items) /\ ifparent \in Seq(1..Len(tree)) /\ Len(ifparent) \in Nat
      /\ Cardinality(Open(Pop)) = Len(ifparent)
  BY <1>1, Popped DEF IsOpen
<1>. DEFINE x == Succ(1)
            y == Then("else", 0)
<1>. HIDE DEF x, y
<1>7. <<x, y>> \o Pop \in Seq(Items') /\ Cardinality(Open(<<x, y>> \o Pop)) = Len(ifparent) + 1
  <2>1. Pop \in Seq(Items') /\ x \in Items' /\ y \in Items'
    BY <1>2, <1>3, <1>5, <1>6, SeqMonotonic DEF x, y
  <2>2. ~IsOpen(x) /\ IsOpen(y)
    BY <1>2, <1>3 DEF x, y
  <2>. QED  BY <1>6, <2>1, <2>2, PushedTwo
<1>8. work' \in Seq(Items') /\ Cardinality(Open(work')) = Len(ifparent) + 1
  BY <1>1, <1>7 DEF x, y
<1>9. ifparent' \in Seq(1..Len(tree)) /\ Len(ifparent') = Len(ifparent) + 1
  BY <1>1, <1>4, <1>6, AppendProperties
<1>. QED  BY <1>1, <1>4, <1>8, <1>9, NodeStep

\* visitIf between its branches finds that node on top.
LEMMA ElseStep == ASSUME IInv, VisitElse PROVE IInv'
<1>1. /\ Running /\ Top.do = "else" /\ AddNodeAt(ElseParent, "skip", NoArg)
      /\ work' = <<Succ(2), Then("endif", 0)>> \o Pop
      /\ UNCHANGED <<prog, pc, frames, role, root, queue, chans, types, ifparent, selNode, recvTest>>
  BY DEF VisitElse, Doing
<1>2. /\ Top \in Items /\ IsOpen(Top) /\ Len(tree) \in Nat
      /\ Cur.op \in {"if", "ifrecv"}
  <2>1. Top \in Items /\ Len(tree) \in Nat
    BY <1>1, AtTop
  <2>. QED  BY <1>1, <2>1 DEF IsOpen, Items, ItemsOf, Cur
<1>3. /\ Pop \in Seq(Items) /\ ifparent \in Seq(1..Len(tree)) /\ Len(ifparent) \in Nat
      /\ Cardinality(Open(Pop)) = Len(ifparent) - 1 /\ Cardinality(Open(Pop)) \in Nat
  BY <1>1, <1>2, Popped
<1>4. ElseParent \in 1..Len(tree)
  <2>1. Len(ifparent) \in 1..Len(ifparent)
    BY <1>3
  <2>2. ifparent[Len(ifparent)] \in 1..Len(tree)
    BY <1>3, <2>1, ElementOfSeq
  <2>. QED  BY <2>2 DEF ElseParent, Last
<1>5. Succ(2) \in Items /\ ~IsOpen(Succ(2))
  BY <1>1, <1>2, AtInstruction, SuccessorNotOpen
<1>6. Then("endif", 0) \in Items /\ IsOpen(Then("endif", 0))
  BY <1>1, <1>2, ThenIsWork
<1>7. /\ NoArg \in ArgOf(prog) /\ chans' \subseteq Chan /\ recvTest' \subseteq chans'
      /\ "skip" \in Kind /\ "skip" \notin CommKind /\ chans \subseteq chans'
  BY <1>1, ArgsOf DEF Kind, CommKind
<1>8. Items \subseteq Items'
  BY <1>1, <1>4, <1>7, NodeAdded
<1>. DEFINE x == Succ(2)
            y == Then("endif", 0)
<1>. HIDE DEF x, y
<1>9. <<x, y>> \o Pop \in Seq(Items') /\ Cardinality(Open(<<x, y>> \o Pop)) = Len(ifparent)
  <2>1. Pop \in Seq(Items') /\ x \in Items' /\ y \in Items'
    BY <1>3, <1>5, <1>6, <1>8, SeqMonotonic DEF x, y
  <2>2. ~IsOpen(x) /\ IsOpen(y)
    BY <1>5, <1>6 DEF x, y
  <2>3. Cardinality(Open(<<x, y>> \o Pop)) = Cardinality(Open(Pop)) + 1 /\ <<x, y>> \o Pop \in Seq(Items')
    BY <2>1, <2>2, PushedTwo
  <2>. QED  BY <1>3, <2>3
<1>10. work' \in Seq(Items') /\ Len(ifparent') = Cardinality(Open(work'))
  BY <1>1, <1>9 DEF x, y
<1>11. ifparent' \in Seq(1..Len(tree))
  BY <1>1, <1>3
<1>. QED  BY <1>1, <1>4, <1>7, <1>10, <1>11, NodeStep

\* visitIf after its second branch pops it.
LEMMA EndIfStep == ASSUME IInv, EndIf PROVE IInv'
<1>1. /\ Running /\ Top.do = "endif" /\ ifparent' = Front(ifparent) /\ work' = Pop
      /\ UNCHANGED <<prog, pc, frames, role, root, leaf, queue, tree, chans, types, selNode, recvTest>>
  BY DEF EndIf, Doing
<1>2. /\ Pop \in Seq(Items) /\ ifparent \in Seq(1..Len(tree)) /\ Len(ifparent) \in Nat
      /\ Cardinality(Open(Pop)) = Len(ifparent) - 1 /\ Cardinality(Open(Pop)) \in Nat
  BY <1>1, Popped DEF IsOpen
<1>3. ifparent' \in Seq(1..Len(tree)) /\ Len(ifparent') = Len(ifparent) - 1
  <2>1. \A i \in 1..(Len(ifparent) - 1) : ifparent[i] \in 1..Len(tree)
    <3>1. \A i \in 1..(Len(ifparent) - 1) : i \in 1..Len(ifparent)
      BY <1>2
    <3>. QED  BY <1>2, <3>1, ElementOfSeq
  <2>2. /\ SubSeq(ifparent, 1, Len(ifparent) - 1) \in Seq(1..Len(tree))
        /\ Len(SubSeq(ifparent, 1, Len(ifparent) - 1)) =
              IF 1 <= Len(ifparent) - 1 THEN (Len(ifparent) - 1) - 1 + 1 ELSE 0
    <3>1. Len(ifparent) - 1 \in Int /\ 1 \in Int
      BY <1>2
    <3>. QED  BY <2>1, <3>1, SubSeqProperties
  <2>3. Len(ifparent) - 1 \in Nat
    BY <1>2
  <2>4. (IF 1 <= Len(ifparent) - 1 THEN (Len(ifparent) - 1) - 1 + 1 ELSE 0) = Len(ifparent) - 1
    BY <2>3
  <2>5. ifparent' = SubSeq(ifparent, 1, Len(ifparent) - 1)
    BY <1>1 DEF Front
  <2>. QED  BY <2>2, <2>4, <2>5
<1>4. /\ leaf' \in 1..Len(tree) /\ recvTest' \subseteq chans
      /\ pc' \in {"init", "main", "gortns", "crashed"}
  BY <1>1, ArgsOf DEF Running
<1>5. work' \in Seq(Items) /\ Len(ifparent') = Cardinality(Open(work'))
  BY <1>1, <1>2, <1>3
<1>. QED  BY <1>1, <1>3, <1>4, <1>5, WorkStep

\* visitIf at a test of ok.
LEMMA IfRecvStep == ASSUME IInv, VisitIfRecv PROVE IInv'
<1>1. /\ Running /\ Top.do = "ins" /\ Cur.op = "ifrecv" /\ Cur.x \in recvTest
      /\ AddNodeAt(leaf, "recv", Cur.x)
      /\ work' = <<Succ(1), Then("stop", leaf)>> \o Pop
      /\ UNCHANGED <<prog, pc, frames, role, root, queue, chans, types, ifparent, selNode, recvTest>>
  BY DEF VisitIfRecv, OnIns, Doing, AddNode
<1>2. /\ Cur.x \in chans /\ Cur.x \in ArgOf(prog) /\ leaf \in 1..Len(tree) /\ leaf \in 0..Len(tree)
      /\ leaf # 0 /\ chans' \subseteq Chan /\ recvTest' \subseteq chans' /\ chans \subseteq chans'
      /\ "recv" \in Kind
  <2>1. Len(tree) \in Nat /\ leaf \in 1..Len(tree)
    BY <1>1, AtTop, ArgsOf
  <2>. QED  BY <1>1, <2>1, ArgsOf DEF Kind, CommKind
<1>3. Succ(1) \in Items /\ ~IsOpen(Succ(1))
  BY <1>1, AtInstruction, SuccessorNotOpen
<1>4. Then("stop", leaf) \in Items /\ ~IsOpen(Then("stop", leaf))
  BY <1>1, <1>2, ThenIsWork
<1>5. Items \subseteq Items'
  BY <1>1, <1>2, NodeAdded
<1>6. /\ Pop \in Seq(Items) /\ ifparent \in Seq(1..Len(tree))
      /\ Cardinality(Open(Pop)) = Len(ifparent)
  BY <1>1, Popped DEF IsOpen
<1>. DEFINE x == Succ(1)
            y == Then("stop", leaf)
<1>. HIDE DEF x, y
<1>7. <<x, y>> \o Pop \in Seq(Items') /\ Cardinality(Open(<<x, y>> \o Pop)) = Len(ifparent)
  <2>1. Pop \in Seq(Items') /\ x \in Items' /\ y \in Items'
    BY <1>3, <1>4, <1>5, <1>6, SeqMonotonic DEF x, y
  <2>2. ~IsOpen(x) /\ ~IsOpen(y)
    BY <1>3, <1>4 DEF x, y
  <2>. QED  BY <1>6, <2>1, <2>2, PushedTwo
<1>8. work' \in Seq(Items') /\ Len(ifparent') = Cardinality(Open(work')) /\ ifparent' \in Seq(1..Len(tree))
  BY <1>1, <1>6, <1>7 DEF x, y
<1>. QED  BY <1>1, <1>2, <1>8, NodeStep

\* visitIf at its second branch, where the channel is closed.
LEMMA StopStep == ASSUME IInv, VisitStop PROVE IInv'
<1>1. /\ Running /\ Top.do = "stop" /\ AddNodeAt(Top.at, "stop", Cur.x)
      /\ work' = <<Succ(2)>> \o Pop
      /\ UNCHANGED <<prog, pc, frames, role, root, queue, chans, types, ifparent, selNode, recvTest>>
  BY DEF VisitStop, Doing
<1>2. Top.at \in 1..Len(tree) /\ Cur.op = "ifrecv" /\ Cur.x \in chans
  <2>1. Top \in Items /\ Top.at \in 0..Len(tree) /\ Len(tree) \in Nat
    BY <1>1, AtTop
  <2>2. Cur.op = "ifrecv" /\ Cur.x \in chans /\ Top.at # 0
    BY <1>1, <2>1 DEF Items, ItemsOf, Cur
  <2>. QED  BY <2>1, <2>2
<1>3. /\ Cur.x \in ArgOf(prog) /\ chans' \subseteq Chan /\ recvTest' \subseteq chans' /\ chans \subseteq chans'
      /\ Cur.x \in chans' /\ "stop" \in Kind
  BY <1>1, <1>2, ArgsOf DEF Kind, CommKind
<1>4. Succ(2) \in Items /\ ~IsOpen(Succ(2))
  BY <1>1, <1>2, AtInstruction, SuccessorNotOpen
<1>5. Items \subseteq Items'
  BY <1>1, <1>2, <1>3, NodeAdded
<1>6. /\ Pop \in Seq(Items) /\ ifparent \in Seq(1..Len(tree))
      /\ Cardinality(Open(Pop)) = Len(ifparent)
  BY <1>1, Popped DEF IsOpen
<1>7. work' \in Seq(Items') /\ Len(ifparent') = Cardinality(Open(work')) /\ ifparent' \in Seq(1..Len(tree))
  <2>1. Pop \in Seq(Items') /\ Succ(2) \in Items'
    BY <1>4, <1>5, <1>6, SeqMonotonic
  <2>. QED  BY <1>1, <1>4, <1>6, <2>1, Pushed
<1>. QED  BY <1>1, <1>2, <1>3, <1>7, NodeStep

\* A test of a case is one of those that its select has.
LEMMA CaseTested ==
    ASSUME NEW p, NEW f \in DOMAIN p, NEW b \in 1..Len(p[f]), NEW i \in 1..Len(p[f][b].ins),
           p[f][b].ins[i].op = "ifsel"
    PROVE  p[f][b].ins[i].n \in TestedCases(p, p[f][b].ins[i].x)
<1>. DEFINE x == p[f][b].ins[i].x
            tests(g, c) == {p[g][c].ins[k].n : k \in {j \in 1..Len(p[g][c].ins) :
                                p[g][c].ins[j].op = "ifsel" /\ p[g][c].ins[j].x = x}}
            testsOf(g) == UNION {tests(g, c) : c \in 1..Len(p[g])}
<1>1. p[f][b].ins[i].n \in tests(f, b)
  OBVIOUS
<1>2. TestedCases(p, x) = UNION {testsOf(g) : g \in DOMAIN p}
  BY DEF TestedCases
<1>. HIDE DEF tests
<1>3. tests(f, b) \subseteq testsOf(f)
  OBVIOUS
<1>. HIDE DEF testsOf
<1>4. testsOf(f) \subseteq UNION {testsOf(g) : g \in DOMAIN p}
  OBVIOUS
<1>. QED  BY <1>1, <1>2, <1>3, <1>4

\* The tests of a select come after it.
LEMMA SelectKnown ==
    ASSUME IInv, Running, Top.do \notin {"block", "defers"}, Cur.op = "ifsel"
    PROVE  /\ Cur.x \in DOMAIN selNode /\ Cur.n \in Nat
           /\ selNode[Cur.x].parent \in 1..Len(tree)
           /\ Cur.n < CountOf(tree, selNode[Cur.x].parent)
           /\ \A j \in 1..CountOf(tree, selNode[Cur.x].parent) :
                 tree[selNode[Cur.x].parent].kids[j] \in 1..Len(tree)
<1>1. /\ Top \in Items /\ Top.fn \in DOMAIN prog /\ Top.b \in 1..Len(prog[Top.fn])
      /\ IsBlock(prog, Top.fn, Top.b) /\ Top.i \in 1..Len(prog[Top.fn][Top.b].ins)
      /\ Len(tree) \in Nat
  BY AtTop, AtInstruction
<1>2. Cur.x \in DOMAIN selNode
  <2>1. Cur.x \in SelectsBefore(prog, Top.fn, Top.b, Top.i) \cup SelectsAbove(prog, Top.fn, Top.b)
    BY <1>1, Zenon DEF IsBlock, Cur
  <2>2. /\ SelectsBefore(prog, Top.fn, Top.b, Top.i) \subseteq DOMAIN selNode
        /\ SelectsAbove(prog, Top.fn, Top.b) \subseteq DOMAIN selNode
    BY <1>1 DEF Items, ItemsOf
  <2>. QED  BY <2>1, <2>2
<1>3. Cur.n \in TestedCases(prog, Cur.x)
  BY <1>1, CaseTested DEF Cur
<1>4. /\ selNode[Cur.x].parent \in 1..Len(tree) /\ Cur.n \in Nat
      /\ Cur.n < CountOf(tree, selNode[Cur.x].parent)
  BY <1>2, <1>3 DEF IInv, AreSelects, CountOf
<1>. DEFINE m == selNode[Cur.x].parent
<1>5. ASSUME NEW j \in 1..CountOf(tree, m) PROVE tree[m].kids[j] \in 1..Len(tree)
  <2>. HIDE DEF m
  <2>1. m \in 1..Len(tree)
    BY <1>4 DEF m
  <2>2. tree[m].kids[j] \in (m+1)..Len(tree)
    BY <1>5, <2>1 DEF IInv, IsTree, CountOf
  <2>. QED  BY <1>1, <2>1, <2>2
<1>. QED  BY <1>2, <1>4, <1>5

\* visitIf at the test of a case finds the node of the case.
LEMMA IfSelStep == ASSUME IInv, VisitIfSel PROVE IInv'
<1>1. /\ Running /\ Top.do = "ins" /\ Cur.op = "ifsel" /\ leaf' = CaseOf(Cur.x, Cur.n)
      /\ work' = <<Succ(1), Then("selelse", 0)>> \o Pop
      /\ UNCHANGED <<prog, pc, frames, role, root, queue, tree, chans, types, ifparent, selNode, recvTest>>
  BY DEF VisitIfSel, OnIns, Doing
<1>2. leaf' \in 1..Len(tree)
  <2>. DEFINE m == selNode[Cur.x].parent
  <2>1. /\ Cur.n \in Nat /\ m \in 1..Len(tree) /\ Cur.n < CountOf(tree, m)
        /\ \A j \in 1..CountOf(tree, m) : tree[m].kids[j] \in 1..Len(tree)
    BY <1>1, SelectKnown
  <2>2. CountOf(tree, m) \in Nat
    <3>. HIDE DEF m
    <3>1. tree \in Seq(NodeOf(prog)) /\ m \in 1..Len(tree)
      BY <2>1 DEF IInv, IsTree
    <3>2. tree[m] \in NodeOf(prog)
      BY <3>1, ElementOfSeq
    <3>. QED  BY <3>2, LenProperties DEF CountOf, NodeOf
  <2>3. leaf' = tree[m].kids[Cur.n + 1]
    BY <1>1 DEF CaseOf
  <2>. HIDE DEF m
  <2>4. Cur.n + 1 \in 1..CountOf(tree, m)
    BY <2>1, <2>2
  <2>. QED  BY <2>1, <2>3, <2>4
<1>3. Succ(1) \in Items /\ ~IsOpen(Succ(1)) /\ Len(tree) \in Nat
  BY <1>1, AtInstruction, SuccessorNotOpen, AtTop
<1>4. Then("selelse", 0) \in Items /\ ~IsOpen(Then("selelse", 0))
  BY <1>1, <1>3, ThenIsWork
<1>5. Pop \in Seq(Items) /\ Cardinality(Open(Pop)) = Len(ifparent) /\ Len(ifparent) = Cardinality(Open(work))
  BY <1>1, Popped DEF IsOpen, IInv
<1>. DEFINE x == Succ(1)
            y == Then("selelse", 0)
<1>. HIDE DEF x, y
<1>6. <<x, y>> \o Pop \in Seq(Items) /\ Cardinality(Open(<<x, y>> \o Pop)) = Cardinality(Open(work))
  <2>1. ~IsOpen(x) /\ ~IsOpen(y) /\ x \in Items /\ y \in Items
    BY <1>3, <1>4 DEF x, y
  <2>. QED  BY <1>5, <2>1, PushedTwo
<1>7. work' \in Seq(Items) /\ Cardinality(Open(work')) = Cardinality(Open(work))
  BY <1>1, <1>6 DEF x, y
<1>. QED  BY <1>1, <1>2, <1>7, MoveStep

\* visitIf after the branch of a case finds that of the default, or goes on.
LEMMA SelElseStep == ASSUME IInv, VisitSelElse PROVE IInv'
<1>1. /\ Running /\ Top.do = "selelse" /\ leaf' = ElseLeaf(Cur.x, Cur.n)
      /\ work' = <<Succ(2)>> \o Pop
      /\ UNCHANGED <<prog, pc, frames, role, root, queue, tree, chans, types, ifparent, selNode, recvTest>>
  BY DEF VisitSelElse, Doing
<1>2. Cur.op = "ifsel"
  <2>1. Top \in Items
    BY <1>1, AtTop
  <2>. QED  BY <1>1, <2>1 DEF Items, ItemsOf, Cur
<1>3. leaf' \in 1..Len(tree)
  <2>. DEFINE m == selNode[Cur.x].parent
  <2>1. CASE leaf' = leaf
    BY <2>1, ArgsOf
  <2>2. CASE leaf' # leaf
    <3>1. leaf' = tree[m].kids[(Cur.n + 1) + 1] /\ CountOf(tree, m) > Cur.n + 1
      BY <1>1, <2>2 DEF ElseLeaf, CaseOf, CountOf
    <3>2. /\ Cur.n \in Nat /\ m \in 1..Len(tree)
          /\ \A j \in 1..CountOf(tree, m) : tree[m].kids[j] \in 1..Len(tree)
      BY <1>1, <1>2, SelectKnown
    <3>. HIDE DEF m
    <3>3. CountOf(tree, m) \in Nat
      <4>1. tree \in Seq(NodeOf(prog))
        BY DEF IInv, IsTree
      <4>2. tree[m] \in NodeOf(prog)
        BY <3>2, <4>1, ElementOfSeq
      <4>. QED  BY <4>2, LenProperties DEF CountOf, NodeOf
    <3>4. (Cur.n + 1) + 1 \in 1..CountOf(tree, m)
      BY <3>1, <3>2, <3>3
    <3>. QED  BY <3>1, <3>2, <3>4
  <2>. QED  BY <2>1, <2>2
<1>4. Succ(2) \in Items /\ ~IsOpen(Succ(2))
  BY <1>1, <1>2, AtInstruction, SuccessorNotOpen
<1>5. Pop \in Seq(Items) /\ Cardinality(Open(Pop)) = Len(ifparent) /\ Len(ifparent) = Cardinality(Open(work))
  BY <1>1, Popped DEF IsOpen, IInv
<1>6. work' \in Seq(Items) /\ Cardinality(Open(work')) = Cardinality(Open(work))
  BY <1>1, <1>4, <1>5, Pushed
<1>. QED  BY <1>1, <1>3, <1>6, MoveStep

-----------------------------------------------------------------------------
(* Calls: the frames that are made, and the visit of the callee. *)

\* Work of p stays when frames are added or one has more deferred calls.
LEMMA FramesStay ==
    ASSUME IInv, UNCHANGED <<prog, tree, chans, selNode>>,
           AreFrames(prog, frames'), Len(frames) <= Len(frames'),
           \A k \in 1..Len(frames) : Len(frames[k].defers) <= Len(frames'[k].defers)
    PROVE  Items \subseteq Items'
<1>1. /\ AreFrames(prog, frames) /\ Len(frames) \in Nat /\ Len(frames') \in Nat
      /\ Len(tree) \in Nat
  BY LenProperties DEF IInv, AreFrames, IsTree
<1>2. ASSUME NEW fs, AreFrames(prog, fs), NEW k \in 1..Len(fs) PROVE Len(fs[k].defers) \in Nat
  <2>1. fs[k] \in FrameOf(prog)
    BY <1>2, ElementOfSeq DEF AreFrames
  <2>. QED  BY <2>1, LenProperties DEF FrameOf
<1>3. \A k \in 1..Len(frames) : /\ Len(frames[k].defers) \in Nat
                                /\ Len(frames'[k].defers) \in Nat
                                /\ Len(frames[k].defers) <= Len(frames'[k].defers)
  <2>1. \A k \in 1..Len(frames) : k \in 1..Len(frames')
    BY <1>1
  <2>2. \A k \in 1..Len(frames) : Len(frames[k].defers) \in Nat
    BY <1>1, <1>2
  <2>3. \A k \in 1..Len(frames') : Len(frames'[k].defers) \in Nat
    BY <1>2
  <2>. QED  BY <2>1, <2>2, <2>3
<1>4. ItemsOf(prog, frames, tree, chans, selNode)
        \subseteq ItemsOf(prog, frames', tree, chans, selNode)
  BY <1>1, <1>3, WorkStays
<1>. QED  BY <1>4 DEF Items

\* A frame added for a call or a goroutine.
LEMMA FrameAdded ==
    ASSUME IInv, NEW f \in DOMAIN prog, NEW c \in 1..Len(frames), NEW r \in Role,
           frames' = Append(frames, Frame(f, c, r)),
           UNCHANGED <<prog, tree, chans, selNode>>
    PROVE  /\ AreFrames(prog, frames') /\ Len(frames) \in Nat /\ Len(tree) \in Nat
           /\ Len(frames') = Len(frames) + 1
           /\ \A k \in 1..Len(frames) : frames'[k] = frames[k]
           /\ frames'[Len(frames) + 1].role = r /\ frames'[Len(frames) + 1].fn = f
           /\ Items \subseteq Items'
<1>. DEFINE new == Frame(f, c, r)
<1>1. /\ AreFrames(prog, frames) /\ frames \in Seq(FrameOf(prog))
      /\ Len(frames) \in Nat /\ Len(tree) \in Nat /\ 1 \in 1..Len(frames)
  BY LenProperties DEF IInv, AreFrames, IsTree
<1>2. /\ new \in FrameOf(prog) /\ new.caller = c /\ new.role = r /\ new.fn = f
  <2>1. << >> \in Seq(DeferrableCalls(prog)) /\ c \in Nat
    BY <1>1, EmptySeq
  <2>. QED  BY <2>1 DEF Frame, FrameOf
<1>. HIDE DEF new
<1>3. /\ frames' \in Seq(FrameOf(prog)) /\ Len(frames') = Len(frames) + 1
      /\ \A k \in 1..Len(frames) : frames'[k] = frames[k]
      /\ frames'[Len(frames) + 1] = new
  <2>1. frames' = Append(frames, new)
    BY DEF new
  <2>. QED  BY <1>1, <1>2, <2>1, AppendProperties
<1>4. AreFrames(prog, frames')
  <2>1. ASSUME NEW k \in 1..Len(frames') PROVE frames'[k].caller < k
    <3>1. CASE k \in 1..Len(frames)
      BY <1>1, <1>3, <3>1 DEF AreFrames
    <3>2. CASE k = Len(frames) + 1
      BY <1>1, <1>2, <1>3, <3>2
    <3>. QED  BY <1>1, <1>3, <3>1, <3>2
  <2>2. 1 \in 1..Len(frames') /\ DOMAIN frames' = 1..Len(frames')
    BY <1>1, <1>3
  <2>. QED  BY <1>3, <2>1, <2>2 DEF AreFrames
<1>5. Items \subseteq Items'
  <2>1. \A k \in 1..Len(frames) : Len(frames[k].defers) <= Len(frames'[k].defers)
    <3>1. ASSUME NEW k \in 1..Len(frames) PROVE Len(frames[k].defers) \in Nat
      <4>1. frames[k] \in FrameOf(prog)
        BY <1>1, ElementOfSeq
      <4>. QED  BY <4>1, LenProperties DEF FrameOf
    <3>. QED  BY <1>3, <3>1
  <2>. QED  BY <1>1, <1>3, <1>4, <2>1, FramesStay
<1>. QED  BY <1>1, <1>2, <1>3, <1>4, <1>5

\* The visit of a function, before what is left.
LEMMA VisitBefore ==
    ASSUME NEW S, NEW s \in Seq(S), NEW fr, NEW f,
           prog[f] # << >> => VisitOf(fr, f, 1) \in S
    PROVE  /\ VisitFunc(fr, f) \o s \in Seq(S)
           /\ Cardinality(Open(VisitFunc(fr, f) \o s)) = Cardinality(Open(s))
<1>1. CASE prog[f] = << >>
  <2>1. VisitFunc(fr, f) = << >> /\ << >> \o s = s
    BY <1>1, ConcatEmptySeq DEF VisitFunc
  <2>. QED  BY <2>1
<1>2. CASE prog[f] # << >>
  <2>1. VisitFunc(fr, f) = <<VisitOf(fr, f, 1)>> /\ ~IsOpen(VisitOf(fr, f, 1))
    BY <1>2 DEF VisitFunc, IsOpen, VisitOf, Item
  <2>. QED  BY <1>2, <2>1, Pushed
<1>. QED  BY <1>1, <1>2

\* visitFunc begins with the entry, or is over.
LEMMA VisitAlone ==
    ASSUME NEW S, NEW fr, NEW f, prog[f] # << >> => VisitOf(fr, f, 1) \in S
    PROVE  VisitFunc(fr, f) \in Seq(S) /\ Cardinality(Open(VisitFunc(fr, f))) = 0
<1>1. CASE prog[f] = << >>
  <2>1. VisitFunc(fr, f) = << >>
    BY <1>1 DEF VisitFunc
  <2>. QED  BY <2>1, NothingOpen, EmptySeq
<1>2. CASE prog[f] # << >>
  <2>. DEFINE w == VisitOf(fr, f, 1)
              s == << >>
  <2>1. VisitFunc(fr, f) = <<w>> /\ ~IsOpen(w) /\ w \in S
    BY <1>2 DEF VisitFunc, IsOpen, VisitOf, Item
  <2>2. s \in Seq(S) /\ Cardinality(Open(s)) = 0
    BY NothingOpen, EmptySeq
  <2>3. <<w>> \in Seq(S) /\ <<w>> \o s = <<w>>
    <3>. HIDE DEF w
    <3>1. <<w>> \in Seq(S)
      BY <2>1
    <3>. QED  BY <3>1, ConcatEmptySeq
  <2>. HIDE DEF w, s
  <2>4. Cardinality(Open(<<w>> \o s)) = Cardinality(Open(s))
    BY <2>1, <2>2, Pushed
  <2>. QED  BY <2>1, <2>2, <2>3, <2>4
<1>. QED  BY <1>1, <1>2

\* Frames that keep their roles keep them treed.
KeepRoles(fs, gs) == \A k \in 1..Len(fs) : gs[k].role = fs[k].role
Prolongs(q, r) ==
    Len(r) \in Nat /\ Len(q) <= Len(r) /\ \A j \in 1..Len(q) : r[j] = q[j]

\* The roles of the older frames still have a tree or wait for one.
LEMMA RolesStay ==
    ASSUME IInv, Running, Len(frames) \in Nat, KeepRoles(frames, frames'),
           UNCHANGED <<types, role>>, Prolongs(queue, queue')
    PROVE  \A k \in 1..Len(frames) :
              frames'[k].role \in Treed(types', role', queue', frames')
<1>1. SUFFICES ASSUME NEW k \in 1..Len(frames)
               PROVE  frames[k].role \in Treed(types', role', queue', frames')
  BY DEF KeepRoles
<1>2. frames[k].role \in Treed(types, role, queue, frames)
  BY DEF IInv, Running
<1>3. Len(queue) \in Nat /\ \A j \in 1..Len(queue) : queue[j] \in 1..Len(frames)
  <2>1. queue \in Seq(Called(prog, frames))
    BY DEF IInv
  <2>2. \A j \in 1..Len(queue) : queue[j] \in Called(prog, frames)
    BY <2>1, ElementOfSeq
  <2>. QED  BY <2>1, <2>2, LenProperties DEF Called
<1>4. ASSUME NEW j \in 1..Len(queue)
      PROVE  j \in 1..Len(queue') /\ frames'[queue'[j]].role = frames[queue[j]].role
  BY <1>3 DEF KeepRoles, Prolongs
<1>5. CASE frames[k].role \in DOMAIN types \cup {role}
  BY <1>5 DEF Treed
<1>6. CASE \E j \in 1..Len(queue) : frames[k].role = frames[queue[j]].role
  <2>1. PICK j \in 1..Len(queue) : frames[k].role = frames[queue[j]].role
    BY <1>6
  <2>2. j \in 1..Len(queue') /\ frames[k].role = frames'[queue'[j]].role
    BY <1>4, <2>1
  <2>. QED  BY <2>2 DEF Treed
<1>7. \/ frames[k].role \in DOMAIN types \cup {role}
      \/ \E j \in 1..Len(queue) : frames[k].role = frames[queue[j]].role
  BY <1>2 DEF Treed
<1>. QED  BY <1>5, <1>6, <1>7

\* A queue of frames stays one.
LEMMA CalledStay ==
    ASSUME IInv, UNCHANGED prog, Len(frames) \in Nat, Len(frames') \in Nat,
           Len(frames) <= Len(frames'), \A k \in 1..Len(frames) : frames'[k].fn = frames[k].fn
    PROVE  queue \in Seq(Called(prog', frames'))
<1>1. Called(prog, frames) \subseteq Called(prog', frames')
  BY DEF Called
<1>2. queue \in Seq(Called(prog, frames))
  BY DEF IInv
<1>. QED  BY <1>1, <1>2, SeqMonotonic

\* callCommon, for a call or close in the program or deferred.
LEMMA CallStep ==
    ASSUME IInv, Running, NEW i, NEW rest \in Seq(Items), CallCommon(i, rest),
           i.op = "call" => i.x \in DOMAIN prog,
           Cardinality(Open(rest)) = Cardinality(Open(work)),
           UNCHANGED <<prog, role, root, visited, queue, chans, types, ifparent,
                       selNode, recvTest>>
    PROVE  IInv'
<1>1. /\ ifparent \in Seq(1..Len(tree)) /\ Len(ifparent) = Cardinality(Open(work))
      /\ pc \in {"init", "main", "gortns"} /\ work \in Seq(Items)
      /\ chans \subseteq Chan /\ recvTest \subseteq chans /\ leaf \in 1..Len(tree)
  BY DEF IInv, Running
<1>2. ASSUME i.op = "close", UNCHANGED frames,
             IF i.x \in chans
             THEN AddNode("end", i.x) /\ work' = rest /\ UNCHANGED pc
             ELSE pc' = "crashed" /\ UNCHANGED <<work, tree, leaf>>
      PROVE  IInv'
  <2>1. CASE i.x \in chans
    <3>1. AddNodeAt(leaf, "end", i.x) /\ work' = rest /\ pc' = pc
      BY <1>2, <2>1 DEF AddNode
    <3>2. /\ "end" \in Kind /\ i.x \in ArgOf(prog) /\ i.x \in chans'
          /\ chans \subseteq chans' /\ chans' \subseteq Chan /\ recvTest' \subseteq chans'
      BY <1>1, <2>1, ArgsOf DEF Kind, CommKind
    <3>3. Items \subseteq Items'
      BY <1>1, <1>2, <3>1, <3>2, NodeAdded
    <3>4. work' \in Seq(Items') /\ Len(ifparent') = Cardinality(Open(work'))
          /\ ifparent' \in Seq(1..Len(tree))
      BY <1>1, <3>1, <3>3, SeqMonotonic
    <3>5. UNCHANGED <<prog, pc, frames, role, root, queue, types, selNode>>
      BY <1>2, <3>1
    <3>. QED  BY <1>1, <3>1, <3>2, <3>4, <3>5, NodeStep
  <2>2. CASE i.x \notin chans
    <3>1. pc' = "crashed" /\ UNCHANGED <<work, tree, leaf>>
      BY <1>2, <2>2
    <3>. QED  BY <1>1, <1>2, <3>1, MoveStep
  <2>. QED  BY <2>1, <2>2
<1>3. ASSUME i.op = "call",
             frames' = Append(frames, Frame(i.x, Top.fr, role)),
             work' = (IF IsRecursive(frames', Len(frames) + 1) THEN << >>
                      ELSE VisitFunc(Len(frames) + 1, i.x)) \o rest,
             UNCHANGED <<pc, tree, leaf>>
      PROVE  IInv'
  <2>1. i.x \in DOMAIN prog /\ role \in Role /\ Top.fr \in 1..Len(frames)
    BY <1>3, AtTop DEF IInv
  <2>2. /\ AreFrames(prog, frames') /\ Len(frames) \in Nat /\ Len(tree) \in Nat
        /\ Len(frames') = Len(frames) + 1
        /\ \A k \in 1..Len(frames) : frames'[k] = frames[k]
        /\ frames'[Len(frames) + 1].role = role
        /\ Items \subseteq Items'
    BY <1>3, <2>1, FrameAdded
  <2>3. rest \in Seq(Items')
    BY <2>2, SeqMonotonic
  <2>4. work' \in Seq(Items') /\ Cardinality(Open(work')) = Cardinality(Open(rest))
    <3>1. CASE IsRecursive(frames', Len(frames) + 1)
      <4>1. work' = rest
        BY <1>3, <2>3, <3>1, ConcatEmptySeq
      <4>. QED  BY <2>3, <4>1
    <3>2. CASE ~IsRecursive(frames', Len(frames) + 1)
      <4>. DEFINE fr == Len(frames) + 1
      <4>1. fr \in 1..Len(frames') /\ IsProgram(prog) /\ prog' = prog /\ Len(tree') \in Nat
        BY <1>3, <2>2 DEF IInv
      <4>. HIDE DEF fr
      <4>2. prog[i.x] # << >> =>
               VisitOf(fr, i.x, 1) \in ItemsOf(prog, frames', tree', chans', selNode')
        BY <2>1, <4>1, EntryIsWork
      <4>3. prog[i.x] # << >> => VisitOf(fr, i.x, 1) \in Items'
        BY <4>1, <4>2 DEF Items
      <4>4. work' = VisitFunc(fr, i.x) \o rest
        BY <1>3, <3>2 DEF fr
      <4>. QED  BY <2>3, <4>3, <4>4, VisitBefore
    <3>. QED  BY <3>1, <3>2
  <2>5. \A k \in 1..Len(frames') : frames'[k].role \in Treed(types', role', queue', frames')
    <3>1. \A k \in 1..Len(frames) : frames'[k].role \in Treed(types', role', queue', frames')
      <4>1. Len(queue) \in Nat
        BY LenProperties DEF IInv
      <4>2. KeepRoles(frames, frames') /\ Prolongs(queue, queue')
        BY <2>2, <4>1 DEF KeepRoles, Prolongs
      <4>. QED  BY <1>3, <2>2, <4>2, RolesStay
    <3>2. frames'[Len(frames) + 1].role \in Treed(types', role', queue', frames')
      BY <2>2 DEF Treed
    <3>. QED  BY <2>2, <3>1, <3>2
  <2>6. queue' \in Seq(Called(prog', frames'))
    BY <2>2, CalledStay
  <2>7. /\ IsProgram(prog') /\ IsTree(prog', tree', chans') /\ AreSelects(prog', tree', selNode')
        /\ root' \in 1..Len(tree') /\ leaf' \in 1..Len(tree') /\ role' \in Role
        /\ chans' \subseteq Chan /\ recvTest' \subseteq chans' /\ pc' \in {"init", "main", "gortns"}
        /\ \A r \in DOMAIN types' : r \in Role /\ types'[r] \in 1..Len(tree')
        /\ ifparent' \in Seq(1..Len(tree')) /\ Len(ifparent') = Cardinality(Open(work'))
    BY <1>1, <1>3, <2>4 DEF IInv
  <2>. QED  BY <2>2, <2>4, <2>5, <2>6, <2>7 DEF IInv
<1>. QED  BY <1>2, <1>3 DEF CallCommon

\* visitCall.
LEMMA CallInsStep == ASSUME IInv, VisitCall PROVE IInv'
<1>1. /\ Running /\ Top.do = "ins" /\ Cur.op \in {"call", "close"} /\ CallCommon(Cur, Rest)
      /\ UNCHANGED <<prog, role, root, visited, queue, chans, types, ifparent, selNode, recvTest>>
  BY DEF VisitCall, OnIns, Doing
<1>2. Cur.op = "call" => Cur.x \in DOMAIN prog
  <2>1. IsInstruction(prog, Cur)
    BY <1>1, AtInstruction
  <2>. QED  BY <2>1 DEF IsInstruction
<1>3. Rest \in Seq(Items) /\ Cardinality(Open(Rest)) = Cardinality(Open(work))
  BY <1>1, RestOfWork DEF Items
<1>. QED  BY <1>1, <1>2, <1>3, CallStep

\* callGo queues the frame whose role it makes.
LEMMA GoStep == ASSUME IInv, CallGo PROVE IInv'
<1>1. /\ Running /\ Top.do = "ins" /\ Cur.op = "go"
      /\ frames' = Append(frames, Frame(Cur.x, Top.fr, <<Cur.x, Cur.n>>))
      /\ queue' = Append(queue, Len(frames) + 1) /\ work' = Rest
      /\ UNCHANGED <<prog, pc, role, root, leaf, tree, chans, types, ifparent, selNode, recvTest>>
  BY DEF CallGo, OnIns, Doing, Queued
<1>. DEFINE r == <<Cur.x, Cur.n>>
<1>2. Cur.x \in DOMAIN prog /\ r \in Role /\ Top.fr \in 1..Len(frames)
  <2>1. IsInstruction(prog, Cur)
    BY <1>1, AtInstruction
  <2>. QED  BY <1>1, <2>1, AtTop DEF IsInstruction
<1>. HIDE DEF r
<1>3. /\ AreFrames(prog, frames') /\ Len(frames) \in Nat /\ Len(tree) \in Nat
      /\ Len(frames') = Len(frames) + 1
      /\ \A k \in 1..Len(frames) : frames'[k] = frames[k]
      /\ frames'[Len(frames) + 1].role = r /\ frames'[Len(frames) + 1].fn = Cur.x
      /\ Items \subseteq Items'
  <2>1. frames' = Append(frames, Frame(Cur.x, Top.fr, r))
    BY <1>1 DEF r
  <2>. QED  BY <1>1, <1>2, <2>1, FrameAdded
<1>4. work' \in Seq(Items') /\ Len(ifparent') = Cardinality(Open(work'))
  <2>1. Cur.op # "select" /\ prog' = prog
    BY <1>1
  <2>2. Rest \in Seq(Items') /\ Cardinality(Open(Rest)) = Cardinality(Open(work))
    BY <1>1, <1>3, <2>1, RestIsWork
  <2>. QED  BY <1>1, <2>2 DEF IInv
<1>. DEFINE new == Len(frames) + 1
<1>5. /\ queue \in Seq(Called(prog', frames')) /\ new \in Called(prog', frames')
      /\ frames'[new].role = r /\ new = Len(frames')
  <2>1. queue \in Seq(Called(prog', frames'))
    BY <1>1, <1>3, CalledStay
  <2>2. new \in Called(prog', frames')
    BY <1>1, <1>2, <1>3 DEF Called
  <2>. QED  BY <1>3, <2>1, <2>2
<1>. HIDE DEF new
<1>6. /\ queue' \in Seq(Called(prog', frames')) /\ Len(queue) \in Nat
      /\ Len(queue') = Len(queue) + 1 /\ queue'[Len(queue) + 1] = new
      /\ \A j \in 1..Len(queue) : queue'[j] = queue[j]
  <2>1. queue' = Append(queue, new)
    BY <1>1 DEF new
  <2>. QED  BY <1>5, <2>1, AppendProperties, LenProperties
<1>7. \A k \in 1..Len(frames') : frames'[k].role \in Treed(types', role', queue', frames')
  <2>1. \A k \in 1..Len(frames) : frames'[k].role \in Treed(types', role', queue', frames')
    <3>1. KeepRoles(frames, frames') /\ Prolongs(queue, queue')
      BY <1>3, <1>6 DEF KeepRoles, Prolongs
    <3>. QED  BY <1>1, <1>3, <3>1, RolesStay
  <2>2. frames'[new].role \in Treed(types', role', queue', frames')
    <3>1. Len(queue) + 1 \in 1..Len(queue')
      BY <1>6
    <3>. QED  BY <1>6, <3>1 DEF Treed
  <2>. QED  BY <1>3, <1>5, <2>1, <2>2
<1>8. /\ IsProgram(prog') /\ IsTree(prog', tree', chans') /\ AreSelects(prog', tree', selNode')
      /\ root' \in 1..Len(tree') /\ leaf' \in 1..Len(tree') /\ role' \in Role
      /\ chans' \subseteq Chan /\ recvTest' \subseteq chans' /\ pc' \in {"init", "main", "gortns"}
      /\ \A s \in DOMAIN types' : s \in Role /\ types'[s] \in 1..Len(tree')
      /\ ifparent' \in Seq(1..Len(tree'))
  BY <1>1 DEF IInv, Running
<1>9. AreFrames(prog', frames')
  BY <1>1, <1>3
<1>. QED  BY <1>4, <1>6, <1>7, <1>8, <1>9 DEF IInv

\* visitDefer.
LEMMA DeferStep == ASSUME IInv, VisitDefer PROVE IInv'
<1>. DEFINE fr == Top.fr
            call == Cur.args[1]
            more == Append(frames[fr].defers, call)
            new == [frames[fr] EXCEPT !.defers = more]
<1>1. /\ Running /\ Top.do = "ins" /\ Cur.op = "defer"
      /\ frames' = [frames EXCEPT ![Top.fr].defers = Append(@, Cur.args[1])] /\ work' = Rest
      /\ UNCHANGED <<prog, pc, role, root, leaf, queue, tree, chans, types, ifparent, selNode,
                     recvTest>>
  BY DEF VisitDefer, OnIns, Doing
<1>2. call \in DeferrableCalls(prog) /\ fr \in 1..Len(frames)
  <2>1. IsInstruction(prog, Cur)
    BY <1>1, AtInstruction
  <2>. QED  BY <1>1, <2>1, AtTop DEF IsInstruction
<1>3. frames \in Seq(FrameOf(prog)) /\ Len(frames) \in Nat /\ AreFrames(prog, frames)
  BY LenProperties DEF IInv, AreFrames
<1>4. frames' = [frames EXCEPT ![fr] = new]
  BY <1>1
<1>. HIDE DEF call, fr
<1>5. frames[fr] \in FrameOf(prog) /\ frames[fr].defers \in Seq(DeferrableCalls(prog))
  <2>1. frames[fr] \in FrameOf(prog)
    BY <1>2, <1>3, ElementOfSeq
  <2>. QED  BY <2>1 DEF FrameOf
<1>6. /\ more \in Seq(DeferrableCalls(prog)) /\ Len(frames[fr].defers) \in Nat
      /\ Len(more) = Len(frames[fr].defers) + 1
  BY <1>2, <1>5, AppendProperties, LenProperties
<1>. HIDE DEF more
<1>7. /\ new \in FrameOf(prog) /\ new.defers = more /\ new.fn = frames[fr].fn
      /\ new.role = frames[fr].role /\ new.caller = frames[fr].caller
  BY <1>5, <1>6 DEF FrameOf
<1>. HIDE DEF new
<1>8. /\ frames' \in Seq(FrameOf(prog)) /\ Len(frames') = Len(frames)
      /\ \A k \in 1..Len(frames) : frames'[k] = IF k = fr THEN new ELSE frames[k]
  BY <1>2, <1>3, <1>4, <1>7, ExceptSeq
<1>9. \A k \in 1..Len(frames) :
         /\ frames'[k].fn = frames[k].fn /\ frames'[k].role = frames[k].role
         /\ frames'[k].caller = frames[k].caller
  BY <1>7, <1>8
<1>10. \A k \in 1..Len(frames) : Len(frames[k].defers) <= Len(frames'[k].defers)
  <2>1. ASSUME NEW k \in 1..Len(frames) PROVE Len(frames[k].defers) \in Nat
    <3>1. frames[k] \in FrameOf(prog)
      BY <1>3, ElementOfSeq
    <3>. QED  BY <3>1, LenProperties DEF FrameOf
  <2>2. ASSUME NEW k \in 1..Len(frames) PROVE Len(frames[k].defers) <= Len(frames'[k].defers)
    <3>1. CASE k = fr
      <4>1. Len(frames'[k].defers) = Len(frames[k].defers) + 1
        BY <1>6, <1>7, <1>8, <3>1
      <4>. QED  BY <2>1, <4>1
    <3>2. CASE k # fr
      <4>1. frames'[k] = frames[k]
        BY <1>8, <3>2
      <4>. QED  BY <2>1, <4>1
    <3>. QED  BY <3>1, <3>2
  <2>. QED  BY <2>2
<1>11. AreFrames(prog, frames')
  <2>1. \A k \in 1..Len(frames') : frames'[k].caller < k
    BY <1>3, <1>8, <1>9 DEF AreFrames
  <2>2. 1 \in DOMAIN frames'
    BY <1>3, <1>8 DEF AreFrames
  <2>. QED  BY <1>8, <2>1, <2>2 DEF AreFrames
<1>12. Items \subseteq Items'
  BY <1>1, <1>3, <1>8, <1>10, <1>11, FramesStay
<1>13. work' \in Seq(Items') /\ Len(ifparent') = Cardinality(Open(work'))
  <2>1. Cur.op # "select" /\ prog' = prog
    BY <1>1
  <2>2. Rest \in Seq(Items') /\ Cardinality(Open(Rest)) = Cardinality(Open(work))
    BY <1>1, <1>12, <2>1, RestIsWork
  <2>. QED  BY <1>1, <2>2 DEF IInv
<1>14. queue' \in Seq(Called(prog', frames'))
  <2>1. queue \in Seq(Called(prog', frames'))
    BY <1>1, <1>3, <1>8, <1>9, CalledStay
  <2>. QED  BY <1>1, <2>1
<1>15. \A k \in 1..Len(frames') : frames'[k].role \in Treed(types', role', queue', frames')
  <2>1. Len(queue) \in Nat
    BY LenProperties DEF IInv
  <2>2. KeepRoles(frames, frames') /\ Prolongs(queue, queue')
    BY <1>1, <1>9, <2>1 DEF KeepRoles, Prolongs
  <2>3. \A k \in 1..Len(frames) : frames'[k].role \in Treed(types', role', queue', frames')
    BY <1>1, <1>3, <2>2, RolesStay
  <2>. QED  BY <1>8, <2>3
<1>16. /\ IsProgram(prog') /\ IsTree(prog', tree', chans') /\ AreSelects(prog', tree', selNode')
       /\ root' \in 1..Len(tree') /\ leaf' \in 1..Len(tree') /\ role' \in Role
       /\ chans' \subseteq Chan /\ recvTest' \subseteq chans' /\ pc' \in {"init", "main", "gortns"}
       /\ \A s \in DOMAIN types' : s \in Role /\ types'[s] \in 1..Len(tree')
       /\ ifparent' \in Seq(1..Len(tree'))
  BY <1>1 DEF IInv, Running
<1>17. AreFrames(prog', frames')
  BY <1>1, <1>11
<1>. QED  BY <1>13, <1>14, <1>15, <1>16, <1>17 DEF IInv

\* visitRunDefers, before its loop.
LEMMA RunDefersStep == ASSUME IInv, VisitRunDefers PROVE IInv'
<1>. DEFINE n == Len(frames[Top.fr].defers)
            w == [Top EXCEPT !.do = "defers", !.i = n]
<1>1. /\ Running /\ Top.do = "ins" /\ Cur.op = "rundefers" /\ work' = <<w>> \o Rest
      /\ UNCHANGED <<prog, pc, frames, role, root, leaf, queue, tree, chans, types, ifparent,
                     selNode, recvTest>>
  BY DEF VisitRunDefers, OnIns, Doing
<1>2. Top.fr \in 1..Len(frames) /\ Top \in ItemsOf(prog, frames, tree, chans, selNode)
  BY <1>1, AtTop DEF Items
<1>3. n \in Nat
  <2>1. frames[Top.fr] \in FrameOf(prog)
    BY <1>2, ElementOfSeq DEF IInv, AreFrames
  <2>. QED  BY <2>1, LenProperties DEF FrameOf
<1>4. w \in Items
  <2>. HIDE DEF n
  <2>1. n <= Len(frames[Top.fr].defers)
    BY <1>3 DEF n
  <2>. QED  BY <1>2, <1>3, <2>1, DefersAreWork DEF Items
<1>5. ~IsOpen(w)
  <2>1. w.do = "defers"
    BY <1>1, AtTop
  <2>. QED  BY <2>1 DEF IsOpen
<1>. HIDE DEF w
<1>6. Rest \in Seq(Items) /\ Cardinality(Open(Rest)) = Cardinality(Open(work))
  <2>1. Cur.op # "select" /\ Items \subseteq ItemsOf(prog, frames, tree, chans, selNode)
    BY <1>1 DEF Items
  <2>. QED  BY <1>1, <2>1, RestOfWork DEF Items
<1>7. work' \in Seq(Items) /\ Cardinality(Open(work')) = Cardinality(Open(work))
  BY <1>1, <1>4, <1>5, <1>6, Pushed
<1>8. leaf' \in 1..Len(tree) /\ pc' \in {pc, "crashed"}
  BY <1>1, ArgsOf
<1>. QED  BY <1>1, <1>7, <1>8, MoveStep

\* An iteration of its loop.
LEMMA DeferredStep == ASSUME IInv, RunDefer PROVE IInv'
<1>1. /\ Running /\ Top.do = "defers"
      /\ UNCHANGED <<prog, role, root, visited, queue, chans, types, ifparent, selNode, recvTest>>
  BY DEF RunDefer, Doing
<1>2. /\ Pop \in Seq(Items) /\ Cardinality(Open(Pop)) = Cardinality(Open(work))
  BY <1>1, Popped DEF IsOpen, IInv
<1>3. CASE Top.i = 0
  <2>1. work' = Pop /\ UNCHANGED <<pc, frames, tree, leaf>>
    BY <1>3 DEF RunDefer
  <2>. QED  BY <1>1, <1>2, <2>1, ArgsOf, MoveStep
<1>4. CASE Top.i # 0
  <2>. DEFINE w == [Top EXCEPT !.i = @ - 1]
              call == DeferAt(Top.fr, Top.i)
  <2>1. CallCommon(call, <<w>> \o Pop)
    BY <1>4 DEF RunDefer
  <2>2. /\ Top \in ItemsOf(prog, frames, tree, chans, selNode)
        /\ Top \in [do : WorkKind, fr : 1..Len(frames), fn : DOMAIN prog, b : Nat, i : Nat,
                     at : 0..Len(tree)]
        /\ Top.fr \in 1..Len(frames) /\ Top.i \in Nat /\ Top.i <= Len(frames[Top.fr].defers)
    <3>1. Top \in ItemsOf(prog, frames, tree, chans, selNode)
      BY <1>1, AtTop DEF Items
    <3>2. Top.i <= Len(frames[Top.fr].defers)
      BY <1>1, <3>1 DEF ItemsOf
    <3>. QED  BY <1>1, <3>1, <3>2, AtTop
  <2>3. frames[Top.fr].defers \in Seq(DeferrableCalls(prog)) /\ Len(frames[Top.fr].defers) \in Nat
    <3>1. frames[Top.fr] \in FrameOf(prog)
      BY <2>2, ElementOfSeq DEF IInv, AreFrames
    <3>. QED  BY <3>1, LenProperties DEF FrameOf
  <2>4. call \in DeferrableCalls(prog)
    <3>1. Top.i \in 1..Len(frames[Top.fr].defers)
      BY <1>4, <2>2, <2>3
    <3>. QED  BY <2>3, <3>1, ElementOfSeq DEF DeferAt
  <2>5. call.op = "call" => call.x \in DOMAIN prog
    <3>1. CASE \E g \in DOMAIN prog : call = Call(g)
      BY <3>1 DEF Call, Ins
    <3>2. CASE \E c \in Chan : call = Close(c)
      BY <3>2 DEF Close, Ins
    <3>. QED  BY <2>4, <3>1, <3>2 DEF DeferrableCalls
  <2>6. w \in Items /\ ~IsOpen(w)
    <3>. DEFINE n == Top.i - 1
    <3>1. n \in Nat /\ n <= Len(frames[Top.fr].defers)
      BY <1>4, <2>2, <2>3
    <3>2. w = [Top EXCEPT !.do = "defers", !.i = n] /\ w.do = "defers"
      BY <1>1, <2>2
    <3>. HIDE DEF n
    <3>3. [Top EXCEPT !.do = "defers", !.i = n] \in Items
      BY <2>2, <3>1, DefersAreWork DEF Items
    <3>. QED  BY <3>2, <3>3 DEF IsOpen
  <2>. HIDE DEF w, call
  <2>7. <<w>> \o Pop \in Seq(Items) /\ Cardinality(Open(<<w>> \o Pop)) = Cardinality(Open(work))
    BY <1>2, <2>6, Pushed
  <2>. QED  BY <1>1, <2>1, <2>5, <2>7, CallStep
<1>. QED  BY <1>3, <1>4

-----------------------------------------------------------------------------
(* The run: init, main, the goroutines, the end. *)

\* A step between two functions, with no work left before it.
LEMMA FunctionStep ==
    ASSUME IInv, work = << >>, NEW fr \in 1..Len(frames), NEW f \in DOMAIN prog,
           work' = VisitFunc(fr, f), Items \subseteq Items', Len(tree') \in Nat,
           UNCHANGED <<prog, frames, ifparent>>
    PROVE  work' \in Seq(Items') /\ Len(ifparent') = Cardinality(Open(work'))
<1>1. Len(ifparent) = 0 /\ IsProgram(prog)
  BY NothingOpen DEF IInv
<1>2. prog[f] # << >> => VisitOf(fr, f, 1) \in Items'
  <2>1. prog[f] # << >> => VisitOf(fr, f, 1) \in ItemsOf(prog, frames, tree', chans', selNode')
    BY <1>1, EntryIsWork
  <2>. QED  BY <2>1 DEF Items
<1>3. VisitFunc(fr, f) \in Seq(Items') /\ Cardinality(Open(VisitFunc(fr, f))) = 0
  BY <1>2, VisitAlone
<1>. QED  BY <1>1, <1>3

\* Run begins with init.
LEMMA InitStep == ASSUME IInv, RunInit PROVE IInv'
<1>1. /\ pc = "start" /\ pc' = "init" /\ work' = VisitFunc(Toplevel, "init")
      /\ UNCHANGED <<prog, frames, role, root, leaf, visited, queue, tree, chans, types, ifparent,
                     selNode, recvTest>>
  BY DEF RunInit
<1>2. /\ work = << >> /\ Toplevel \in 1..Len(frames) /\ "init" \in DOMAIN prog /\ Len(tree') \in Nat
      /\ Items' = Items
  <2>1. work = << >> /\ "init" \in DOMAIN prog
    BY <1>1 DEF IInv, IsProgram
  <2>2. frames \in Seq(FrameOf(prog)) /\ 1 \in DOMAIN frames
    BY DEF IInv, AreFrames
  <2>3. Toplevel \in 1..Len(frames)
    BY <2>2 DEF Toplevel
  <2>4. Len(tree') \in Nat
    BY <1>1, LenProperties DEF IInv, IsTree
  <2>. QED  BY <1>1, <2>1, <2>3, <2>4 DEF Items
<1>3. work' \in Seq(Items') /\ Len(ifparent') = Cardinality(Open(work'))
  BY <1>1, <1>2, FunctionStep
<1>4. \A k \in 1..Len(frames') : frames'[k].role \in Treed(types', role', queue', frames')
  BY <1>1 DEF IInv
<1>. QED  BY <1>1, <1>3, <1>4 DEF IInv

\* Run goes on with main, if there is one.
LEMMA MainStep == ASSUME IInv, RunMain PROVE IInv'
<1>1. /\ pc = "init" /\ work = << >>
      /\ UNCHANGED <<prog, frames, role, root, leaf, visited, queue, tree, chans, types, ifparent,
                     selNode, recvTest>>
  BY DEF RunMain
<1>2. Items' = Items /\ \A k \in 1..Len(frames') : frames'[k].role \in Treed(types', role', queue', frames')
  BY <1>1 DEF IInv, Items
<1>3. CASE "main" \in DOMAIN prog
  <2>1. pc' = "main" /\ work' = VisitFunc(Toplevel, "main")
    BY <1>3 DEF RunMain
  <2>2. Toplevel \in 1..Len(frames) /\ Len(tree') \in Nat
    <3>1. frames \in Seq(FrameOf(prog)) /\ 1 \in DOMAIN frames
      BY DEF IInv, AreFrames
    <3>2. Len(tree') \in Nat
      BY <1>1, LenProperties DEF IInv, IsTree
    <3>. QED  BY <3>1, <3>2 DEF Toplevel
  <2>3. work' \in Seq(Items') /\ Len(ifparent') = Cardinality(Open(work'))
    BY <1>1, <1>2, <1>3, <2>1, <2>2, FunctionStep
  <2>. QED  BY <1>1, <1>2, <2>1, <2>3 DEF IInv
<1>4. CASE "main" \notin DOMAIN prog
  <2>1. pc' = "crashed" /\ work' = work
    BY <1>4 DEF RunMain
  <2>. QED  BY <1>1, <1>2, <2>1 DEF IInv
<1>. QED  BY <1>3, <1>4

\* The current role has its tree.
LEMMA TypeSet ==
    ASSUME IInv, SetType
    PROVE  /\ DOMAIN types' = DOMAIN types \cup {role}
           /\ \A r \in DOMAIN types' : r \in Role /\ types'[r] \in 1..Len(tree)
<1>1. /\ role \in Role /\ root \in 1..Len(tree)
      /\ \A r \in DOMAIN types : r \in Role /\ types[r] \in 1..Len(tree)
  BY DEF IInv
<1>. QED  BY <1>1 DEF SetType

\* The next goroutine in the queue becomes the current one.
LEMMA GortnStep == ASSUME IInv, NextGortn PROVE IInv'
<1>. DEFINE q == Head(queue)
            f == frames[q]
            new == Leaf("label", f.role)
<1>1. /\ pc \in {"main", "gortns"} /\ work = << >> /\ queue # << >> /\ SetType
      /\ work' = VisitFunc(q, f.fn) /\ role' = f.role /\ tree' = Append(tree, new)
      /\ root' = Len(tree) + 1 /\ leaf' = Len(tree) + 1
      /\ queue' = Tail(queue) /\ pc' = "gortns"
      /\ UNCHANGED <<prog, frames, chans, ifparent, selNode, recvTest>>
  BY DEF NextGortn
<1>2. /\ queue \in Seq(Called(prog, frames)) /\ q = queue[1] /\ q \in Called(prog, frames)
      /\ Tail(queue) \in Seq(Called(prog, frames)) /\ Len(queue) \in Nat /\ Len(queue) # 0
      /\ Len(Tail(queue)) = Len(queue) - 1
      /\ \A j \in 1..Len(Tail(queue)) : Tail(queue)[j] = queue[j + 1]
  <2>1. queue \in Seq(Called(prog, frames))
    BY DEF IInv
  <2>2. Len(queue) \in Nat /\ Len(queue) # 0
    BY <1>1, <2>1, EmptySeq
  <2>3. q = queue[1] /\ q \in Called(prog, frames)
    <3>1. 1 \in 1..Len(queue)
      BY <2>2
    <3>. QED  BY <2>1, <3>1, ElementOfSeq
  <2>. QED  BY <1>1, <2>1, <2>2, <2>3, HeadTailProperties
<1>3. q \in 1..Len(frames) /\ f.fn \in DOMAIN prog
  BY <1>2 DEF Called
<1>4. f.role \in Role
  <2>1. frames[q] \in FrameOf(prog)
    BY <1>3, ElementOfSeq DEF IInv, AreFrames
  <2>. QED  BY <2>1 DEF FrameOf
<1>. HIDE DEF q
<1>5. new \in NodeOf(prog) /\ new.kids = << >> /\ new.kind \notin CommKind
  <2>1. << >> \in Seq(Nat) /\ f.role \in ArgOf(prog)
    BY <1>4, EmptySeq DEF ArgOf
  <2>. QED  BY <2>1 DEF Leaf, NodeOf, Kind, CommKind
<1>. HIDE DEF new
<1>6. /\ tree \in Seq(NodeOf(prog)) /\ Len(tree) \in Nat /\ Len(tree') = Len(tree) + 1
      /\ tree' \in Seq(NodeOf(prog)) /\ \A n \in 1..Len(tree) : tree'[n] = tree[n]
      /\ tree'[Len(tree) + 1] = new
  <2>1. tree \in Seq(NodeOf(prog))
    BY DEF IInv, IsTree
  <2>. QED  BY <1>1, <1>5, <2>1, AppendProperties, LenProperties
<1>7. IsTree(prog, tree', chans)
  <2>1. ASSUME NEW n \in 1..Len(tree')
        PROVE  /\ tree'[n].kind \in CommKind => tree'[n].arg \in chans
               /\ \A j \in 1..Len(tree'[n].kids) : tree'[n].kids[j] \in (n+1)..Len(tree')
    <3>1. CASE n \in 1..Len(tree)
      <4>1. /\ tree[n].kind \in CommKind => tree[n].arg \in chans
            /\ \A j \in 1..Len(tree[n].kids) : tree[n].kids[j] \in (n+1)..Len(tree)
        BY <3>1 DEF IInv, IsTree
      <4>2. tree'[n] = tree[n] /\ (n+1)..Len(tree) \subseteq (n+1)..Len(tree')
        BY <1>6, <3>1
      <4>. QED  BY <4>1, <4>2
    <3>2. CASE n = Len(tree) + 1
      <4>1. tree'[n] = new /\ Len(tree'[n].kids) = 0
        BY <1>5, <1>6, <3>2, EmptySeq
      <4>. QED  BY <1>5, <4>1
    <3>. QED  BY <1>6, <3>1, <3>2
  <2>. QED  BY <1>6, <2>1 DEF IsTree
<1>8. AreSelects(prog, tree', selNode)
  <2>1. AreSelects(prog, tree, selNode)
    BY DEF IInv
  <2>2. 1..Len(tree) \subseteq 1..Len(tree')
    BY <1>6
  <2>. QED  BY <1>6, <2>1, <2>2 DEF AreSelects
<1>9. Items \subseteq Items'
  <2>1. /\ Len(frames) \in Nat /\ AreFrames(prog, frames)
        /\ \A k \in 1..Len(frames) : Len(frames[k].defers) \in Nat
    <3>1. frames \in Seq(FrameOf(prog)) /\ AreFrames(prog, frames)
      BY DEF IInv, AreFrames
    <3>2. ASSUME NEW k \in 1..Len(frames) PROVE Len(frames[k].defers) \in Nat
      <4>1. frames[k] \in FrameOf(prog)
        BY <3>1, ElementOfSeq
      <4>. QED  BY <4>1, LenProperties DEF FrameOf
    <3>. QED  BY <3>1, <3>2, LenProperties
  <2>2. Len(tree') \in Nat /\ Len(tree) <= Len(tree')
    BY <1>6
  <2>3. ItemsOf(prog, frames, tree, chans, selNode)
          \subseteq ItemsOf(prog, frames, tree', chans, selNode)
    BY <1>6, <2>1, <2>2, WorkStays
  <2>. QED  BY <1>1, <2>3 DEF Items
<1>10. work' \in Seq(Items') /\ Len(ifparent') = Cardinality(Open(work'))
  <2>. DEFINE g == f.fn
  <2>1. g \in DOMAIN prog /\ work' = VisitFunc(q, g) /\ Len(tree') \in Nat
    BY <1>1, <1>3, <1>6 DEF q
  <2>. HIDE DEF g
  <2>. QED  BY <1>1, <1>3, <1>9, <2>1, FunctionStep
<1>11. /\ DOMAIN types' = DOMAIN types \cup {role}
       /\ \A r \in DOMAIN types' : r \in Role /\ types'[r] \in 1..Len(tree')
  <2>1. 1..Len(tree) \subseteq 1..Len(tree')
    BY <1>6
  <2>. QED  BY <1>1, <2>1, TypeSet
<1>12. \A k \in 1..Len(frames') : frames'[k].role \in Treed(types', role', queue', frames')
  <2>1. SUFFICES ASSUME NEW k \in 1..Len(frames), NEW j \in 1..Len(queue),
                        frames[k].role = frames[queue[j]].role
                 PROVE  frames[k].role \in Treed(types', role', queue', frames')
    <3>1. \A k \in 1..Len(frames) : frames[k].role \in Treed(types, role, queue, frames)
      BY <1>1 DEF IInv
    <3>2. DOMAIN types \cup {role} \subseteq Treed(types', role', queue', frames')
      BY <1>11 DEF Treed
    <3>. QED  BY <1>1, <2>1, <3>1, <3>2 DEF Treed
  <2>2. CASE j = 1
    BY <1>1, <1>2, <2>1, <2>2 DEF Treed
  <2>3. CASE j # 1
    <3>1. j - 1 \in 1..Len(queue') /\ queue'[j - 1] = queue[j]
      <4>1. j - 1 \in 1..Len(Tail(queue)) /\ (j - 1) + 1 = j
        BY <1>2, <2>3
      <4>2. Tail(queue)[j - 1] = queue[(j - 1) + 1]
        BY <1>2, <4>1
      <4>. QED  BY <1>1, <4>1, <4>2
    <3>. QED  BY <1>1, <2>1, <3>1 DEF Treed
  <2>. QED  BY <2>2, <2>3
<1>13. ifparent' \in Seq(1..Len(tree'))
  <2>1. ifparent \in Seq(1..Len(tree)) /\ 1..Len(tree) \subseteq 1..Len(tree')
    BY <1>6 DEF IInv
  <2>. QED  BY <1>1, <2>1, SeqMonotonic
<1>14. /\ IsProgram(prog') /\ AreFrames(prog', frames') /\ role' \in Role
       /\ chans' \subseteq Chan /\ recvTest' \subseteq chans' /\ pc' = "gortns"
       /\ root' \in 1..Len(tree') /\ leaf' \in 1..Len(tree')
       /\ queue' \in Seq(Called(prog', frames'))
  BY <1>1, <1>2, <1>4, <1>6 DEF IInv, q
<1>15. IsTree(prog', tree', chans') /\ AreSelects(prog', tree', selNode')
  BY <1>1, <1>7, <1>8
<1>. QED  BY <1>10, <1>11, <1>12, <1>13, <1>14, <1>15 DEF IInv

\* Run ends when none waits.
LEMMA EndStep == ASSUME IInv, EndRun PROVE IInv'
<1>1. /\ pc \in {"main", "gortns"} /\ queue = << >> /\ SetType /\ pc' = "done"
      /\ UNCHANGED <<prog, work, frames, role, root, leaf, visited, queue, tree, chans, ifparent,
                     selNode, recvTest>>
  BY DEF EndRun
<1>2. /\ DOMAIN types' = DOMAIN types \cup {role}
      /\ \A r \in DOMAIN types' : r \in Role /\ types'[r] \in 1..Len(tree)
  BY <1>1, TypeSet
<1>3. \A k \in 1..Len(frames) : frames[k].role \in DOMAIN types'
  <2>1. \A k \in 1..Len(frames) : frames[k].role \in Treed(types, role, queue, frames)
    BY <1>1 DEF IInv
  <2>2. Treed(types, role, queue, frames) = DOMAIN types \cup {role}
    <3>1. Len(queue) = 0
      BY <1>1, EmptySeq
    <3>. QED  BY <3>1 DEF Treed
  <2>. QED  BY <1>2, <2>1, <2>2
<1>4. Items' = Items
  BY <1>1 DEF Items
<1>. QED  BY <1>1, <1>2, <1>3, <1>4 DEF IInv

\* Memory ends, or nothing happens.
LEMMA StillStep == ASSUME IInv, Overflow \/ Terminated \/ UNCHANGED vars PROVE IInv'
<1>1. CASE Overflow
  <2>1. Items' = Items
    BY <1>1 DEF Overflow, Items
  <2>2. \A k \in 1..Len(frames') : frames'[k].role \in Treed(types', role', queue', frames')
    BY <1>1 DEF IInv, Overflow
  <2>. QED  BY <1>1, <2>1, <2>2 DEF IInv, Overflow
<1>2. CASE UNCHANGED vars
  BY <1>2 DEF IInv, Items, vars
<1>. QED  BY <1>1, <1>2 DEF Terminated

-----------------------------------------------------------------------------
(* The theorems. *)

LEMMA Initially == ASSUME Init PROVE IInv
<1>1. IsProgram(prog) /\ Main \in Role
  BY ProgramAssumption DEF Init
<1>. DEFINE top == Frame("", NoFrame, Main)
            node == Leaf("label", Main)
<1>2. top \in FrameOf(prog) /\ top.caller = 0 /\ top.role = Main
  <2>1. << >> \in Seq(DeferrableCalls(prog))
    BY EmptySeq
  <2>. QED  BY <1>1, <2>1 DEF Frame, NoFrame, FrameOf
<1>3. node \in NodeOf(prog) /\ node.kids = << >> /\ node.kind \notin CommKind
  <2>1. << >> \in Seq(Nat) /\ Main \in ArgOf(prog)
    BY <1>1, EmptySeq DEF ArgOf
  <2>. QED  BY <2>1 DEF Leaf, NodeOf, Kind, CommKind
<1>4. frames = <<top>> /\ tree = <<node>>
  BY DEF Init
<1>. HIDE DEF top, node
<1>5. AreFrames(prog, frames) /\ Len(frames) = 1 /\ frames[1].role = role
  <2>1. frames \in Seq(FrameOf(prog)) /\ Len(frames) = 1 /\ frames[1] = top
    BY <1>2, <1>4
  <2>2. 1 \in DOMAIN frames /\ role = Main
    <3>1. DOMAIN frames = 1..1
      BY <2>1, LenProperties
    <3>2. role = Main
      BY DEF Init
    <3>. QED  BY <3>1, <3>2
  <2>3. \A k \in 1..Len(frames) : frames[k].caller < k
    BY <1>2, <2>1
  <2>. QED  BY <1>2, <2>1, <2>2, <2>3 DEF AreFrames
<1>6. IsTree(prog, tree, chans) /\ Len(tree) = 1
  <2>1. tree \in Seq(NodeOf(prog)) /\ Len(tree) = 1 /\ tree[1] = node
    BY <1>3, <1>4
  <2>2. Len(node.kids) = 0
    BY <1>3, EmptySeq
  <2>. QED  BY <1>3, <2>1, <2>2 DEF IsTree
<1>7. /\ << >> \in Seq(Items) /\ << >> \in Seq(1..Len(tree)) /\ << >> \in Seq(Called(prog, frames))
      /\ Len(<< >>) = 0
  BY EmptySeq
<1>8. AreSelects(prog, tree, selNode) /\ DOMAIN types = {}
  <2>1. DOMAIN << >> = {}
    BY EmptySeq
  <2>. QED  BY <2>1 DEF AreSelects, Init
<1>9. \A k \in 1..Len(frames) : frames[k].role \in Treed(types, role, queue, frames)
  BY <1>5 DEF Treed
<1>10. /\ pc = "start" /\ work = << >> /\ ifparent = << >> /\ queue = << >> /\ role = Main
       /\ root = 1 /\ leaf = 1 /\ chans = {} /\ recvTest = {}
  BY DEF Init
<1>11. /\ work \in Seq(Items) /\ ifparent \in Seq(1..Len(tree))
       /\ queue \in Seq(Called(prog, frames)) /\ Len(ifparent) = Cardinality(Open(work))
  <2>1. Cardinality(Open(work)) = 0 /\ Len(ifparent) = 0
    BY <1>7, <1>10, NothingOpen
  <2>. QED  BY <1>7, <1>10, <2>1
<1>12. /\ root \in 1..Len(tree) /\ leaf \in 1..Len(tree) /\ role \in Role
       /\ chans \subseteq Chan /\ recvTest \subseteq chans
       /\ \A r \in DOMAIN types : r \in Role /\ types[r] \in 1..Len(tree)
  BY <1>1, <1>6, <1>8, <1>10
<1>. QED  BY <1>1, <1>5, <1>6, <1>8, <1>9, <1>10, <1>11, <1>12 DEF IInv

\* Whatever the programs, the work that is left can be done: the stacks of ifs and
\* selects are where its instructions need them.
THEOREM Inductive == Spec => []IInv
<1>1. Init => IInv
  BY Initially
<1>2. IInv /\ [Next]_vars => IInv'
  BY InitStep, MainStep, GortnStep, EndStep, BlockStep, CommStep, RecvOkStep, SelectStep,
     JumpStep, ReturnStep, IfStep, ElseStep, EndIfStep, IfRecvStep, StopStep, IfSelStep,
     SelElseStep, CallInsStep, GoStep, DeferStep, RunDefersStep, DeferredStep, StillStep
     DEF Next
<1>. QED  BY <1>1, <1>2, PTL DEF Spec

\* Every reference to a frame or a node is to one that was made, whatever the
\* programs, the frames and the nodes.
THEOREM TypeCorrect == Spec => []TypeOK
<1>1. ASSUME IInv PROVE TypeOK
  <2>1. /\ IsProgram(prog) /\ frames \in Seq(FrameOf(prog)) /\ AreFrames(prog, frames)
        /\ tree \in Seq(NodeOf(prog)) /\ IsTree(prog, tree, chans) /\ AreSelects(prog, tree, selNode)
        /\ work \in Seq(Items) /\ ifparent \in Seq(1..Len(tree))
        /\ queue \in Seq(Called(prog, frames))
    BY <1>1 DEF IInv, AreFrames, IsTree
  <2>2. ASSUME NEW j \in DOMAIN work
        PROVE  /\ work[j].do \in WorkKind /\ work[j].fr \in DOMAIN frames
               /\ work[j].at \in 0..Len(tree) /\ work[j].b \in DOMAIN prog[work[j].fn]
    <3>1. work[j] \in ItemsOf(prog, frames, tree, chans, selNode)
      BY <2>1, <2>2, ElementOfSeq DEF Items
    <3>2. /\ work[j].do \in WorkKind /\ work[j].fr \in 1..Len(frames)
          /\ work[j].at \in 0..Len(tree) /\ work[j].fn \in DOMAIN prog
          /\ work[j].b \in 1..Len(prog[work[j].fn])
      BY <3>1, FieldsOfItem
    <3>3. DOMAIN prog[work[j].fn] = 1..Len(prog[work[j].fn])
      BY <2>1, <3>2 DEF IsProgram
    <3>. QED  BY <2>1, <3>2, <3>3
  <2>3. ASSUME NEW k \in DOMAIN frames
        PROVE  frames[k].caller \in 0..(k-1) /\ frames[k].role \in Role
    <3>1. frames[k] \in FrameOf(prog) /\ k \in 1..Len(frames)
      BY <2>1, <2>3, ElementOfSeq
    <3>2. frames[k].caller < k /\ frames[k].caller \in Nat /\ frames[k].role \in Role
      BY <2>1, <3>1 DEF AreFrames, FrameOf
    <3>. QED  BY <3>1, <3>2
  <2>4. \A j \in DOMAIN queue : queue[j] \in DOMAIN frames
    <3>1. \A j \in 1..Len(queue) : queue[j] \in Called(prog, frames)
      BY <2>1, ElementOfSeq
    <3>. QED  BY <2>1, <3>1 DEF Called
  <2>5. ASSUME NEW n \in DOMAIN tree
        PROVE  /\ tree[n].kind \in Kind
               /\ tree[n].kind \in CommKind => tree[n].arg \in chans
               /\ \A j \in DOMAIN tree[n].kids : tree[n].kids[j] \in (n+1)..Len(tree)
    <3>1. n \in 1..Len(tree) /\ tree[n] \in NodeOf(prog)
      BY <2>1, <2>5, ElementOfSeq
    <3>2. tree[n].kind \in Kind /\ DOMAIN tree[n].kids = 1..Len(tree[n].kids)
      BY <3>1, LenProperties DEF NodeOf
    <3>. QED  BY <2>1, <3>1, <3>2 DEF IsTree
  <2>6. Range(ifparent) \subseteq DOMAIN tree
    <3>1. \A j \in 1..Len(ifparent) : ifparent[j] \in 1..Len(tree)
      BY <2>1, ElementOfSeq
    <3>. QED  BY <2>1, <3>1 DEF Range
  <2>7. \A x \in DOMAIN selNode : selNode[x].parent \in DOMAIN tree
    BY <2>1 DEF AreSelects
  <2>8. /\ pc \in {"start", "init", "main", "gortns", "done", "crashed", "overflow"}
        /\ role \in Role /\ {root, leaf} \subseteq DOMAIN tree
        /\ chans \subseteq Chan /\ recvTest \subseteq chans
        /\ \A r \in DOMAIN types : r \in Role /\ types[r] \in DOMAIN tree
    BY <1>1, <2>1 DEF IInv
  <2>. QED  BY <2>2, <2>3, <2>4, <2>5, <2>6, <2>7, <2>8 DEF TypeOK
<1>. QED  BY <1>1, Inductive, PTL

\* A run that ends has a tree for the role of every frame that was made: no
\* goroutine that is started is forgotten, whoever starts it.
THEOREM AllVisited == Spec => []GoroutinesVisited
<1>1. IInv => GoroutinesVisited
  <2>1. ASSUME IInv, pc = "done", NEW k \in DOMAIN frames
        PROVE  frames[k].role \in DOMAIN types
    <3>1. k \in 1..Len(frames)
      BY <2>1 DEF IInv, AreFrames
    <3>. QED  BY <2>1, <3>1 DEF IInv
  <2>. QED  BY <2>1 DEF GoroutinesVisited
<1>. QED  BY <1>1, Inductive, PTL
=============================================================================
