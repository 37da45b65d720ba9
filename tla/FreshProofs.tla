----------------------------- MODULE FreshProofs -----------------------------
(***************************************************************************)
(* Two properties of the trees, for every set of programs whose calls are  *)
(* inlined at most once.  No case of a select is touched before its test   *)
(* is visited: first, that no block is entered a second time in a call     *)
(* (Once): the blocks that were entered, and those that the work that is   *)
(* left may still enter; then, that the nodes that this work waits for     *)
(* have no children yet (Fresh).  And the label of every goto comes before *)
(* it: the nodes that the work goes back to are on one way from the root   *)
(* to the leaf, and the labels so far are before or below each of them     *)
(* (Ordered).  One lemma for each action, after those on stacks of work    *)
(* and on trees that grow.                                                 *)
(***************************************************************************)
EXTENDS ExtractProofs

-----------------------------------------------------------------------------
(* A block is entered once in a call.  The blocks that were entered are a  *)
(* set E of functions and blocks; the work that is left may enter others.  *)
(* A block with several edges into it is entered at most once in a         *)
(* goroutine, by its label.                                                *)

Joined(p, f, b) == Cardinality(Preds(p, f, b)) > 1
Into(p, w, k) == p[w.fn][w.b].succs[k]
Enters(p, w) == \/ w.do \in {"ins", "else", "stop", "selelse"}
                \/ w.do = "block" /\ ~Joined(p, w.fn, w.b)
Left(p, w) == {k \in 1..Len(p[w.fn][w.b].succs) : w.do \in {"block", "ins"} \/ k = 2}
Test(p, w) == Ending(p, w.fn, w.b)

Placed(p, fs, E, w) ==
    /\ Enters(p, w) =>
          /\ <<w.fn, w.b>> \in E
          /\ \A k \in Left(p, w) :
                ~Joined(p, w.fn, Into(p, w, k)) => <<w.fn, Into(p, w, k)>> \notin E
    /\ IF w.fr = Toplevel THEN w.fn \in {"init", "main"} ELSE fs[w.fr].fn = w.fn
    /\ w.do = "defers" => w.fn # "init"

\* The item v of work above w: its function is that of w or called by it, and it is
\* at another block than w, and not at that of the select whose test w is.
Apart(p, v, w) ==
    /\ v.fn = w.fn \/ v.fn \in Led(p, w.fn)
    /\ w.do # "block"
    /\ Enters(p, v) /\ Enters(p, w) /\ v.fn = w.fn => v.b # w.b
    /\ Enters(p, v) /\ v.do \in {"block", "ins"} /\ w.do = "selelse" /\ v.fn = w.fn =>
          Test(p, w).x \notin SelectsIn(p, v.fn, v.b)

Stacked(p, fs, E, s) ==
    \A j \in 1..Len(s) : Placed(p, fs, E, s[j]) /\ \A i \in 1..(j-1) : Apart(p, s[i], s[j])

\* Joins are entered with a label, other blocks from the one before them, and the
\* test of a case after its select.
AreEntered(p, vis, E) ==
    \A f \in DOMAIN p : \A b \in 1..Len(p[f]) : <<f, b>> \in E =>
       /\ Joined(p, f, b) => <<f, b>> \in vis
       /\ ~Joined(p, f, b) => \A e \in Preds(p, f, b) : <<f, e[1]>> \in E
       /\ Ending(p, f, b).op = "ifsel" =>
             \A c \in 1..Len(p[f]) :
                Ending(p, f, b).x \in SelectsIn(p, f, c) => <<f, c>> \in E

\* The edges into a block are edges; they are finitely many, and if there are not two
\* they are one.
LEMMA EdgeInto ==
    ASSUME NEW p, IsProgram(p), NEW f \in DOMAIN p, NEW b \in 1..Len(p[f])
    PROVE  /\ \A k \in 1..Len(p[f][b].succs) : <<b, k>> \in Preds(p, f, p[f][b].succs[k])
           /\ \A e \in Preds(p, f, b) :
                 /\ e[1] \in 1..Len(p[f]) /\ e[2] \in 1..Len(p[f][e[1]].succs)
                 /\ p[f][e[1]].succs[e[2]] = b /\ e = <<e[1], e[2]>>
           /\ Cardinality(Preds(p, f, b)) = 1 => Preds(p, f, b) # {}
           /\ ~Joined(p, f, b) => \A e, d \in Preds(p, f, b) : e = d
<1>. DEFINE out(a) == {<<a, k>> : k \in 1..Len(p[f][a].succs)}
            edges == UNION {out(a) : a \in 1..Len(p[f])}
            P == Preds(p, f, b)
<1>1. \A c : Preds(p, f, c) = {e \in edges : p[f][e[1]].succs[e[2]] = c}
  BY DEF Preds
<1>2. \A e \in edges : e[1] \in 1..Len(p[f]) /\ e[2] \in 1..Len(p[f][e[1]].succs) /\ e = <<e[1], e[2]>>
  OBVIOUS
<1>3. \A k \in 1..Len(p[f][b].succs) : <<b, k>> \in edges
  OBVIOUS
<1>. HIDE DEF edges
<1>4. \A k \in 1..Len(p[f][b].succs) : <<b, k>> \in Preds(p, f, p[f][b].succs[k])
  BY <1>1, <1>3
<1>5. IsFiniteSet(P)
  <2>1. IsFiniteSet((1..Len(p[f])) \X (1..2))
    <3>. DEFINE n == Len(p[f])
    <3>1. n \in Int
      BY DEF IsProgram
    <3>. HIDE DEF n
    <3>2. 1 \in Int /\ 2 \in Int
      OBVIOUS
    <3>3. IsFiniteSet(1..n)
      BY <3>1, <3>2, FS_Interval, Zenon
    <3>4. IsFiniteSet(1..2)
      BY <3>2, FS_Interval, Zenon
    <3>5. IsFiniteSet((1..n) \X (1..2))
      BY <3>3, <3>4, FS_Product
    <3>. QED  BY <3>5 DEF n
  <2>2. ASSUME NEW e \in P PROVE e \in (1..Len(p[f])) \X (1..2)
    <3>1. e[1] \in 1..Len(p[f]) /\ e[2] \in 1..Len(p[f][e[1]].succs) /\ e = <<e[1], e[2]>>
      BY <1>1, <1>2
    <3>. DEFINE a == e[1]
                k == e[2]
    <3>2. a \in 1..Len(p[f]) /\ k \in 1..Len(p[f][a].succs) /\ e = <<a, k>>
      BY <3>1
    <3>. HIDE DEF a, k
    <3>3. Len(p[f][a].succs) \in 0..2
      BY <3>2, BlockOfProgram, Zenon DEF IsBlock
    <3>4. k \in 1..2
      <4>. DEFINE m == Len(p[f][a].succs)
      <4>1. m \in 0..2 /\ k \in 1..m
        BY <3>2, <3>3
      <4>. HIDE DEF m
      <4>. QED  BY <4>1
    <3>. QED  BY <3>2, <3>4
  <2>. QED  BY <2>1, <2>2, FS_Subset
<1>6. ASSUME ~Joined(p, f, b), NEW e \in P, NEW d \in P, e # d PROVE FALSE
  <2>1. IsFiniteSet({e}) /\ Cardinality({e}) = 1
    BY FS_Singleton
  <2>2. Cardinality({e} \cup {d}) = 2
    BY <1>6, <2>1, FS_AddElement
  <2>3. Cardinality({e} \cup {d}) <= Cardinality(P)
    BY <1>5, FS_Subset
  <2>4. Cardinality(P) \in Nat /\ ~(Cardinality(P) > 1)
    BY <1>5, <1>6, FS_CardinalityType DEF Joined
  <2>. QED  BY <2>2, <2>3, <2>4
<1>7. Cardinality(P) = 1 => P # {}
  BY FS_EmptySet
<1>. QED  BY <1>1, <1>2, <1>4, <1>6, <1>7

\* A block that is entered where it may be keeps E in order, and what it leads to is
\* not entered yet.
LEMMA Entering ==
    ASSUME NEW p, IsProgram(p), NEW f \in DOMAIN p, NEW b \in 1..Len(p[f]),
           NEW vis, NEW via, NEW E, AreEntered(p, vis, E), <<f, b>> \notin E,
           vis \subseteq via, Joined(p, f, b) => <<f, b>> \in via,
           ~Joined(p, f, b) => \A e \in Preds(p, f, b) : <<f, e[1]>> \in E
    PROVE  /\ AreEntered(p, via, E \cup {<<f, b>>})
           /\ \A k \in 1..Len(p[f][b].succs) :
                 ~Joined(p, f, p[f][b].succs[k]) => <<f, p[f][b].succs[k]>> \notin E \cup {<<f, b>>}
<1>. DEFINE D == E \cup {<<f, b>>}
<1>1. ASSUME NEW k \in 1..Len(p[f][b].succs), ~Joined(p, f, p[f][b].succs[k])
      PROVE  <<f, p[f][b].succs[k]>> \notin D
  <2>. DEFINE c == p[f][b].succs[k]
  <2>1. c \in 1..Len(p[f])
    BY BlockOfProgram DEF IsBlock
  <2>2. <<b, k>> \in Preds(p, f, c)
    BY EdgeInto
  <2>. HIDE DEF c
  <2>3. ~Joined(p, f, c)
    BY <1>1 DEF c
  <2>4. <<f, c>> \notin E
    BY <2>1, <2>2, <2>3 DEF AreEntered
  <2>5. c # b
    BY <2>2, <2>3
  <2>. QED  BY <2>4, <2>5 DEF c
<1>2. ASSUME NEW c \in 1..Len(p[f]), Ending(p, f, b).op = "ifsel",
             Ending(p, f, b).x \in SelectsIn(p, f, c)
      PROVE  <<f, c>> \in D
  <2>. DEFINE i == Ending(p, f, b)
              ins == p[f][b].ins
  <2>1. TestsInTurn(p, f, b)
    BY DEF IsProgram
  <2>2. CASE i.n = 0
    <3>1. /\ Len(ins) > 1 /\ ins[Len(ins) - 1].op = "select" /\ ins[Len(ins) - 1].x = i.x
      BY <1>2, <2>1, <2>2 DEF TestsInTurn
    <3>2. Len(ins) \in Nat
      BY BlockOfProgram DEF IsBlock
    <3>3. i.x \in SelectsIn(p, f, b)
      BY <3>1, <3>2 DEF SelectsIn, SelectsBefore
    <3>4. SelectsIn(p, f, b) \cap SelectsIn(p, f, c) # {}
      BY <1>2, <3>3
    <3>5. c = b
      BY <3>4, Zenon DEF IsProgram, SelectsApart
    <3>. QED  BY <3>5
  <2>3. CASE i.n # 0
    <3>1. /\ Cardinality(Preds(p, f, b)) = 1
          /\ \A e \in Preds(p, f, b) : IsTest(Ending(p, f, e[1]), i.x, i.n - 1)
      BY <1>2, <2>1, <2>3 DEF TestsInTurn
    <3>2. PICK e \in Preds(p, f, b) : e[1] \in 1..Len(p[f])
      BY <3>1, EdgeInto
    <3>3. <<f, e[1]>> \in E
      BY <3>1, <3>2 DEF Joined
    <3>. DEFINE a == e[1]
    <3>4. Ending(p, f, a).op = "ifsel" /\ Ending(p, f, a).x = i.x
      BY <3>1 DEF IsTest
    <3>. HIDE DEF a, i
    <3>5. a \in 1..Len(p[f]) /\ <<f, a>> \in E
      BY <3>2, <3>3 DEF a
    <3>6. Ending(p, f, a).x \in SelectsIn(p, f, c)
      BY <1>2, <3>4 DEF i
    <3>. QED  BY <3>4, <3>5, <3>6 DEF AreEntered
  <2>. QED  BY <2>2, <2>3
<1>3. ASSUME NEW g \in DOMAIN p, NEW c \in 1..Len(p[g]), <<g, c>> \in D
      PROVE  /\ Joined(p, g, c) => <<g, c>> \in via
             /\ ~Joined(p, g, c) => \A e \in Preds(p, g, c) : <<g, e[1]>> \in D
             /\ Ending(p, g, c).op = "ifsel" =>
                   \A d \in 1..Len(p[g]) :
                      Ending(p, g, c).x \in SelectsIn(p, g, d) => <<g, d>> \in D
  <2>1. CASE <<g, c>> \in E
    BY <2>1 DEF AreEntered
  <2>2. CASE <<g, c>> \notin E
    <3>1. g = f /\ c = b
      BY <1>3, <2>2
    <3>. QED  BY <1>2, <3>1
  <2>. QED  BY <2>1, <2>2
<1>. QED  BY <1>1, <1>3 DEF AreEntered

\* What is placed stays so when blocks are entered that it does not lead to, and more
\* frames are made.
LEMMA PlacedStays ==
    ASSUME NEW p, NEW fs, NEW gs, NEW E, NEW D, E \subseteq D, NEW w, Placed(p, fs, E, w),
           w.fr # Toplevel => gs[w.fr].fn = fs[w.fr].fn,
           Enters(p, w) => \A k \in Left(p, w) :
              ~Joined(p, w.fn, Into(p, w, k)) => <<w.fn, Into(p, w, k)>> \notin D \ E
    PROVE  Placed(p, gs, D, w)
BY DEF Placed

\* A stack of work, with something on top or without its top.
LEMMA StackedOn ==
    ASSUME NEW p, NEW fs, NEW E, NEW S, NEW s \in Seq(S), NEW x \in S,
           Stacked(p, fs, E, s), Placed(p, fs, E, x), \A j \in 1..Len(s) : Apart(p, x, s[j])
    PROVE  Stacked(p, fs, E, <<x>> \o s)
<1>. DEFINE v == <<x>> \o s
<1>1. /\ Len(s) \in Nat /\ Len(v) = Len(s) + 1 /\ v[1] = x
      /\ \A j \in 1..Len(s) : v[j + 1] = s[j]
  BY BeforeAt
<1>. HIDE DEF v
<1>2. ASSUME NEW j \in 1..Len(v)
      PROVE  Placed(p, fs, E, v[j]) /\ \A i \in 1..(j-1) : Apart(p, v[i], v[j])
  <2>1. CASE j = 1
    BY <1>1, <2>1
  <2>2. CASE j # 1
    <3>1. j - 1 \in 1..Len(s) /\ v[j] = s[j - 1]
      <4>1. j - 1 \in 1..Len(s) /\ (j - 1) + 1 = j
        BY <1>1, <2>2
      <4>. QED  BY <1>1, <4>1
    <3>2. ASSUME NEW i \in 1..(j-1) PROVE Apart(p, v[i], v[j])
      <4>1. CASE i = 1
        BY <1>1, <3>1, <4>1
      <4>2. CASE i # 1
        <5>1. i - 1 \in 1..((j - 1) - 1) /\ i - 1 \in 1..Len(s) /\ (i - 1) + 1 = i
          BY <1>1, <3>1, <4>2
        <5>2. v[i] = s[i - 1]
          BY <1>1, <5>1
        <5>. QED  BY <3>1, <5>1, <5>2 DEF Stacked
      <4>. QED  BY <4>1, <4>2
    <3>. QED  BY <3>1, <3>2 DEF Stacked
  <2>. QED  BY <2>1, <2>2
<1>. QED  BY <1>2 DEF Stacked, v

LEMMA StackedUnder ==
    ASSUME NEW p, NEW fs, NEW E, NEW S, NEW s \in Seq(S), s # << >>, Stacked(p, fs, E, s)
    PROVE  /\ Stacked(p, fs, E, Tail(s)) /\ Placed(p, fs, E, s[1])
           /\ \A j \in 1..Len(Tail(s)) :
                 Apart(p, s[1], Tail(s)[j]) /\ Placed(p, fs, E, Tail(s)[j])
<1>. DEFINE r == Tail(s)
<1>1. /\ Len(r) \in Nat /\ Len(s) = Len(r) + 1 /\ \A j \in 1..Len(r) : r[j] = s[j + 1]
  <2>1. s[1] \in S /\ r \in Seq(S) /\ s = <<s[1]>> \o r
    BY HeadBefore
  <2>. HIDE DEF r
  <2>. QED  BY <2>1, BeforeAt
<1>. HIDE DEF r
<1>2. 1 \in 1..Len(s) /\ \A j \in 1..Len(r) : j + 1 \in 1..Len(s) /\ 1 \in 1..((j + 1) - 1)
  BY <1>1
<1>3. ASSUME NEW j \in 1..Len(r)
      PROVE  Placed(p, fs, E, r[j]) /\ \A i \in 1..(j-1) : Apart(p, r[i], r[j])
  <2>1. \A i \in 1..(j-1) : i + 1 \in 1..((j + 1) - 1) /\ r[i] = s[i + 1]
    BY <1>1
  <2>. QED  BY <1>1, <1>2, <2>1 DEF Stacked
<1>4. \A j \in 1..Len(r) : Apart(p, s[1], r[j])
  BY <1>1, <1>2 DEF Stacked
<1>5. Placed(p, fs, E, s[1])
  BY <1>2 DEF Stacked
<1>6. Stacked(p, fs, E, r)
  BY <1>3 DEF Stacked
<1>. QED  BY <1>3, <1>4, <1>5, <1>6 DEF r

\* What waits for a second branch is at the end of a block with two.
LEMMA TestOfItem ==
    ASSUME NEW p, IsProgram(p), NEW fs, NEW t, NEW cs, NEW sel,
           NEW w \in ItemsOf(p, fs, t, cs, sel), w.do \in {"else", "stop", "selelse"}
    PROVE  /\ Test(p, w) = p[w.fn][w.b].ins[w.i] /\ Len(p[w.fn][w.b].succs) = 2
           /\ w.do = "selelse" => Test(p, w).op = "ifsel"
           /\ w.do \in {"else", "stop"} => Test(p, w).op \in {"if", "ifrecv"}
<1>1. /\ w.fn \in DOMAIN p /\ w.b \in 1..Len(p[w.fn]) /\ w.i \in 1..Len(p[w.fn][w.b].ins)
      /\ w.do = "selelse" => p[w.fn][w.b].ins[w.i].op = "ifsel"
      /\ w.do \in {"else", "stop"} => p[w.fn][w.b].ins[w.i].op \in {"if", "ifrecv"}
  BY DEF ItemsOf
<1>2. IsBlock(p, w.fn, w.b)
  BY <1>1, BlockOfProgram
<1>3. w.i = Len(p[w.fn][w.b].ins) /\ Len(p[w.fn][w.b].succs) = 2
  BY <1>1, <1>2, Zenon DEF IsBlock
<1>. QED  BY <1>1, <1>3 DEF Test, Ending

\* A block that is entered on a stack of work that does not lead to it.
LEMMA EnterOn ==
    ASSUME NEW p, IsProgram(p), NEW fs, NEW t, NEW cs, NEW sel, NEW E, NEW vis, NEW via,
           NEW s \in Seq(ItemsOf(p, fs, t, cs, sel)), NEW x \in ItemsOf(p, fs, t, cs, sel),
           Stacked(p, fs, E, s), AreEntered(p, vis, E),
           x.do \in {"block", "ins"}, Enters(p, x), <<x.fn, x.b>> \notin E,
           IF x.fr = Toplevel THEN x.fn \in {"init", "main"} ELSE fs[x.fr].fn = x.fn,
           vis \subseteq via, Joined(p, x.fn, x.b) => <<x.fn, x.b>> \in via,
           ~Joined(p, x.fn, x.b) => \A e \in Preds(p, x.fn, x.b) : <<x.fn, e[1]>> \in E,
           \A j \in 1..Len(s) :
              /\ s[j].do # "block" /\ (x.fn = s[j].fn \/ x.fn \in Led(p, s[j].fn))
              /\ Enters(p, s[j]) /\ s[j].fn = x.fn /\ ~Joined(p, x.fn, x.b) =>
                    \A k \in Left(p, s[j]) : Into(p, s[j], k) # x.b
    PROVE  /\ Stacked(p, fs, E \cup {<<x.fn, x.b>>}, <<x>> \o s)
           /\ AreEntered(p, via, E \cup {<<x.fn, x.b>>})
<1>. DEFINE D == E \cup {<<x.fn, x.b>>}
<1>1. x.fn \in DOMAIN p /\ x.b \in 1..Len(p[x.fn])
  BY FieldsOfItem
<1>2. /\ AreEntered(p, via, D)
      /\ \A k \in 1..Len(p[x.fn][x.b].succs) :
            ~Joined(p, x.fn, p[x.fn][x.b].succs[k]) => <<x.fn, p[x.fn][x.b].succs[k]>> \notin D
  <2>. DEFINE f == x.fn
              b == x.b
  <2>1. /\ f \in DOMAIN p /\ b \in 1..Len(p[f]) /\ <<f, b>> \notin E
        /\ Joined(p, f, b) => <<f, b>> \in via
        /\ ~Joined(p, f, b) => \A e \in Preds(p, f, b) : <<f, e[1]>> \in E
    BY <1>1
  <2>. HIDE DEF f, b
  <2>2. /\ AreEntered(p, via, E \cup {<<f, b>>})
        /\ \A k \in 1..Len(p[f][b].succs) :
              ~Joined(p, f, p[f][b].succs[k]) => <<f, p[f][b].succs[k]>> \notin E \cup {<<f, b>>}
    BY <2>1, Entering
  <2>. QED  BY <2>2 DEF f, b
<1>3. Placed(p, fs, D, x)
  BY <1>2 DEF Placed, Left, Into
<1>4. ASSUME NEW j \in 1..Len(s)
      PROVE  s[j] \in ItemsOf(p, fs, t, cs, sel) /\ Placed(p, fs, E, s[j])
  BY ElementOfSeq DEF Stacked
<1>5. ASSUME NEW j \in 1..Len(s) PROVE Placed(p, fs, D, s[j])
  <2>. DEFINE w == s[j]
  <2>1. Placed(p, fs, E, w)
    BY <1>4
  <2>2. Enters(p, w) => \A k \in Left(p, w) :
              ~Joined(p, w.fn, Into(p, w, k)) => <<w.fn, Into(p, w, k)>> \notin D \ E
    <3>1. Enters(p, w) /\ w.fn = x.fn /\ ~Joined(p, x.fn, x.b) =>
                    \A k \in Left(p, w) : Into(p, w, k) # x.b
      OBVIOUS
    <3>. QED  BY <3>1
  <2>3. E \subseteq D
    OBVIOUS
  <2>. HIDE DEF w, D
  <2>4. Placed(p, fs, D, w)
    BY <2>1, <2>2, <2>3, PlacedStays
  <2>. QED  BY <2>4 DEF w
<1>6. ASSUME NEW j \in 1..Len(s) PROVE Apart(p, x, s[j])
  <2>. DEFINE w == s[j]
  <2>1. Placed(p, fs, E, w) /\ w \in ItemsOf(p, fs, t, cs, sel)
    BY <1>4
  <2>2. w.do # "block" /\ (x.fn = w.fn \/ x.fn \in Led(p, w.fn))
    OBVIOUS
  <2>. HIDE DEF w
  <2>3. Enters(p, w) /\ x.fn = w.fn => x.b # w.b
    BY <2>1 DEF Placed
  <2>4. ASSUME w.do = "selelse", x.fn = w.fn, Test(p, w).x \in SelectsIn(p, x.fn, x.b)
        PROVE  FALSE
    <3>1. Test(p, w).op = "ifsel" /\ w.fn \in DOMAIN p /\ w.b \in 1..Len(p[w.fn])
      <4>1. w.do \in {"else", "stop", "selelse"}
        BY <2>4
      <4>2. Test(p, w).op = "ifsel"
        BY <2>1, <2>4, <4>1, TestOfItem
      <4>3. w.fn \in DOMAIN p /\ w.b \in 1..Len(p[w.fn])
        BY <2>1, FieldsOfItem
      <4>. QED  BY <4>2, <4>3
    <3>2. <<w.fn, w.b>> \in E
      BY <2>1, <2>4 DEF Placed, Enters
    <3>. QED  BY <1>1, <2>4, <3>1, <3>2 DEF AreEntered, Test
  <2>5. Apart(p, x, w)
    BY <2>2, <2>3, <2>4 DEF Apart
  <2>. QED  BY <2>5 DEF w
<1>7. Stacked(p, fs, D, s)
  BY <1>5 DEF Stacked
<1>. QED  BY <1>2, <1>3, <1>6, <1>7, StackedOn

\* A block with several edges into it, before it is known whether it is entered.
LEMMA JoinOn ==
    ASSUME NEW p, NEW fs, NEW E, NEW S, NEW s \in Seq(S), NEW x \in S, Stacked(p, fs, E, s),
           x.do = "block", Joined(p, x.fn, x.b),
           IF x.fr = Toplevel THEN x.fn \in {"init", "main"} ELSE fs[x.fr].fn = x.fn,
           \A j \in 1..Len(s) :
              s[j].do # "block" /\ (x.fn = s[j].fn \/ x.fn \in Led(p, s[j].fn))
    PROVE  Stacked(p, fs, E, <<x>> \o s)
<1>1. ~Enters(p, x)
  BY DEF Enters
<1>2. Placed(p, fs, E, x)
  BY <1>1 DEF Placed
<1>3. \A j \in 1..Len(s) : Apart(p, x, s[j])
  BY <1>1 DEF Apart
<1>. QED  BY <1>2, <1>3, StackedOn

\* Items as far as where they are; y enters no more than w.
Follows(p, y, w) ==
    /\ y.fn = w.fn /\ y.b = w.b /\ y.fr = w.fr
    /\ \/ y.do \in {"endif", "defers"}
       \/ /\ Enters(p, w) /\ w.do \in {"block", "ins"}
          /\ y.do \in {"ins", "else", "stop", "selelse"}
    /\ y.do = "defers" => w.fn # "init"

LEMMA StackedInstead ==
    ASSUME NEW p, NEW fs, NEW E, NEW S, NEW s \in Seq(S), s # << >>, Stacked(p, fs, E, s),
           NEW y, Follows(p, y, s[1])
    PROVE  Stacked(p, fs, E, <<y>> \o Tail(s))
<1>. DEFINE w == s[1]
            r == Tail(s)
<1>1. /\ Stacked(p, fs, E, r) /\ Placed(p, fs, E, w) /\ \A j \in 1..Len(r) : Apart(p, w, r[j])
  BY StackedUnder
<1>2. Follows(p, y, w) /\ r \in Seq(S \cup {y}) /\ y \in S \cup {y}
  <2>1. r \in Seq(S)
    BY HeadBefore
  <2>. QED  BY <2>1, SeqMonotonic
<1>. HIDE DEF w, r
<1>3. /\ Enters(p, y) => Enters(p, w) /\ Left(p, y) \subseteq Left(p, w) /\ w.do \in {"block", "ins"}
      /\ \A k : Into(p, y, k) = Into(p, w, k)
  BY <1>2 DEF Follows, Enters, Left, Into
<1>4. Placed(p, fs, E, y)
  BY <1>1, <1>2, <1>3 DEF Placed, Follows
<1>5. ASSUME NEW j \in 1..Len(r) PROVE Apart(p, y, r[j])
  <2>1. Apart(p, w, r[j])
    BY <1>1
  <2>. QED  BY <1>2, <1>3, <2>1 DEF Apart, Follows
<1>6. Stacked(p, fs, E, <<y>> \o r)
  BY <1>1, <1>2, <1>4, <1>5, StackedOn
<1>. QED  BY <1>6 DEF r

-----------------------------------------------------------------------------
(* The steps of a run enter no block twice in a call, in a program that    *)
(* can be inlined.                                                         *)

\* What a frame defers is deferred by its function, at the top level by main.
AreDeferred(p, fs, q) ==
    /\ \A k \in 1..Len(fs) : \A j \in 1..Len(fs[k].defers) :
          fs[k].defers[j].op = "call" =>
             fs[k].defers[j].x \in
                Targets(p, IF k = Toplevel THEN "main" ELSE fs[k].fn, {"call"})
    /\ \A j \in 1..Len(q) : q[j] # Toplevel

Once == /\ AreDeferred(prog, frames, queue)
        /\ \E E : Stacked(prog, frames, E, work) /\ AreEntered(prog, visited, E)

LEMMA OnceKept ==
    ASSUME Once, NEW E, UNCHANGED <<prog, frames, queue>>,
           Stacked(prog, frames, E, work'), AreEntered(prog, visited', E)
    PROVE  Once'
BY DEF Once

\* Below the top, and with the top one instruction further.
LEMMA PopStacked ==
    ASSUME IInv, Running, NEW E, Stacked(prog, frames, E, work)
    PROVE  /\ Stacked(prog, frames, E, Pop) /\ Placed(prog, frames, E, Top)
           /\ \A j \in 1..Len(Pop) :
                 /\ Apart(prog, Top, Pop[j]) /\ Placed(prog, frames, E, Pop[j])
                 /\ Pop[j] \in Items
<1>1. work \in Seq(Items) /\ work # << >>
  BY DEF IInv, Running
<1>2. Pop \in Seq(Items)
  BY AtTop
<1>. QED  BY <1>1, <1>2, StackedUnder, ElementOfSeq DEF Top, Pop

LEMMA InsteadOfTop ==
    ASSUME IInv, Running, NEW E, Stacked(prog, frames, E, work),
           NEW y, Follows(prog, y, Top)
    PROVE  Stacked(prog, frames, E, <<y>> \o Pop)
<1>1. work \in Seq(Items) /\ work # << >>
  BY DEF IInv, Running
<1>. QED  BY <1>1, StackedInstead DEF Top, Pop

LEMMA RestStacked ==
    ASSUME IInv, Running, Top.do = "ins", NEW E, Stacked(prog, frames, E, work)
    PROVE  Stacked(prog, frames, E, Rest)
<1>. DEFINE y == [Top EXCEPT !.i = @ + 1]
<1>1. Follows(prog, y, Top)
  BY AtTop DEF Follows, Enters
<1>2. Stacked(prog, frames, E, <<y>> \o Pop)
  <2>. HIDE DEF y
  <2>. QED  BY <1>1, InsteadOfTop
<1>3. Stacked(prog, frames, E, Pop)
  BY PopStacked
<1>. QED  BY <1>2, <1>3 DEF Rest

\* With more frames, of which the old ones keep their functions.
LEMMA StackedWith ==
    ASSUME NEW p, NEW fs, NEW gs, NEW t, NEW cs, NEW sel, NEW E,
           NEW s \in Seq(ItemsOf(p, fs, t, cs, sel)), Stacked(p, fs, E, s),
           \A k \in 1..Len(fs) : gs[k].fn = fs[k].fn
    PROVE  Stacked(p, gs, E, s)
<1>1. ASSUME NEW j \in 1..Len(s) PROVE Placed(p, gs, E, s[j])
  <2>1. s[j] \in ItemsOf(p, fs, t, cs, sel) /\ Placed(p, fs, E, s[j])
    BY ElementOfSeq DEF Stacked
  <2>2. s[j].fr \in 1..Len(fs)
    BY <2>1, FieldsOfItem
  <2>. QED  BY <2>1, <2>2 DEF Placed
<1>. QED  BY <1>1 DEF Stacked

\* A successor of the block of the top, above what does not lead to it any more.
LEMMA SuccOn ==
    ASSUME IInv, Running, NEW E, Stacked(prog, frames, E, work),
           AreEntered(prog, visited, E), Top.do \in {"ins", "else", "stop", "selelse"},
           NEW k \in Left(prog, Top), Succ(k) \in Items,
           NEW r \in Seq(Items), Stacked(prog, frames, E, r),
           \A j \in 1..Len(r) :
              /\ r[j].do # "block" /\ (Top.fn = r[j].fn \/ Top.fn \in Led(prog, r[j].fn))
              /\ Enters(prog, r[j]) /\ r[j].fn = Top.fn /\ r[j].b = Top.b =>
                    k \notin Left(prog, r[j])
    PROVE  \E D : /\ Stacked(prog, frames, D, <<Succ(k)>> \o r)
                  /\ AreEntered(prog, visited, D)
<1>. DEFINE x == Succ(k)
            c == Into(prog, Top, k)
<1>1. /\ x.do = "block" /\ x.fn = Top.fn /\ x.b = c /\ x.fr = Top.fr
  BY DEF Succ, VisitOf, Item, Into
<1>2. /\ IsProgram(prog) /\ Top.fn \in DOMAIN prog /\ Top.b \in 1..Len(prog[Top.fn])
      /\ k \in 1..Len(prog[Top.fn][Top.b].succs) /\ c \in 1..Len(prog[Top.fn])
  <2>1. /\ IsProgram(prog) /\ Top.fn \in DOMAIN prog /\ Top.b \in 1..Len(prog[Top.fn])
        /\ IsBlock(prog, Top.fn, Top.b)
    BY AtTop
  <2>2. k \in 1..Len(prog[Top.fn][Top.b].succs)
    BY DEF Left
  <2>. QED  BY <2>1, <2>2 DEF IsBlock, Into
<1>3. /\ Placed(prog, frames, E, Top) /\ Enters(prog, Top)
      /\ IF x.fr = Toplevel THEN x.fn \in {"init", "main"} ELSE frames[x.fr].fn = x.fn
  BY <1>1, PopStacked DEF Enters, Placed
<1>4. <<Top.b, k>> \in Preds(prog, Top.fn, c)
  BY <1>2, EdgeInto DEF Into
<1>5. CASE Joined(prog, Top.fn, c)
  <2>1. Stacked(prog, frames, E, <<x>> \o r)
    <3>. HIDE DEF x, c
    <3>1. x \in Items /\ Joined(prog, x.fn, x.b)
      BY <1>1, <1>5 DEF x
    <3>2. \A j \in 1..Len(r) : r[j].do # "block" /\ (x.fn = r[j].fn \/ x.fn \in Led(prog, r[j].fn))
      BY <1>1
    <3>. QED  BY <1>1, <1>3, <3>1, <3>2, JoinOn
  <2>. QED  BY <2>1
<1>6. CASE ~Joined(prog, Top.fn, c)
  <2>1. <<x.fn, x.b>> \notin E
    BY <1>1, <1>3, <1>6 DEF Placed
  <2>2. \A e \in Preds(prog, x.fn, x.b) : <<x.fn, e[1]>> \in E
    <3>1. \A e \in Preds(prog, Top.fn, c) : e = <<Top.b, k>>
      BY <1>2, <1>4, <1>6, EdgeInto
    <3>2. <<Top.fn, Top.b>> \in E
      BY <1>3 DEF Placed
    <3>. QED  BY <1>1, <3>1, <3>2
  <2>3. ASSUME NEW j \in 1..Len(r), Enters(prog, r[j]), r[j].fn = x.fn,
               NEW i \in Left(prog, r[j]), Into(prog, r[j], i) = x.b
        PROVE  FALSE
    <3>. DEFINE w == r[j]
    <3>1. w \in Items
      BY ElementOfSeq
    <3>2. Enters(prog, w) /\ w.fn = Top.fn /\ w.b = Top.b => k \notin Left(prog, w)
      OBVIOUS
    <3>3. Enters(prog, w) /\ w.fn = Top.fn /\ i \in Left(prog, w) /\ Into(prog, w, i) = c
      BY <1>1, <2>3
    <3>. HIDE DEF w, x, c
    <3>4. w.b \in 1..Len(prog[Top.fn]) /\ i \in 1..Len(prog[Top.fn][w.b].succs)
      <4>1. w.b \in 1..Len(prog[w.fn])
        BY <3>1, FieldsOfItem DEF Items
      <4>2. i \in 1..Len(prog[w.fn][w.b].succs)
        BY <3>3 DEF Left
      <4>. QED  BY <3>3, <4>1, <4>2
    <3>5. <<w.b, i>> \in Preds(prog, Top.fn, c)
      BY <1>2, <3>3, <3>4, EdgeInto DEF Into
    <3>6. <<w.b, i>> = <<Top.b, k>>
      BY <1>2, <1>4, <1>6, <3>5, EdgeInto
    <3>. QED  BY <3>2, <3>3, <3>6
  <2>4. Enters(prog, x)
    BY <1>1, <1>6 DEF Enters
  <2>5. x \in Items /\ ~Joined(prog, x.fn, x.b) /\ x.do \in {"block", "ins"}
    BY <1>1, <1>6
  <2>6. \A j \in 1..Len(r) :
              /\ r[j].do # "block" /\ (x.fn = r[j].fn \/ x.fn \in Led(prog, r[j].fn))
              /\ Enters(prog, r[j]) /\ r[j].fn = x.fn /\ ~Joined(prog, x.fn, x.b) =>
                    \A i \in Left(prog, r[j]) : Into(prog, r[j], i) # x.b
    BY <1>1, <2>3
  <2>. HIDE DEF x, c
  <2>7. /\ Stacked(prog, frames, E \cup {<<x.fn, x.b>>}, <<x>> \o r)
        /\ AreEntered(prog, visited, E \cup {<<x.fn, x.b>>})
    BY <1>2, <1>3, <2>1, <2>2, <2>4, <2>5, <2>6, EnterOn DEF Items
  <2>. QED  BY <2>7 DEF x
<1>. QED  BY <1>5, <1>6

\* What is below a successor: the rest of the stack, perhaps with the branch that
\* waits.
LEMMA BelowSucc ==
    ASSUME IInv, Running, NEW E, Stacked(prog, frames, E, work),
           AreEntered(prog, visited, E), Top.do \in {"ins", "else", "stop", "selelse"},
           NEW k \in Left(prog, Top), Succ(k) \in Items
    PROVE  /\ \E D : /\ Stacked(prog, frames, D, <<Succ(k)>> \o Pop)
                     /\ AreEntered(prog, visited, D)
           /\ \A y \in Items :
                 Follows(prog, y, Top) /\ (Enters(prog, y) => k \notin Left(prog, y)) =>
                 \E D : /\ Stacked(prog, frames, D, <<Succ(k), y>> \o Pop)
                        /\ AreEntered(prog, visited, D)
<1>1. /\ Stacked(prog, frames, E, Pop) /\ Pop \in Seq(Items) /\ Enters(prog, Top)
      /\ \A j \in 1..Len(Pop) : Apart(prog, Top, Pop[j])
  BY PopStacked, AtTop DEF Enters
<1>2. ASSUME NEW j \in 1..Len(Pop)
      PROVE  /\ Pop[j].do # "block"
             /\ Top.fn = Pop[j].fn \/ Top.fn \in Led(prog, Pop[j].fn)
             /\ Enters(prog, Pop[j]) /\ Pop[j].fn = Top.fn /\ Pop[j].b = Top.b =>
                   k \notin Left(prog, Pop[j])
  BY <1>1 DEF Apart
<1>3. \E D : Stacked(prog, frames, D, <<Succ(k)>> \o Pop) /\ AreEntered(prog, visited, D)
  BY <1>1, <1>2, SuccOn
<1>4. ASSUME NEW y \in Items, Follows(prog, y, Top), Enters(prog, y) => k \notin Left(prog, y)
      PROVE  \E D : /\ Stacked(prog, frames, D, <<Succ(k), y>> \o Pop)
                    /\ AreEntered(prog, visited, D)
  <2>. DEFINE r == <<y>> \o Pop
  <2>1. /\ Len(Pop) \in Nat /\ Len(r) = Len(Pop) + 1 /\ r[1] = y
        /\ \A j \in 1..Len(Pop) : r[j + 1] = Pop[j]
    BY <1>1, BeforeAt
  <2>2. r \in Seq(Items) /\ <<Succ(k), y>> \o Pop = <<Succ(k)>> \o r
    BY <1>1, OneBefore, TwoBefore
  <2>3. Stacked(prog, frames, E, r)
    BY <1>4, InsteadOfTop
  <2>. HIDE DEF r
  <2>4. ASSUME NEW j \in 1..Len(r)
        PROVE  /\ r[j].do # "block"
               /\ Top.fn = r[j].fn \/ Top.fn \in Led(prog, r[j].fn)
               /\ Enters(prog, r[j]) /\ r[j].fn = Top.fn /\ r[j].b = Top.b =>
                     k \notin Left(prog, r[j])
    <3>1. CASE j = 1
      BY <1>4, <2>1, <3>1 DEF Follows
    <3>2. CASE j # 1
      <4>1. j - 1 \in 1..Len(Pop) /\ (j - 1) + 1 = j
        BY <2>1, <3>2
      <4>2. r[j] = Pop[j - 1]
        BY <2>1, <4>1
      <4>. QED  BY <1>2, <4>1, <4>2
    <3>. QED  BY <3>1, <3>2
  <2>5. \E D : Stacked(prog, frames, D, <<Succ(k)>> \o r) /\ AreEntered(prog, visited, D)
    BY <2>2, <2>3, <2>4, SuccOn
  <2>. QED  BY <2>2, <2>5
<1>. QED  BY <1>3, <1>4

LEMMA PopOnce ==
    ASSUME IInv, Running, Once, UNCHANGED <<prog, frames, queue, visited>>,
           work' \in {Pop, work}
    PROVE  Once'
<1>1. PICK E : Stacked(prog, frames, E, work) /\ AreEntered(prog, visited, E)
  BY DEF Once
<1>2. Stacked(prog, frames, E, Pop)
  BY <1>1, PopStacked
<1>. QED  BY <1>1, <1>2, OnceKept

LEMMA RestOnce ==
    ASSUME IInv, Running, Once, Top.do = "ins", UNCHANGED <<prog, frames, queue, visited>>,
           work' \in {Rest, work}
    PROVE  Once'
<1>1. PICK E : Stacked(prog, frames, E, work) /\ AreEntered(prog, visited, E)
  BY DEF Once
<1>2. Stacked(prog, frames, E, Rest)
  BY <1>1, RestStacked
<1>. QED  BY <1>1, <1>2, OnceKept

\* visitBlock.
LEMMA BlockOnce == ASSUME IInv, Once, VisitBlock PROVE Once'
<1>. DEFINE x == Item("ins", Top.fr, Top.fn, Top.b, 1, 0)
            block == <<Top.fn, Top.b>>
<1>1. /\ Running /\ Top.do = "block" /\ UNCHANGED <<prog, frames, queue>>
  BY DEF VisitBlock, Doing
<1>2. PICK E : Stacked(prog, frames, E, work) /\ AreEntered(prog, visited, E)
  BY DEF Once
<1>3. /\ Stacked(prog, frames, E, Pop) /\ Placed(prog, frames, E, Top) /\ Pop \in Seq(Items)
      /\ \A j \in 1..Len(Pop) : Apart(prog, Top, Pop[j])
      /\ Top \in Items /\ IsProgram(prog) /\ Top.fn \in DOMAIN prog
      /\ Top.b \in 1..Len(prog[Top.fn]) /\ Len(tree) \in Nat
  BY <1>1, <1>2, PopStacked, AtTop
<1>4. /\ x \in Items /\ x.do = "ins" /\ x.fn = Top.fn /\ x.b = Top.b /\ x.fr = Top.fr
  BY <1>1, <1>3, InstructionsAreWork DEF Items, Item
<1>5. CASE ~Joined(prog, Top.fn, Top.b)
  <2>1. work' = <<x>> \o Pop /\ visited' = visited
    BY <1>5 DEF VisitBlock, Joined
  <2>. HIDE DEF x
  <2>2. Follows(prog, x, Top)
    BY <1>1, <1>4, <1>5 DEF Follows, Enters
  <2>. QED  BY <1>1, <1>2, <2>1, <2>2, InsteadOfTop, OnceKept
<1>6. CASE Joined(prog, Top.fn, Top.b) /\ block \in visited
  <2>1. work' = Pop /\ visited' = visited
    BY <1>6 DEF VisitBlock, Joined
  <2>. QED  BY <1>1, <2>1, PopOnce
<1>7. CASE Joined(prog, Top.fn, Top.b) /\ block \notin visited
  <2>1. work' = <<x>> \o Pop /\ visited' = visited \cup {block}
    BY <1>7 DEF VisitBlock, Joined, Labelled
  <2>2. <<x.fn, x.b>> \notin E
    BY <1>2, <1>3, <1>4, <1>7 DEF AreEntered
  <2>3. /\ Enters(prog, x) /\ x.do \in {"block", "ins"} /\ Joined(prog, x.fn, x.b)
        /\ visited \subseteq visited' /\ <<x.fn, x.b>> \in visited'
        /\ IF x.fr = Toplevel THEN x.fn \in {"init", "main"} ELSE frames[x.fr].fn = x.fn
    BY <1>3, <1>4, <1>7, <2>1 DEF Enters, Placed
  <2>4. \A j \in 1..Len(Pop) :
           Pop[j].do # "block" /\ (x.fn = Pop[j].fn \/ x.fn \in Led(prog, Pop[j].fn))
    BY <1>3, <1>4 DEF Apart
  <2>. HIDE DEF x, block
  <2>5. /\ Stacked(prog, frames, E \cup {<<x.fn, x.b>>}, <<x>> \o Pop)
        /\ AreEntered(prog, visited', E \cup {<<x.fn, x.b>>})
    BY <1>2, <1>3, <1>4, <2>2, <2>3, <2>4, EnterOn DEF Items
  <2>. QED  BY <1>1, <2>1, <2>5, OnceKept
<1>. QED  BY <1>5, <1>6, <1>7

\* visitJump and visitIf, on the first branch and on the second.
LEMMA JumpOnce == ASSUME IInv, Once, VisitJump PROVE Once'
<1>1. /\ Running /\ Top.do = "ins" /\ Cur.op = "jump" /\ work' = <<Succ(1)>> \o Rest
      /\ UNCHANGED <<prog, frames, queue, visited>>
  BY DEF VisitJump, OnIns, Doing
<1>2. PICK E : Stacked(prog, frames, E, work) /\ AreEntered(prog, visited, E)
  BY DEF Once
<1>3. Succ(1) \in Items /\ Top.i = Len(prog[Top.fn][Top.b].ins) /\ 1 \in Left(prog, Top)
  <2>1. Succ(1) \in Items /\ Top.i \in 1..Len(prog[Top.fn][Top.b].ins)
    BY <1>1, AtInstruction
  <2>2. Top.i = Len(prog[Top.fn][Top.b].ins) /\ Len(prog[Top.fn][Top.b].succs) = 1
    BY <1>1, <2>1, AtTop, Zenon DEF IsBlock, Cur
  <2>. QED  BY <1>1, <2>1, <2>2 DEF Left
<1>4. work' = <<Succ(1)>> \o Pop
  <2>1. ~(Top.i < Len(prog[Top.fn][Top.b].ins))
    <3>1. Len(prog[Top.fn][Top.b].ins) \in Nat
      BY <1>1, AtInstruction
    <3>. QED  BY <1>3, <3>1
  <2>. QED  BY <1>1, <2>1 DEF Rest
<1>5. PICK D : Stacked(prog, frames, D, <<Succ(1)>> \o Pop) /\ AreEntered(prog, visited, D)
  BY <1>1, <1>2, <1>3, BelowSucc
<1>. QED  BY <1>1, <1>4, <1>5, OnceKept

LEMMA BranchOnce ==
    ASSUME IInv, Running, Once, UNCHANGED <<prog, frames, queue, visited>>,
           Top.do \in {"ins", "else"}, Cur.op \in {"if", "ifrecv", "ifsel"},
           NEW do \in IF Top.do = "ins" THEN {"else", "stop", "selelse"} ELSE {"endif"},
           NEW at, Then(do, at) \in Items,
           work' = <<Succ(IF Top.do = "ins" THEN 1 ELSE 2), Then(do, at)>> \o Pop
    PROVE  Once'
<1>. DEFINE y == Then(do, at)
            k == IF Top.do = "ins" THEN 1 ELSE 2
<1>1. PICK E : Stacked(prog, frames, E, work) /\ AreEntered(prog, visited, E)
  BY DEF Once
<1>2. Succ(k) \in Items /\ Len(prog[Top.fn][Top.b].succs) = 2
  <2>1. \A n \in 1..2 : Succ(n) \in Items
    BY AtInstruction
  <2>2. Top.i \in 1..Len(prog[Top.fn][Top.b].ins)
    BY AtInstruction
  <2>3. Len(prog[Top.fn][Top.b].succs) = 2
    BY <2>2, AtTop, Zenon DEF IsBlock, Cur
  <2>. QED  BY <2>1, <2>3
<1>3. k \in Left(prog, Top) /\ k \in 1..2
  BY <1>2 DEF Left
<1>4. Follows(prog, y, Top) /\ y.do = do
  BY AtTop DEF Follows, Then, Enters
<1>5. Enters(prog, y) => k \notin Left(prog, y)
  BY <1>4 DEF Enters, Left
<1>6. Top.do \in {"ins", "else", "stop", "selelse"} /\ y \in Items
  OBVIOUS
<1>. HIDE DEF y, k
<1>7. PICK D : Stacked(prog, frames, D, <<Succ(k), y>> \o Pop) /\ AreEntered(prog, visited, D)
  BY <1>1, <1>2, <1>3, <1>4, <1>5, <1>6, BelowSucc
<1>8. work' = <<Succ(k), y>> \o Pop
  BY DEF k, y
<1>. QED  BY <1>7, <1>8, OnceKept

LEMMA SecondOnce ==
    ASSUME IInv, Running, Once, UNCHANGED <<prog, frames, queue, visited>>,
           Top.do \in {"stop", "selelse"}, Cur.op \in {"ifrecv", "ifsel"},
           work' = <<Succ(2)>> \o Pop
    PROVE  Once'
<1>1. PICK E : Stacked(prog, frames, E, work) /\ AreEntered(prog, visited, E)
  BY DEF Once
<1>2. \A n \in 1..2 : Succ(n) \in Items
  BY AtInstruction
<1>3. Len(prog[Top.fn][Top.b].succs) = 2
  <2>1. Top.i \in 1..Len(prog[Top.fn][Top.b].ins)
    BY AtInstruction
  <2>. QED  BY <2>1, AtTop, Zenon DEF IsBlock, Cur
<1>4. 2 \in Left(prog, Top)
  BY <1>3 DEF Left
<1>5. PICK D : Stacked(prog, frames, D, <<Succ(2)>> \o Pop) /\ AreEntered(prog, visited, D)
  BY <1>1, <1>2, <1>4, BelowSucc
<1>. QED  BY <1>5, OnceKept

-----------------------------------------------------------------------------
(* Calls: what is inlined is of a function that is called once.            *)

\* The stacks of the frames up to frame k.
AreStacks(up, fs, k) ==
    up = [j \in 0..k |-> IF j = NoFrame THEN << >> ELSE <<j>> \o up[fs[j].caller]]

\* The recursive definition of the stack has a solution.
LEMMA StacksExist ==
    ASSUME NEW fs, NEW n \in Nat, \A j \in 1..n : fs[j].caller \in 0..(j-1)
    PROVE  \E up : AreStacks(up, fs, n)
<1>. DEFINE G(j, s) == <<j>> \o s
            Is(f, k) == f = [j \in 0..k |-> IF j = NoFrame THEN << >> ELSE G(j, f[fs[j].caller])]
            Bad == {k \in 0..n : ~\E f : Is(f, k)}
<1>1. ASSUME NEW f, NEW k \in Nat, k + 1 <= n, Is(f, k) PROVE \E g : Is(g, k + 1)
  <2>. DEFINE g == [j \in 0..(k+1) |-> IF j \in 0..k THEN f[j] ELSE G(j, f[fs[j].caller])]
  <2>1. \A j \in 0..k : f[j] = IF j = NoFrame THEN << >> ELSE G(j, f[fs[j].caller])
    <3>. HIDE DEF G
    <3>. QED  BY <1>1
  <2>2. ASSUME NEW j \in 0..(k+1)
        PROVE  g[j] = IF j = NoFrame THEN << >> ELSE G(j, g[fs[j].caller])
    <3>. HIDE DEF G
    <3>1. CASE j = 0
      BY <2>1, <3>1 DEF NoFrame
    <3>2. CASE j # 0
      <4>1. fs[j].caller \in 0..k /\ j # NoFrame
        <5>1. j \in 1..n
          BY <1>1, <3>2
        <5>2. fs[j].caller \in 0..(j-1)
          BY <5>1
        <5>. QED  BY <3>2, <5>2 DEF NoFrame
      <4>2. g[fs[j].caller] = f[fs[j].caller]
        BY <4>1
      <4>. QED  BY <2>1, <4>1, <4>2
    <3>. QED  BY <3>1, <3>2
  <2>3. Is(g, k + 1)
    BY <2>2
  <2>. QED  BY <2>3
<1>2. \E f : Is(f, 0)
  <2>. DEFINE f == [j \in 0..0 |-> << >>]
  <2>1. Is(f, 0)
    BY DEF NoFrame
  <2>. QED  BY <2>1
<1>. HIDE DEF Is
<1>3. Bad = {}
  <2>1. SUFFICES ASSUME Bad # {} PROVE FALSE
    OBVIOUS
  <2>2. PICK k \in Bad : \A j \in Bad : k <= j
    <3>1. Bad \subseteq Nat
      OBVIOUS
    <3>. HIDE DEF Bad
    <3>. QED  BY <2>1, <3>1, LeastElement
  <2>3. k # 0 /\ k - 1 \in Nat /\ (k - 1) + 1 <= n /\ k - 1 \in 0..n
    BY <1>2, <2>2
  <2>4. \E f : Is(f, k - 1)
    BY <2>2, <2>3
  <2>5. \E f : Is(f, (k - 1) + 1)
    BY <1>1, <2>3, <2>4
  <2>. QED  BY <2>2, <2>3, <2>5
<1>4. n \in 0..n
  OBVIOUS
<1>. QED  BY <1>3, <1>4 DEF Is, AreStacks

\* isRecursive holds of a call if the function of the frame calls itself.
LEMMA CallsItself ==
    ASSUME NEW p, NEW fs, AreFrames(p, fs), NEW k \in 1..Len(fs), NEW c \in 1..Len(fs),
           fs[k].caller = c, fs[c].fn = fs[k].fn
    PROVE  IsRecursive(fs, k)
<1>. DEFINE n == Len(fs)
            up == CHOOSE f : AreStacks(f, fs, n)
<1>1. n \in Nat /\ \A j \in 1..n : fs[j].caller \in 0..(j-1) /\ fs[j] \in FrameOf(p)
  <2>1. fs \in Seq(FrameOf(p)) /\ n \in Nat
    BY LenProperties DEF AreFrames
  <2>2. ASSUME NEW j \in 1..n PROVE fs[j] \in FrameOf(p) /\ fs[j].caller \in 0..(j-1)
    <3>1. fs[j] \in FrameOf(p) /\ fs[j].caller < j
      BY <2>1, ElementOfSeq DEF AreFrames
    <3>2. fs[j].caller \in Nat
      BY <3>1 DEF FrameOf
    <3>3. j \in Nat
      BY <2>1
    <3>. QED  BY <3>1, <3>2, <3>3
  <2>. QED  BY <2>1, <2>2
<1>2. AreStacks(up, fs, n)
  <2>. HIDE DEF n
  <2>1. \E f : AreStacks(f, fs, n)
    BY <1>1, StacksExist
  <2>. QED  BY <2>1, Zenon
<1>3. Stack(fs, k) = up[k]
  BY DEF Stack, AreStacks
<1>. HIDE DEF up, n
<1>4. \A j \in 0..n : up[j] = IF j = NoFrame THEN << >> ELSE <<j>> \o up[fs[j].caller]
  BY <1>2, Zenon DEF AreStacks
<1>5. \A j \in 0..n : up[j] \in Seq(Nat)
  <2>. DEFINE Bad == {j \in 0..n : up[j] \notin Seq(Nat)}
  <2>1. SUFFICES ASSUME Bad # {} PROVE FALSE
    OBVIOUS
  <2>2. PICK j \in Bad : \A i \in Bad : j <= i
    <3>1. Bad \subseteq Nat
      BY <1>1
    <3>. HIDE DEF Bad
    <3>. QED  BY <2>1, <3>1, LeastElement
  <2>3. CASE j = 0
    <3>1. up[j] = << >>
      BY <1>4, <2>2, <2>3 DEF NoFrame
    <3>. QED  BY <2>2, <3>1, EmptySeq
  <2>4. CASE j # 0
    <3>1. j \in 1..n /\ j \in Nat
      BY <1>1, <2>2, <2>4
    <3>2. fs[j].caller \in 0..(j-1)
      BY <1>1, <3>1
    <3>3. fs[j].caller \in 0..n /\ fs[j].caller \notin Bad
      <4>1. fs[j].caller < j /\ fs[j].caller \in 0..n
        BY <1>1, <3>1, <3>2
      <4>. QED  BY <2>2, <3>1, <4>1
    <3>4. up[fs[j].caller] \in Seq(Nat)
      BY <3>3
    <3>5. up[j] = <<j>> \o up[fs[j].caller]
      BY <1>4, <2>2, <2>4 DEF NoFrame
    <3>. DEFINE rest == up[fs[j].caller]
    <3>6. rest \in Seq(Nat) /\ up[j] = <<j>> \o rest
      BY <3>4, <3>5
    <3>. HIDE DEF rest
    <3>7. up[j] \in Seq(Nat)
      BY <3>1, <3>6, OneBefore
    <3>. QED  BY <2>2, <3>7
  <2>. QED  BY <2>3, <2>4
<1>6. k \in 0..n /\ c \in 0..n /\ k # 0 /\ c # 0 /\ k \in Nat /\ c \in Nat /\ fs[c].caller \in 0..n
  <2>1. fs[c].caller \in 0..(c-1)
    BY <1>1 DEF n
  <2>. QED  BY <1>1, <2>1 DEF n
<1>7. up[k] = <<k>> \o up[c] /\ up[c] = <<c>> \o up[fs[c].caller]
  BY <1>4, <1>6 DEF NoFrame
<1>8. Len(up[k]) >= 2 /\ Len(up[k]) \in Nat /\ up[k][1] = k /\ up[k][2] = c
  <2>. DEFINE s == up[fs[c].caller]
              r == up[c]
              q == up[k]
  <2>1. s \in Seq(Nat) /\ r = <<c>> \o s /\ r \in Seq(Nat) /\ q = <<k>> \o r
    BY <1>5, <1>6, <1>7
  <2>. HIDE DEF s, r, q
  <2>2. Len(s) \in Nat /\ Len(r) = Len(s) + 1 /\ r[1] = c
    BY <1>6, <2>1, BeforeAt
  <2>3. Len(q) = Len(r) + 1 /\ q[1] = k /\ \A j \in 1..Len(r) : q[j + 1] = r[j]
    BY <1>6, <2>1, BeforeAt
  <2>4. 1 \in 1..Len(r) /\ Len(q) >= 2 /\ Len(q) \in Nat
    BY <2>2, <2>3
  <2>5. q[1 + 1] = r[1]
    BY <2>3, <2>4
  <2>. QED  BY <2>2, <2>3, <2>4, <2>5 DEF q
<1>. DEFINE fns == [j \in 1..Len(up[k]) |-> fs[up[k][j]].fn]
            S == {fs[up[k][j]].fn : j \in 1..Len(up[k])}
<1>9. fns \in Seq(S) /\ Len(fns) = Len(up[k]) /\ fns[1] = fs[k].fn /\ fns[2] = fs[c].fn
  <2>1. fns \in [1..Len(up[k]) -> S]
    OBVIOUS
  <2>2. fns \in Seq(S)
    BY <1>8, <2>1, SeqDef
  <2>3. 1 \in 1..Len(up[k]) /\ 2 \in 1..Len(up[k])
    BY <1>8
  <2>. QED  BY <1>8, <2>1, <2>2, <2>3, LenProperties
<1>10. IsRecursive(fs, k) <=> Repeats(fns)
  BY <1>3 DEF IsRecursive
<1>. HIDE DEF fns, S
<1>11. Repeats(fns)
  <2>1. Len(fns) >= 2 /\ fns[2] = fns[1]
    BY <1>8, <1>9
  <2>. QED  BY <1>9, <2>1, OnlyDirectRecursion
<1>. QED  BY <1>10, <1>11

\* What a function calls or starts is a function, that its instructions name.
LEMMA InlinesKnown ==
    ASSUME NEW p, IsProgram(p), NEW f \in DOMAIN p
    PROVE  /\ Inlines(p, f) \subseteq DOMAIN p
           /\ \A b \in 1..Len(p[f]) : \A k \in 1..Len(p[f][b].ins) :
                 p[f][b].ins[k] \in InstrsOf(p, f)
<1>1. ASSUME NEW b \in 1..Len(p[f]), NEW k \in 1..Len(p[f][b].ins)
      PROVE  p[f][b].ins[k] \in Range(p[f][b].ins)
  <2>1. DOMAIN p[f][b].ins = 1..Len(p[f][b].ins)
    BY BlockOfProgram DEF IsBlock
  <2>. QED  BY <2>1 DEF Range
<1>2. ASSUME NEW b \in 1..Len(p[f]) PROVE Range(p[f][b].ins) \subseteq InstrsOf(p, f)
  BY DEF InstrsOf
<1>3. ASSUME NEW i \in InstrsOf(p, f) PROVE IsInstruction(p, i)
  <2>1. PICK b \in 1..Len(p[f]) : i \in Range(p[f][b].ins)
    BY DEF InstrsOf
  <2>2. PICK k \in DOMAIN p[f][b].ins : i = p[f][b].ins[k]
    BY <2>1 DEF Range
  <2>3. DOMAIN p[f][b].ins = 1..Len(p[f][b].ins)
    BY BlockOfProgram DEF IsBlock
  <2>4. k \in 1..Len(p[f][b].ins)
    BY <2>2, <2>3, Zenon
  <2>. QED  BY <2>2, <2>4, BlockOfProgram DEF IsBlock
<1>4. ASSUME NEW ops, ops \subseteq {"call", "go"} PROVE Targets(p, f, ops) \subseteq DOMAIN p
  <2>1. ASSUME NEW i \in InstrsOf(p, f), i.op \in ops PROVE i.x \in DOMAIN p
    BY <1>3, <1>4, <2>1 DEF IsInstruction
  <2>2. ASSUME NEW i \in InstrsOf(p, f), i.op = "defer", i.args[1].op = "call"
        PROVE  i.args[1].x \in DOMAIN p
    <3>1. i.args[1] \in {Call(g) : g \in DOMAIN p} \cup {Close(x) : x \in Chan}
      BY <1>3, <2>2 DEF IsInstruction, DeferrableCalls
    <3>2. \A x : Close(x).op # "call"
      BY DEF Close, Ins
    <3>3. PICK g \in DOMAIN p : i.args[1] = Call(g)
      BY <2>2, <3>1, <3>2
    <3>. QED  BY <3>3 DEF Call, Ins
  <2>. QED  BY <2>1, <2>2 DEF Targets
<1>5. Inlines(p, f) \subseteq DOMAIN p
  BY <1>4 DEF Inlines
<1>6. ASSUME NEW b \in 1..Len(p[f]), NEW k \in 1..Len(p[f][b].ins)
      PROVE  p[f][b].ins[k] \in InstrsOf(p, f)
  BY <1>1, <1>2
<1>. QED  BY <1>5, <1>6

\* A function leads to what it inlines, and to what that leads to.
LEMMA LedOn ==
    ASSUME NEW p, IsProgram(p), NEW f \in DOMAIN p
    PROVE  /\ Inlines(p, f) \subseteq Led(p, f) /\ Led(p, f) \subseteq DOMAIN p
           /\ \A g \in Led(p, f) : Inlines(p, g) \subseteq Led(p, f)
<1>. DEFINE N == DOMAIN p
            step == [g \in N |-> Inlines(p, g)]
            P == Inlines(p, f)
<1>1. IsFiniteSet(N) /\ step \in [N -> SUBSET N] /\ P \in SUBSET N
  BY InlinesKnown DEF IsProgram
<1>2. Led(p, f) = Closure(step, P)
  BY DEF Led
<1>3. \A g \in N : step[g] = Inlines(p, g)
  OBVIOUS
<1>. HIDE DEF step, P, N
<1>4. /\ Closure(step, P) \subseteq N /\ P \subseteq Closure(step, P)
      /\ \A n \in Closure(step, P) : step[n] \subseteq Closure(step, P)
  BY <1>1, ClosureClosed
<1>. QED  BY <1>2, <1>3, <1>4 DEF N, P

\* A function called by that of the top is called by none of those below, nor by
\* itself otherwise than directly.
LEMMA CalleeLed ==
    ASSUME IInv, Running, NEW E, Stacked(prog, frames, E, work), ~Endless,
           NEW f \in Targets(prog, Top.fn, {"call"}), f # Top.fn
    PROVE  /\ f \in DOMAIN prog
           /\ f \in Led(prog, Top.fn)
           /\ \A j \in 1..Len(Pop) : f \in Led(prog, Pop[j].fn) /\ f # Pop[j].fn
<1>1. IsProgram(prog) /\ Top.fn \in DOMAIN prog
  BY AtTop
<1>2. f \in Inlines(prog, Top.fn)
  BY DEF Inlines
<1>3. f \in Led(prog, Top.fn) /\ f \in DOMAIN prog
  BY <1>1, <1>2, LedOn
<1>4. ASSUME NEW j \in 1..Len(Pop)
      PROVE  f \in Led(prog, Pop[j].fn) /\ f # Pop[j].fn
  <2>1. Apart(prog, Top, Pop[j]) /\ Pop[j] \in Items
    BY PopStacked
  <2>2. Pop[j].fn \in DOMAIN prog
    BY <2>1, FieldsOfItem DEF Items
  <2>3. Top.fn = Pop[j].fn \/ Top.fn \in Led(prog, Pop[j].fn)
    BY <2>1 DEF Apart
  <2>4. f \in Led(prog, Pop[j].fn)
    BY <1>1, <1>2, <1>3, <2>2, <2>3, LedOn
  <2>. QED  BY <2>2, <2>4 DEF Endless
<1>. QED  BY <1>3, <1>4

\* The entry of a function that is on no item of the stack.
LEMMA EntryOn ==
    ASSUME NEW p, IsProgram(p), NEW fs, NEW t, NEW cs, NEW sel, NEW E, NEW vis,
           NEW s \in Seq(ItemsOf(p, fs, t, cs, sel)), Stacked(p, fs, E, s),
           AreEntered(p, vis, E), NEW f \in DOMAIN p, p[f] # << >>, NEW k,
           VisitOf(k, f, 1) \in ItemsOf(p, fs, t, cs, sel),
           IF k = Toplevel THEN f \in {"init", "main"} ELSE fs[k].fn = f,
           \A j \in 1..Len(s) : /\ s[j].do # "block" /\ s[j].fn # f
                                /\ f \in Led(p, s[j].fn)
    PROVE  \E D : /\ Stacked(p, fs, D, <<VisitOf(k, f, 1)>> \o s)
                  /\ AreEntered(p, vis, D)
<1>. DEFINE D == {e \in E : e[1] # f}
            x == VisitOf(k, f, 1)
<1>1. x.do = "block" /\ x.fn = f /\ x.b = 1 /\ x.fr = k
  BY DEF VisitOf, Item
<1>2. Preds(p, f, 1) = {} /\ ~Joined(p, f, 1)
  <2>1. Preds(p, f, 1) = {}
    BY DEF IsProgram
  <2>2. Cardinality(Preds(p, f, 1)) = 0
    BY <2>1, FS_EmptySet
  <2>. QED  BY <2>1, <2>2 DEF Joined
<1>3. AreEntered(p, vis, D)
  <2>1. ASSUME NEW g \in DOMAIN p, NEW b \in 1..Len(p[g]), <<g, b>> \in D
        PROVE  /\ Joined(p, g, b) => <<g, b>> \in vis
               /\ ~Joined(p, g, b) => \A e \in Preds(p, g, b) : <<g, e[1]>> \in D
               /\ Ending(p, g, b).op = "ifsel" =>
                     \A c \in 1..Len(p[g]) :
                        Ending(p, g, b).x \in SelectsIn(p, g, c) => <<g, c>> \in D
    <3>1. <<g, b>> \in E /\ g # f
      BY <2>1
    <3>2. \A c : <<g, c>> \in E => <<g, c>> \in D
      BY <3>1
    <3>. HIDE DEF D
    <3>. QED  BY <3>1, <3>2 DEF AreEntered
  <2>. HIDE DEF D
  <2>. QED  BY <2>1 DEF AreEntered
<1>4. Stacked(p, fs, D, s)
  <2>1. ASSUME NEW j \in 1..Len(s) PROVE Placed(p, fs, D, s[j])
    <3>. DEFINE w == s[j]
    <3>1. Placed(p, fs, E, w) /\ w.fn # f
      BY DEF Stacked
    <3>. HIDE DEF w
    <3>2. \A c : <<w.fn, c>> \in E <=> <<w.fn, c>> \in D
      BY <3>1
    <3>. HIDE DEF D
    <3>3. Placed(p, fs, D, w)
      BY <3>1, <3>2 DEF Placed
    <3>. QED  BY <3>3 DEF w
  <2>. HIDE DEF D
  <2>. QED  BY <2>1 DEF Stacked
<1>5. <<x.fn, x.b>> \notin D
  BY <1>1
<1>6. Enters(p, x)
  BY <1>1, <1>2 DEF Enters
<1>7. /\ IF x.fr = Toplevel THEN x.fn \in {"init", "main"} ELSE fs[x.fr].fn = x.fn
      /\ Joined(p, x.fn, x.b) => <<x.fn, x.b>> \in vis
      /\ ~Joined(p, x.fn, x.b) => \A e \in Preds(p, x.fn, x.b) : <<x.fn, e[1]>> \in D
      /\ x.do \in {"block", "ins"} /\ x \in ItemsOf(p, fs, t, cs, sel)
  BY <1>1, <1>2
<1>8. \A j \in 1..Len(s) :
              /\ s[j].do # "block" /\ (x.fn = s[j].fn \/ x.fn \in Led(p, s[j].fn))
              /\ Enters(p, s[j]) /\ s[j].fn = x.fn /\ ~Joined(p, x.fn, x.b) =>
                    \A i \in Left(p, s[j]) : Into(p, s[j], i) # x.b
  BY <1>1
<1>9. vis \subseteq vis
  OBVIOUS
<1>. HIDE DEF x, D
<1>10. /\ Stacked(p, fs, D \cup {<<x.fn, x.b>>}, <<x>> \o s)
       /\ AreEntered(p, vis, D \cup {<<x.fn, x.b>>})
  BY <1>3, <1>4, <1>5, <1>6, <1>7, <1>8, <1>9, EnterOn
<1>. QED  BY <1>10 DEF x

\* A frame for a call keeps what was deferred.
LEMMA DeferredKept ==
    ASSUME IInv, AreDeferred(prog, frames, queue), NEW f \in DOMAIN prog, NEW c \in 1..Len(frames),
           NEW r \in Role, frames' = Append(frames, Frame(f, c, r)),
           UNCHANGED <<prog, tree, chans, selNode>>,
           queue' \in {queue, Append(queue, Len(frames) + 1)}
    PROVE  /\ AreDeferred(prog', frames', queue')
           /\ \A k \in 1..Len(frames) : frames'[k].fn = frames[k].fn
<1>. DEFINE new == Frame(f, c, r)
<1>1. /\ frames \in Seq(FrameOf(prog)) /\ Len(frames) \in Nat /\ 1 \in 1..Len(frames)
  BY LenProperties DEF IInv, AreFrames
<1>2. new.defers = << >> /\ new \in FrameOf(prog)
  <2>1. c \in Nat /\ << >> \in Seq(DeferrableCalls(prog))
    BY <1>1, EmptySeq
  <2>. QED  BY <2>1 DEF Frame, FrameOf
<1>3. frames' = Append(frames, new)
  OBVIOUS
<1>. HIDE DEF new
<1>4. /\ Len(frames') = Len(frames) + 1 /\ frames'[Len(frames) + 1] = new
      /\ \A k \in 1..Len(frames) : frames'[k] = frames[k]
  BY <1>1, <1>2, <1>3, AppendProperties
<1>5. ASSUME NEW k \in 1..Len(frames'), NEW j \in 1..Len(frames'[k].defers),
             frames'[k].defers[j].op = "call"
      PROVE  frames'[k].defers[j].x \in
                Targets(prog, IF k = Toplevel THEN "main" ELSE frames'[k].fn, {"call"})
  <2>1. CASE k = Len(frames) + 1
    <3>1. Len(frames'[k].defers) = 0
      BY <1>2, <1>4, <2>1, EmptySeq
    <3>. QED  BY <1>5, <3>1
  <2>2. CASE k # Len(frames) + 1
    <3>1. k \in 1..Len(frames)
      BY <1>1, <1>4, <2>2
    <3>2. frames'[k] = frames[k]
      BY <1>4, <3>1
    <3>. QED  BY <1>5, <3>1, <3>2 DEF AreDeferred
  <2>. QED  BY <2>1, <2>2
<1>6. \A j \in 1..Len(queue') : queue'[j] # Toplevel
  <2>1. \A j \in 1..Len(queue) : queue[j] # Toplevel
    BY DEF AreDeferred
  <2>2. queue \in Seq(Nat)
    <3>1. Called(prog, frames) \subseteq Nat
      BY DEF Called
    <3>. QED  BY <3>1, SeqMonotonic DEF IInv
  <2>3. CASE queue' = queue
    BY <2>1, <2>3
  <2>4. CASE queue' = Append(queue, Len(frames) + 1)
    <3>. DEFINE n == Len(frames) + 1
    <3>1. n \in Nat /\ n # Toplevel
      BY <1>1 DEF Toplevel
    <3>2. queue' = Append(queue, n)
      BY <2>4
    <3>. HIDE DEF n
    <3>3. /\ Len(queue) \in Nat /\ Len(queue') = Len(queue) + 1 /\ queue'[Len(queue) + 1] = n
          /\ \A j \in 1..Len(queue) : queue'[j] = queue[j]
      BY <2>2, <3>1, <3>2, AppendProperties, LenProperties
    <3>4. ASSUME NEW j \in 1..Len(queue') PROVE queue'[j] # Toplevel
      <4>1. j \in 1..Len(queue) \/ j = Len(queue) + 1
        BY <3>3
      <4>. QED  BY <2>1, <3>1, <3>3, <4>1
    <3>. QED  BY <3>4
  <2>. QED  BY <2>3, <2>4
<1>. QED  BY <1>4, <1>5, <1>6 DEF AreDeferred

\* callCommon, for a call of the program or a deferred one.
LEMMA CallOnce ==
    ASSUME IInv, Running, Once, Inlinable, NEW i, NEW rest \in Seq(Items), CallCommon(i, rest),
           i.op = "call" => i.x \in Targets(prog, Top.fn, {"call"}),
           UNCHANGED <<prog, queue, visited, chans, selNode>>,
           \A E : Stacked(prog, frames, E, work) => Stacked(prog, frames, E, rest),
           \A j \in 1..Len(rest) :
              /\ rest[j].do # "block"
              /\ rest[j].fn = Top.fn \/ \E k \in 1..Len(Pop) : rest[j].fn = Pop[k].fn
    PROVE  Once'
<1>1. PICK E : Stacked(prog, frames, E, work) /\ AreEntered(prog, visited, E)
  BY DEF Once
<1>2. Stacked(prog, frames, E, rest)
  BY <1>1
<1>3. ASSUME UNCHANGED frames, work' \in {rest, work} PROVE Once'
  BY <1>1, <1>2, <1>3, OnceKept
<1>4. CASE i.op = "close"
  BY <1>3, <1>4 DEF CallCommon
<1>5. CASE i.op = "call"
  <2>1. /\ frames' = Append(frames, Frame(i.x, Top.fr, role)) /\ UNCHANGED <<pc, tree, leaf>>
        /\ work' = (IF IsRecursive(frames', Len(frames) + 1) THEN << >>
                    ELSE VisitFunc(Len(frames) + 1, i.x)) \o rest
    BY <1>5 DEF CallCommon
  <2>2. /\ IsProgram(prog) /\ Top.fn \in DOMAIN prog /\ Top.fr \in 1..Len(frames)
        /\ Len(frames) \in Nat /\ role \in Role /\ i.x \in Targets(prog, Top.fn, {"call"})
    BY <1>5, AtTop DEF IInv
  <2>3. i.x \in DOMAIN prog
    <3>1. i.x \in Targets(prog, Top.fn, {"call"}) \ {Top.fn} => i.x \in Inlines(prog, Top.fn)
      BY DEF Inlines
    <3>. QED  BY <2>2, <3>1, InlinesKnown
  <2>4. /\ AreDeferred(prog', frames', queue')
        /\ \A k \in 1..Len(frames) : frames'[k].fn = frames[k].fn
    BY <2>1, <2>2, <2>3, DeferredKept DEF Once
  <2>. DEFINE k == Len(frames) + 1
              f == i.x
  <2>5. /\ AreFrames(prog, frames') /\ Len(frames') = k /\ frames'[k].fn = f
        /\ \A n \in 1..Len(frames) : frames'[n] = frames[n]
        /\ Items \subseteq Items'
    BY <2>1, <2>2, <2>3, FrameAdded
  <2>6. Stacked(prog, frames', E, rest)
    BY <1>2, <2>4, StackedWith DEF Items
  <2>7. CASE prog[f] = << >> \/ IsRecursive(frames', k)
    <3>1. work' = rest
      <4>1. work' = << >> \o rest
        BY <2>1, <2>7 DEF VisitFunc
      <4>. QED  BY <4>1, ConcatEmptySeq
    <3>. QED  BY <1>1, <2>4, <2>6, <3>1 DEF Once
  <2>8. CASE prog[f] # << >> /\ ~IsRecursive(frames', k)
    <3>1. work' = <<VisitOf(k, f, 1)>> \o rest
      BY <2>1, <2>8 DEF VisitFunc
    <3>2. f # Top.fn
      <4>1. SUFFICES ASSUME f = Top.fn PROVE FALSE
        OBVIOUS
      <4>2. Placed(prog, frames, E, Top)
        BY <1>1, PopStacked
      <4>3. CASE Top.fr = Toplevel
        <5>1. Top.fn \in {"init", "main"}
          BY <4>2, <4>3 DEF Placed
        <5>2. "init" \notin Targets(prog, "init", {"call"})
          <6>1. "init" \in DOMAIN prog /\ "init" \notin Targets(prog, "init", {"call", "go"})
            BY <2>2 DEF IsProgram, InitOnce
          <6>. QED  BY <6>1 DEF Targets
        <5>3. "main" \in DOMAIN prog => "main" \notin Targets(prog, "main", {"call"})
          BY DEF Inlinable
        <5>. QED  BY <2>2, <4>1, <5>1, <5>2, <5>3
      <4>4. CASE Top.fr # Toplevel
        <5>1. frames[Top.fr].fn = f
          BY <4>1, <4>2, <4>4 DEF Placed
        <5>2. /\ k \in 1..Len(frames') /\ Top.fr \in 1..Len(frames')
              /\ frames'[Top.fr].fn = frames'[k].fn
          BY <2>2, <2>4, <2>5, <5>1
        <5>3. frames'[k].caller = Top.fr
          <6>. DEFINE new == Frame(f, Top.fr, role)
                      S == FrameOf(prog) \cup {new}
          <6>1. new.caller = Top.fr
            BY DEF Frame
          <6>2. frames \in Seq(S) /\ new \in S /\ frames' = Append(frames, new)
            <7>1. frames \in Seq(FrameOf(prog))
              BY DEF IInv, AreFrames
            <7>. QED  BY <2>1, <7>1, SeqMonotonic
          <6>. HIDE DEF new, S
          <6>3. frames'[k] = new
            BY <6>2, AppendProperties
          <6>. QED  BY <6>1, <6>3
        <5>. HIDE DEF k, f
        <5>4. IsRecursive(frames', k)
          BY <2>5, <5>2, <5>3, CallsItself
        <5>. QED  BY <2>8, <5>4
      <4>. QED  BY <4>3, <4>4
    <3>3. /\ f \in Led(prog, Top.fn)
          /\ \A j \in 1..Len(Pop) : f \in Led(prog, Pop[j].fn) /\ f # Pop[j].fn
      BY <1>1, <2>2, <3>2, CalleeLed DEF Inlinable
    <3>4. \A j \in 1..Len(rest) : /\ rest[j].do # "block" /\ rest[j].fn # f
                                  /\ f \in Led(prog, rest[j].fn)
      BY <3>2, <3>3
    <3>5. /\ k \in 1..Len(frames') /\ Len(tree') \in Nat
          /\ IF k = Toplevel THEN f \in {"init", "main"} ELSE frames'[k].fn = f
      <4>1. 1 \in 1..Len(frames) /\ Len(tree) \in Nat
        BY AtTop DEF IInv, AreFrames
      <4>. QED  BY <2>1, <2>2, <2>5, <4>1 DEF Toplevel
    <3>6. rest \in Seq(Items')
      BY <2>5, SeqMonotonic
    <3>. HIDE DEF k, f
    <3>7. VisitOf(k, f, 1) \in ItemsOf(prog, frames', tree', chans', selNode')
      BY <2>2, <2>3, <2>8, <3>5, EntryIsWork DEF f
    <3>8. rest \in Seq(ItemsOf(prog, frames', tree', chans', selNode'))
      BY <3>6 DEF Items
    <3>9. prog[f] # << >> /\ f \in DOMAIN prog
      BY <2>3, <2>8 DEF f
    <3>10. PICK D : /\ Stacked(prog, frames', D, <<VisitOf(k, f, 1)>> \o rest)
                    /\ AreEntered(prog, visited, D)
      BY <1>1, <2>2, <2>6, <3>4, <3>5, <3>7, <3>8, <3>9, EntryOn
    <3>. QED  BY <2>4, <3>1, <3>10 DEF Once
  <2>. QED  BY <2>7, <2>8
<1>. QED  BY <1>4, <1>5 DEF CallCommon

\* What is put in place of the top, at the same function.
LEMMA SameFunction ==
    ASSUME IInv, Running, NEW y \in Items, y.fn = Top.fn, y.do # "block",
           NEW E, Stacked(prog, frames, E, work),
           NEW rest \in {<<y>> \o Pop, Pop}, NEW j \in 1..Len(rest)
    PROVE  /\ rest[j].do # "block"
           /\ rest[j].fn = Top.fn \/ \E k \in 1..Len(Pop) : rest[j].fn = Pop[k].fn
<1>1. \A k \in 1..Len(Pop) : Pop[k].do # "block"
  BY PopStacked DEF Apart
<1>2. CASE rest = Pop
  BY <1>1, <1>2
<1>3. CASE rest = <<y>> \o Pop
  <2>1. /\ Len(Pop) \in Nat /\ Len(rest) = Len(Pop) + 1 /\ rest[1] = y
        /\ \A k \in 1..Len(Pop) : rest[k + 1] = Pop[k]
    BY <1>3, AtTop, BeforeAt
  <2>2. CASE j = 1
    BY <2>1, <2>2
  <2>3. CASE j # 1
    <3>1. j - 1 \in 1..Len(Pop) /\ (j - 1) + 1 = j
      BY <2>1, <2>3
    <3>2. rest[j] = Pop[j - 1]
      BY <2>1, <3>1
    <3>. QED  BY <1>1, <3>1, <3>2
  <2>. QED  BY <2>2, <2>3
<1>. QED  BY <1>2, <1>3

LEMMA CallInsOnce == ASSUME IInv, Once, Inlinable, VisitCall PROVE Once'
<1>1. /\ Running /\ Top.do = "ins" /\ Cur.op \in {"call", "close"} /\ CallCommon(Cur, Rest)
      /\ UNCHANGED <<prog, role, root, visited, queue, chans, types, ifparent, selNode, recvTest>>
  BY DEF VisitCall, OnIns, Doing
<1>2. /\ Top \in Items /\ Top.fn \in DOMAIN prog /\ Top.b \in 1..Len(prog[Top.fn])
      /\ Top.i \in 1..Len(prog[Top.fn][Top.b].ins) /\ IsProgram(prog)
  BY <1>1, AtTop, AtInstruction
<1>3. Cur.op = "call" => Cur.x \in Targets(prog, Top.fn, {"call"})
  <2>1. Cur \in InstrsOf(prog, Top.fn)
    BY <1>2, InlinesKnown DEF Cur
  <2>. QED  BY <2>1 DEF Targets
<1>4. Rest \in Seq(Items)
  BY <1>1, RestOfWork DEF Items
<1>5. \A E : Stacked(prog, frames, E, work) => Stacked(prog, frames, E, Rest)
  BY <1>1, RestStacked
<1>6. PICK E : Stacked(prog, frames, E, work)
  BY DEF Once
<1>7. ASSUME NEW j \in 1..Len(Rest)
      PROVE  /\ Rest[j].do # "block"
             /\ Rest[j].fn = Top.fn \/ \E k \in 1..Len(Pop) : Rest[j].fn = Pop[k].fn
  <2>. DEFINE y == [Top EXCEPT !.i = @ + 1]
  <2>1. CASE Rest = Pop
    BY <1>1, <1>2, <1>6, <1>7, <2>1, SameFunction
  <2>2. CASE Rest = <<y>> \o Pop /\ Top.i < Len(prog[Top.fn][Top.b].ins)
    <3>1. y \in Items
      <4>1. Len(prog[Top.fn][Top.b].ins) \in Nat /\ Cur.op # "select"
        BY <1>1, AtInstruction
      <4>. QED  BY <1>1, <1>2, <2>2, <4>1, NextIsWork DEF Items, Cur
    <3>2. y.fn = Top.fn /\ y.do # "block"
      BY <1>1, AtTop
    <3>. HIDE DEF y
    <3>. QED  BY <1>1, <1>6, <1>7, <2>2, <3>1, <3>2, SameFunction
  <2>. QED  BY <2>1, <2>2 DEF Rest
<1>. QED  BY <1>1, <1>3, <1>4, <1>5, <1>7, CallOnce

\* visitRunDefers and its loop.
LEMMA RunDefersOnce == ASSUME IInv, Once, VisitRunDefers PROVE Once'
<1>. DEFINE y == [Top EXCEPT !.do = "defers", !.i = Len(frames[Top.fr].defers)]
<1>1. /\ Running /\ Top.do = "ins" /\ Cur.op = "rundefers" /\ work' = <<y>> \o Rest
      /\ UNCHANGED <<prog, frames, visited, queue>>
  BY DEF VisitRunDefers, OnIns, Doing
<1>2. /\ Top \in Items /\ Top.fn \in DOMAIN prog /\ Top.b \in 1..Len(prog[Top.fn])
      /\ Top.i \in 1..Len(prog[Top.fn][Top.b].ins) /\ IsProgram(prog)
  BY <1>1, AtTop, AtInstruction
<1>3. PICK E : Stacked(prog, frames, E, work) /\ AreEntered(prog, visited, E)
  BY DEF Once
<1>4. Stacked(prog, frames, E, Rest) /\ Rest \in Seq(Items)
  BY <1>1, <1>3, RestStacked, RestOfWork DEF Items
<1>5. Top.fn # "init"
  <2>1. Cur \in InstrsOf(prog, Top.fn)
    BY <1>2, InlinesKnown DEF Cur
  <2>2. \A i \in InstrsOf(prog, "init") : i.op # "rundefers"
    BY <1>2 DEF IsProgram, InitOnce
  <2>. QED  BY <1>1, <2>1, <2>2
<1>6. y.do = "defers" /\ y.fn = Top.fn /\ y.b = Top.b /\ y.fr = Top.fr
  BY <1>1, AtTop
<1>. HIDE DEF y
<1>7. Placed(prog, frames, E, Top)
  BY <1>1, <1>3, PopStacked
<1>8. ~Enters(prog, y) /\ Placed(prog, frames, E, y)
  BY <1>5, <1>6, <1>7 DEF Placed, Enters
<1>9. ASSUME NEW j \in 1..Len(Rest) PROVE Apart(prog, y, Rest[j])
  <2>1. Rest[j].do # "block" /\ (y.fn = Rest[j].fn \/ y.fn \in Led(prog, Rest[j].fn))
    <3>. DEFINE z == [Top EXCEPT !.i = @ + 1]
    <3>1. \A k \in 1..Len(Pop) : Apart(prog, Top, Pop[k])
      BY <1>1, <1>3, PopStacked
    <3>2. CASE Rest = Pop
      BY <1>6, <1>9, <3>1, <3>2 DEF Apart
    <3>3. CASE Rest = <<z>> \o Pop
      <4>1. z.do = "ins" /\ z.fn = Top.fn /\ Pop \in Seq(Items)
        BY <1>1, AtTop
      <4>. HIDE DEF z
      <4>2. Pop \in Seq(Items \cup {z}) /\ z \in Items \cup {z}
        BY <4>1, SeqMonotonic
      <4>3. /\ Len(Pop) \in Nat /\ Len(Rest) = Len(Pop) + 1 /\ Rest[1] = z
            /\ \A k \in 1..Len(Pop) : Rest[k + 1] = Pop[k]
        BY <3>3, <4>2, BeforeAt
      <4>4. CASE j = 1
        BY <1>6, <4>1, <4>3, <4>4
      <4>5. CASE j # 1
        <5>1. j - 1 \in 1..Len(Pop) /\ (j - 1) + 1 = j
          BY <4>3, <4>5
        <5>2. Rest[j] = Pop[j - 1]
          BY <4>3, <5>1
        <5>. QED  BY <1>6, <3>1, <5>1, <5>2 DEF Apart
      <4>. QED  BY <4>4, <4>5
    <3>. QED  BY <3>2, <3>3 DEF Rest
  <2>. QED  BY <1>8, <2>1 DEF Apart
<1>10. Stacked(prog, frames, E, <<y>> \o Rest)
  <2>1. Rest \in Seq(Items \cup {y}) /\ y \in Items \cup {y}
    BY <1>4, SeqMonotonic
  <2>. QED  BY <1>4, <1>8, <1>9, <2>1, StackedOn
<1>. QED  BY <1>1, <1>3, <1>10, OnceKept

LEMMA RunDeferOnce == ASSUME IInv, Once, Inlinable, RunDefer PROVE Once'
<1>1. /\ Running /\ Top.do = "defers"
      /\ UNCHANGED <<prog, role, root, visited, queue, chans, types, ifparent, selNode, recvTest>>
  BY DEF RunDefer, Doing
<1>2. CASE Top.i = 0
  <2>1. work' = Pop /\ UNCHANGED frames
    BY <1>2 DEF RunDefer
  <2>. QED  BY <1>1, <2>1, PopOnce
<1>3. CASE Top.i # 0
  <2>. DEFINE y == [Top EXCEPT !.i = @ - 1]
              call == DeferAt(Top.fr, Top.i)
  <2>1. CallCommon(call, <<y>> \o Pop)
    BY <1>3 DEF RunDefer
  <2>2. /\ Top \in ItemsOf(prog, frames, tree, chans, selNode) /\ Top.fr \in 1..Len(frames)
        /\ Top.i \in Nat /\ Top.i <= Len(frames[Top.fr].defers)
        /\ Top \in [do : WorkKind, fr : 1..Len(frames), fn : DOMAIN prog, b : Nat, i : Nat,
                    at : 0..Len(tree)]
    <3>1. Top \in ItemsOf(prog, frames, tree, chans, selNode)
      BY <1>1, AtTop DEF Items
    <3>2. Top.i <= Len(frames[Top.fr].defers)
      BY <1>1, <3>1 DEF ItemsOf
    <3>. QED  BY <1>1, <3>1, <3>2, AtTop
  <2>3. Len(frames[Top.fr].defers) \in Nat
    <3>1. frames[Top.fr] \in FrameOf(prog)
      BY <2>2, ElementOfSeq DEF IInv, AreFrames
    <3>. QED  BY <3>1, LenProperties DEF FrameOf
  <2>4. PICK E : Stacked(prog, frames, E, work)
    BY DEF Once
  <2>5. Placed(prog, frames, E, Top)
    BY <1>1, <2>4, PopStacked
  <2>6. call.op = "call" => call.x \in Targets(prog, Top.fn, {"call"})
    <3>1. Top.i \in 1..Len(frames[Top.fr].defers)
      BY <1>3, <2>2, <2>3
    <3>2. call.op = "call" => call.x \in
             Targets(prog, IF Top.fr = Toplevel THEN "main" ELSE frames[Top.fr].fn, {"call"})
      BY <2>2, <3>1 DEF Once, AreDeferred, DeferAt
    <3>3. Top.fn = IF Top.fr = Toplevel THEN "main" ELSE frames[Top.fr].fn
      BY <1>1, <2>5 DEF Placed
    <3>. HIDE DEF call
    <3>. QED  BY <3>2, <3>3
  <2>7. y \in Items
    <3>. DEFINE n == Top.i - 1
    <3>1. n \in Nat /\ n <= Len(frames[Top.fr].defers)
      BY <1>3, <2>2, <2>3
    <3>2. y = [Top EXCEPT !.do = "defers", !.i = n]
      BY <1>1, <2>2
    <3>. HIDE DEF n
    <3>3. [Top EXCEPT !.do = "defers", !.i = n] \in Items
      BY <2>2, <3>1, DefersAreWork DEF Items
    <3>. QED  BY <3>2, <3>3
  <2>8. y.fn = Top.fn /\ y.do = "defers" /\ Follows(prog, y, Top)
    BY <1>1, <2>2, <2>5 DEF Follows, Placed
  <2>. HIDE DEF y, call
  <2>. DEFINE rest == <<y>> \o Pop
  <2>9. rest \in Seq(Items)
    BY <1>1, <2>7, AtTop, OneBefore
  <2>10. \A D : Stacked(prog, frames, D, work) => Stacked(prog, frames, D, rest)
    BY <1>1, <2>8, InsteadOfTop
  <2>11. \A j \in 1..Len(rest) :
            /\ rest[j].do # "block"
            /\ rest[j].fn = Top.fn \/ \E k \in 1..Len(Pop) : rest[j].fn = Pop[k].fn
    BY <1>1, <2>4, <2>7, <2>8, SameFunction
  <2>. HIDE DEF rest
  <2>12. CallCommon(call, rest)
    BY <2>1 DEF rest
  <2>. QED  BY <1>1, <2>6, <2>9, <2>10, <2>11, <2>12, CallOnce
<1>. QED  BY <1>2, <1>3

\* With other frames of the same functions.
LEMMA OnceWith ==
    ASSUME IInv, NEW E, NEW s \in Seq(Items), Stacked(prog, frames, E, s),
           AreEntered(prog, visited, E), AreDeferred(prog', frames', queue'),
           \A k \in 1..Len(frames) : frames'[k].fn = frames[k].fn,
           UNCHANGED <<prog, visited>>, work' = s
    PROVE  Once'
<1>1. Stacked(prog, frames', E, s)
  BY StackedWith DEF Items
<1>. QED  BY <1>1 DEF Once

LEMMA GoOnce == ASSUME IInv, Once, CallGo PROVE Once'
<1>1. /\ Running /\ Top.do = "ins" /\ Cur.op = "go"
      /\ frames' = Append(frames, Frame(Cur.x, Top.fr, <<Cur.x, Cur.n>>))
      /\ queue' = Append(queue, Len(frames) + 1) /\ work' = Rest
      /\ UNCHANGED <<prog, visited, tree, chans, selNode>>
  BY DEF CallGo, OnIns, Doing, Queued
<1>2. Cur.x \in DOMAIN prog /\ <<Cur.x, Cur.n>> \in Role /\ Top.fr \in 1..Len(frames)
  <2>1. IsInstruction(prog, Cur)
    BY <1>1, AtInstruction
  <2>. QED  BY <1>1, <2>1, AtTop DEF IsInstruction
<1>3. /\ AreDeferred(prog', frames', queue')
      /\ \A k \in 1..Len(frames) : frames'[k].fn = frames[k].fn
  <2>1. AreDeferred(prog, frames, queue)
    BY DEF Once
  <2>. DEFINE r == <<Cur.x, Cur.n>>
  <2>2. /\ r \in Role /\ frames' = Append(frames, Frame(Cur.x, Top.fr, r))
        /\ queue' \in {queue, Append(queue, Len(frames) + 1)}
    BY <1>1, <1>2
  <2>. HIDE DEF r
  <2>. QED  BY <1>1, <1>2, <2>1, <2>2, DeferredKept
<1>4. PICK E : Stacked(prog, frames, E, work) /\ AreEntered(prog, visited, E)
  BY DEF Once
<1>5. Rest \in Seq(Items) /\ Stacked(prog, frames, E, Rest)
  BY <1>1, <1>4, RestOfWork, RestStacked DEF Items
<1>. QED  BY <1>1, <1>3, <1>4, <1>5, OnceWith

LEMMA DeferOnce == ASSUME IInv, Once, VisitDefer PROVE Once'
<1>. DEFINE fr == Top.fr
            call == Cur.args[1]
            more == Append(frames[fr].defers, call)
            new == [frames[fr] EXCEPT !.defers = more]
<1>1. /\ Running /\ Top.do = "ins" /\ Cur.op = "defer"
      /\ frames' = [frames EXCEPT ![Top.fr].defers = Append(@, Cur.args[1])] /\ work' = Rest
      /\ UNCHANGED <<prog, queue, visited>>
  BY DEF VisitDefer, OnIns, Doing
<1>2. PICK E : Stacked(prog, frames, E, work) /\ AreEntered(prog, visited, E)
  BY DEF Once
<1>3. /\ call \in DeferrableCalls(prog) /\ fr \in 1..Len(frames)
      /\ Cur \in InstrsOf(prog, Top.fn) /\ IsProgram(prog) /\ Top.fn \in DOMAIN prog
  <2>1. IsInstruction(prog, Cur)
    BY <1>1, AtInstruction
  <2>2. Cur \in InstrsOf(prog, Top.fn)
    BY <1>1, AtTop, AtInstruction, InlinesKnown DEF Cur
  <2>. QED  BY <1>1, <2>1, <2>2, AtTop DEF IsInstruction
<1>4. frames \in Seq(FrameOf(prog)) /\ Len(frames) \in Nat
  BY LenProperties DEF IInv, AreFrames
<1>5. frames' = [frames EXCEPT ![fr] = new]
  BY <1>1
<1>6. call.op = "call" => call.x \in
         Targets(prog, IF fr = Toplevel THEN "main" ELSE frames[fr].fn, {"call"})
  <2>1. call.op = "call" => call.x \in Targets(prog, Top.fn, {"call"})
    BY <1>1, <1>3 DEF Targets
  <2>2. Placed(prog, frames, E, Top)
    BY <1>1, <1>2, PopStacked
  <2>3. Top.fn # "init"
    <3>1. \A i \in InstrsOf(prog, "init") : i.op # "defer"
      BY <1>3 DEF IsProgram, InitOnce
    <3>. QED  BY <1>1, <1>3, <3>1
  <2>. HIDE DEF call
  <2>. QED  BY <2>1, <2>2, <2>3 DEF Placed
<1>7. AreDeferred(prog, frames, queue)
  BY DEF Once
<1>. HIDE DEF call, fr
<1>8. frames[fr] \in FrameOf(prog) /\ frames[fr].defers \in Seq(DeferrableCalls(prog))
  <2>1. frames[fr] \in FrameOf(prog)
    BY <1>3, <1>4, ElementOfSeq
  <2>. QED  BY <2>1 DEF FrameOf
<1>9. /\ more \in Seq(DeferrableCalls(prog)) /\ Len(frames[fr].defers) \in Nat
      /\ Len(more) = Len(frames[fr].defers) + 1 /\ more[Len(frames[fr].defers) + 1] = call
      /\ \A j \in 1..Len(frames[fr].defers) : more[j] = frames[fr].defers[j]
  BY <1>3, <1>8, AppendProperties, LenProperties
<1>. HIDE DEF more
<1>10. new \in FrameOf(prog) /\ new.defers = more /\ new.fn = frames[fr].fn
  BY <1>8, <1>9 DEF FrameOf
<1>. HIDE DEF new
<1>11. /\ Len(frames') = Len(frames)
       /\ \A k \in 1..Len(frames) : frames'[k] = IF k = fr THEN new ELSE frames[k]
  BY <1>3, <1>4, <1>5, <1>10, ExceptSeq
<1>12. \A k \in 1..Len(frames) : frames'[k].fn = frames[k].fn
  BY <1>10, <1>11
<1>13. ASSUME NEW k \in 1..Len(frames'), NEW j \in 1..Len(frames'[k].defers),
              frames'[k].defers[j].op = "call"
       PROVE  frames'[k].defers[j].x \in
                 Targets(prog, IF k = Toplevel THEN "main" ELSE frames'[k].fn, {"call"})
  <2>1. k \in 1..Len(frames) /\ frames'[k].fn = frames[k].fn
    BY <1>11, <1>12
  <2>2. CASE k # fr
    <3>1. frames'[k] = frames[k]
      BY <1>11, <2>1, <2>2
    <3>. QED  BY <1>7, <1>13, <2>1, <3>1 DEF AreDeferred
  <2>3. CASE k = fr
    <3>1. frames'[k].defers = more
      BY <1>10, <1>11, <2>1, <2>3
    <3>2. CASE j = Len(frames[fr].defers) + 1
      BY <1>6, <1>9, <1>13, <2>1, <2>3, <3>1, <3>2
    <3>3. CASE j # Len(frames[fr].defers) + 1
      <4>1. j \in 1..Len(frames[fr].defers)
        BY <1>9, <1>13, <3>1, <3>3
      <4>2. frames'[k].defers[j] = frames[k].defers[j]
        BY <1>9, <2>3, <3>1, <4>1
      <4>. QED  BY <1>7, <1>13, <2>1, <2>3, <4>1, <4>2 DEF AreDeferred
    <3>. QED  BY <3>2, <3>3
  <2>. QED  BY <2>2, <2>3
<1>14. AreDeferred(prog', frames', queue')
  BY <1>1, <1>7, <1>13 DEF AreDeferred
<1>15. Rest \in Seq(Items) /\ Stacked(prog, frames, E, Rest)
  BY <1>1, <1>2, RestOfWork, RestStacked DEF Items
<1>. QED  BY <1>1, <1>2, <1>12, <1>14, <1>15, OnceWith

\* A function is visited on its own.
LEMMA FunctionOnce ==
    ASSUME IInv, NEW fr \in 1..Len(frames), NEW f \in DOMAIN prog,
           IF fr = Toplevel THEN f \in {"init", "main"} ELSE frames[fr].fn = f,
           work' = VisitFunc(fr, f), UNCHANGED <<prog, frames>>,
           AreDeferred(prog', frames', queue')
    PROVE  Once'
<1>. DEFINE s == << >>
            E == {}
<1>1. s \in Seq(Items) /\ Len(s) = 0
  BY EmptySeq
<1>2. Stacked(prog, frames, E, s) /\ AreEntered(prog, visited', E)
  BY <1>1 DEF Stacked, AreEntered
<1>3. CASE prog[f] = << >>
  <2>1. work' = s
    BY <1>3 DEF VisitFunc
  <2>. QED  BY <1>2, <2>1 DEF Once
<1>4. CASE prog[f] # << >>
  <2>. DEFINE x == VisitOf(fr, f, 1)
  <2>1. IsProgram(prog) /\ Len(tree) \in Nat
    BY LenProperties DEF IInv, IsTree
  <2>2. x \in ItemsOf(prog, frames, tree, chans, selNode)
    BY <1>4, <2>1, EntryIsWork
  <2>3. s \in Seq(ItemsOf(prog, frames, tree, chans, selNode))
    BY <1>1 DEF Items
  <2>4. work' = <<x>> \o s
    <3>1. work' = <<x>>
      BY <1>4 DEF VisitFunc
    <3>2. <<x>> \in Seq({x})
      OBVIOUS
    <3>. HIDE DEF x
    <3>. QED  BY <3>1, <3>2, ConcatEmptySeq
  <2>5. \A j \in 1..Len(s) : /\ s[j].do # "block" /\ s[j].fn # f
                             /\ f \in Led(prog, s[j].fn)
    BY <1>1
  <2>. HIDE DEF s, E
  <2>6. PICK D : Stacked(prog, frames, D, <<x>> \o s) /\ AreEntered(prog, visited', D)
    BY <1>2, <1>4, <2>1, <2>2, <2>3, <2>5, EntryOn
  <2>. QED  BY <2>4, <2>6 DEF Once
<1>. QED  BY <1>3, <1>4

\* Run goes from function to function, and ends.
LEMMA RunOnce ==
    ASSUME IInv, Once, RunInit \/ RunMain \/ NextGortn \/ EndRun
    PROVE  Once'
<1>1. AreDeferred(prog, frames, queue) /\ frames \in Seq(FrameOf(prog)) /\ 1 \in 1..Len(frames)
  BY DEF Once, IInv, AreFrames
<1>2. CASE RunInit
  <2>1. work' = VisitFunc(1, "init") /\ UNCHANGED <<prog, frames, queue>> /\ "init" \in DOMAIN prog
    BY <1>2 DEF RunInit, Toplevel, IInv, IsProgram
  <2>2. AreDeferred(prog', frames', queue')
    BY <1>1, <2>1
  <2>. QED  BY <1>1, <2>1, <2>2, FunctionOnce DEF Toplevel
<1>3. CASE RunMain
  <2>1. UNCHANGED <<prog, frames, queue, visited>>
    BY <1>3 DEF RunMain
  <2>2. AreDeferred(prog', frames', queue')
    BY <1>1, <2>1
  <2>3. CASE "main" \in DOMAIN prog
    <3>1. work' = VisitFunc(1, "main")
      BY <1>3, <2>3 DEF RunMain, Toplevel
    <3>. QED  BY <1>1, <2>1, <2>2, <2>3, <3>1, FunctionOnce DEF Toplevel
  <2>4. CASE "main" \notin DOMAIN prog
    <3>1. work' = work
      BY <1>3, <2>4 DEF RunMain
    <3>. QED  BY <2>1, <3>1 DEF Once
  <2>. QED  BY <2>3, <2>4
<1>4. CASE NextGortn
  <2>. DEFINE q == Head(queue)
              f == frames[q].fn
  <2>1. /\ queue # << >> /\ work' = VisitFunc(q, f) /\ queue' = Tail(queue)
        /\ UNCHANGED <<prog, frames>>
    BY <1>4 DEF NextGortn
  <2>2. /\ q = queue[1] /\ q \in Called(prog, frames) /\ 1 \in 1..Len(queue)
        /\ Len(Tail(queue)) = Len(queue) - 1 /\ Len(queue) \in Nat
        /\ \A j \in 1..Len(Tail(queue)) : Tail(queue)[j] = queue[j + 1]
    <3>1. queue \in Seq(Called(prog, frames))
      BY DEF IInv
    <3>2. Len(queue) \in Nat /\ Len(queue) # 0
      BY <2>1, <3>1, EmptySeq
    <3>3. 1 \in 1..Len(queue)
      BY <3>2
    <3>4. q = queue[1] /\ q \in Called(prog, frames)
      BY <3>1, <3>3, ElementOfSeq
    <3>. QED  BY <2>1, <3>1, <3>2, <3>3, <3>4, HeadTailProperties
  <2>3. \A j \in 1..Len(queue') : queue'[j] # Toplevel
    <3>1. \A j \in 1..Len(Tail(queue)) : j + 1 \in 1..Len(queue)
      BY <2>2
    <3>2. \A j \in 1..Len(queue) : queue[j] # Toplevel
      BY <1>1 DEF AreDeferred
    <3>. QED  BY <2>1, <2>2, <3>1, <3>2
  <2>4. AreDeferred(prog', frames', queue')
    BY <1>1, <2>1, <2>3 DEF AreDeferred
  <2>5. q \in 1..Len(frames) /\ f \in DOMAIN prog /\ q # Toplevel
    BY <1>1, <2>2 DEF Called, AreDeferred
  <2>6. IF q = Toplevel THEN f \in {"init", "main"} ELSE frames[q].fn = f
    BY <2>5
  <2>. HIDE DEF q, f
  <2>. QED  BY <2>1, <2>4, <2>5, <2>6, FunctionOnce
<1>5. CASE EndRun
  BY <1>5 DEF EndRun, Once
<1>. QED  BY <1>2, <1>3, <1>4, <1>5

LEMMA StillOnce ==
    ASSUME Once, Overflow \/ Terminated \/ UNCHANGED vars
    PROVE  Once'
<1>1. UNCHANGED <<prog, frames, queue, work, visited>>
  BY DEF Overflow, Terminated, vars
<1>. QED  BY <1>1 DEF Once

LEMMA StartOnce == ASSUME Init PROVE Once
<1>1. /\ work = << >> /\ queue = << >> /\ frames = <<Frame("", NoFrame, Main)>>
  BY DEF Init
<1>2. Stacked(prog, frames, {}, work) /\ AreEntered(prog, visited, {})
  <2>1. Len(work) = 0
    BY <1>1
  <2>. QED  BY <2>1 DEF Stacked, AreEntered
<1>3. AreDeferred(prog, frames, queue)
  <2>1. Len(frames) = 1 /\ frames[1].defers = << >> /\ Len(queue) = 0
    BY <1>1 DEF Frame
  <2>. QED  BY <2>1 DEF AreDeferred
<1>. QED  BY <1>2, <1>3 DEF Once

\* The other instructions: what follows is the rest, or the branches.
LEMMA MoveOnce ==
    ASSUME IInv, Once,
           \/ VisitComm \/ VisitRecvOk \/ VisitSelect \/ VisitReturn \/ EndIf
    PROVE  Once'
<1>1. CASE VisitComm
  <2>1. Running /\ Top.do = "ins" /\ work' = Rest /\ UNCHANGED <<prog, frames, queue, visited>>
    BY <1>1 DEF VisitComm, OnIns, Doing
  <2>. QED  BY <2>1, RestOnce
<1>2. CASE VisitRecvOk
  <2>1. Running /\ Top.do = "ins" /\ work' = Rest /\ UNCHANGED <<prog, frames, queue, visited>>
    BY <1>2 DEF VisitRecvOk, OnIns, Doing
  <2>. QED  BY <2>1, RestOnce
<1>3. CASE VisitSelect
  <2>1. /\ Running /\ Top.do = "ins" /\ work' \in {Rest, work}
        /\ UNCHANGED <<prog, frames, queue, visited>>
    BY <1>3 DEF VisitSelect, OnIns, Doing
  <2>. QED  BY <2>1, RestOnce
<1>4. CASE VisitReturn
  <2>1. Running /\ Top.do = "ins" /\ work' = Rest /\ UNCHANGED <<prog, frames, queue, visited>>
    BY <1>4 DEF VisitReturn, OnIns, Doing
  <2>. QED  BY <2>1, RestOnce
<1>5. CASE EndIf
  <2>1. Running /\ work' = Pop /\ UNCHANGED <<prog, frames, queue, visited>>
    BY <1>5 DEF EndIf, Doing
  <2>. QED  BY <2>1, PopOnce
<1>. QED  BY <1>1, <1>2, <1>3, <1>4, <1>5

\* What an item that waits for a second branch is at.
LEMMA CurOfBranch ==
    ASSUME IInv, Running
    PROVE  /\ Top.do \in {"else", "endif"} => Cur.op \in {"if", "ifrecv"}
           /\ Top.do = "stop" => Cur.op = "ifrecv" /\ Top.at \in 1..Len(tree)
           /\ Top.do = "selelse" => Cur.op = "ifsel"
<1>1. Top \in Items /\ Top.at \in 0..Len(tree) /\ Len(tree) \in Nat
  BY AtTop
<1>2. /\ Top.do \in {"else", "endif"} => Cur.op \in {"if", "ifrecv"}
      /\ Top.do = "stop" => Cur.op = "ifrecv" /\ Top.at # 0
      /\ Top.do = "selelse" => Cur.op = "ifsel"
  BY <1>1 DEF Items, ItemsOf, Cur
<1>. QED  BY <1>1, <1>2

LEMMA IfOnce ==
    ASSUME IInv, Once, VisitIf \/ VisitElse \/ VisitIfRecv \/ VisitIfSel
    PROVE  Once'
<1>1. Running /\ UNCHANGED <<prog, frames, queue, visited>>
  BY DEF VisitIf, VisitElse, VisitIfRecv, VisitIfSel, OnIns, Doing
<1>2. Len(tree) \in Nat /\ 0 \in 0..Len(tree) /\ leaf \in 1..Len(tree)
  BY <1>1, AtTop, ArgsOf
<1>3. CASE VisitIf
  <2>1. /\ Top.do = "ins" /\ Cur.op \in {"if", "ifrecv"}
        /\ work' = <<Succ(1), Then("else", 0)>> \o Pop
    BY <1>3 DEF VisitIf, OnIns, Doing
  <2>2. Then("else", 0) \in Items
    BY <1>1, <1>2, <2>1, ThenIsWork
  <2>. QED  BY <1>1, <2>1, <2>2, BranchOnce
<1>4. CASE VisitElse
  <2>1. /\ Top.do = "else" /\ work' = <<Succ(2), Then("endif", 0)>> \o Pop
    BY <1>4 DEF VisitElse, Doing
  <2>2. Cur.op \in {"if", "ifrecv"}
    BY <1>1, <2>1, CurOfBranch
  <2>3. Then("endif", 0) \in Items
    BY <1>1, <1>2, <2>1, <2>2, ThenIsWork
  <2>. QED  BY <1>1, <2>1, <2>2, <2>3, BranchOnce
<1>5. CASE VisitIfRecv
  <2>1. /\ Top.do = "ins" /\ Cur.op = "ifrecv" /\ Cur.x \in recvTest
        /\ work' = <<Succ(1), Then("stop", leaf)>> \o Pop
    BY <1>5 DEF VisitIfRecv, OnIns, Doing
  <2>2. Cur.x \in chans /\ leaf \in 0..Len(tree) /\ leaf # 0
    BY <1>2, <2>1, ArgsOf
  <2>3. Then("stop", leaf) \in Items
    BY <1>1, <1>2, <2>1, <2>2, ThenIsWork
  <2>. QED  BY <1>1, <2>1, <2>3, BranchOnce
<1>6. CASE VisitIfSel
  <2>1. /\ Top.do = "ins" /\ Cur.op = "ifsel"
        /\ work' = <<Succ(1), Then("selelse", 0)>> \o Pop
    BY <1>6 DEF VisitIfSel, OnIns, Doing
  <2>2. Then("selelse", 0) \in Items
    BY <1>1, <1>2, <2>1, ThenIsWork
  <2>. QED  BY <1>1, <2>1, <2>2, BranchOnce
<1>. QED  BY <1>3, <1>4, <1>5, <1>6

LEMMA OtherOnce == ASSUME IInv, Once, VisitStop \/ VisitSelElse PROVE Once'
<1>1. /\ Running /\ UNCHANGED <<prog, frames, queue, visited>>
      /\ Top.do \in {"stop", "selelse"} /\ work' = <<Succ(2)>> \o Pop
  BY DEF VisitStop, VisitSelElse, Doing
<1>. QED  BY <1>1, CurOfBranch, SecondOnce

\* No step enters a block a second time, in a program that can be inlined.
LEMMA OnceStep == ASSUME IInv, Once, Inlinable, [Next]_vars PROVE Once'
<1>1. CASE Next
  BY <1>1, RunOnce, BlockOnce, MoveOnce, JumpOnce, IfOnce, OtherOnce, CallInsOnce, GoOnce,
     DeferOnce, RunDefersOnce, RunDeferOnce, StillOnce DEF Next
<1>. QED  BY <1>1, StillOnce

-----------------------------------------------------------------------------
(* The nodes of the cases are where the tests of a select left them.  What *)
(* waits for a node: a test of ok for that of its receive, and a test of a *)
(* case, where it is visited or waits for its second branch, for those of  *)
(* the cases after it.                                                     *)

Armed(p, w) ==
    /\ Test(p, w).op = "ifsel"
    /\ \/ w.do = "ins" /\ w.i = Len(p[w.fn][w.b].ins)
       \/ w.do = "block" /\ Test(p, w).n # 0
Waits(p, w) == w.do \in {"stop", "selelse"} \/ Armed(p, w)

\* The node whose children it waits for, and those of the cases to come.
From(p, sel, w) == IF w.do = "stop" THEN w.at ELSE sel[Test(p, w).x].parent
Later(p, t, sel, w) ==
    {t[From(p, sel, w)].kids[k] :
        k \in {j \in 1..CountOf(t, From(p, sel, w)) :
                 j > Test(p, w).n + (IF w.do = "selelse" THEN 1 ELSE 0)}}

\* No node has two parents, or is a child twice.
ChildOnce(t) ==
    \A m, n \in 1..Len(t) : \A j \in 1..CountOf(t, m), k \in 1..CountOf(t, n) :
       t[m].kids[j] = t[n].kids[k] => m = n /\ j = k

Clear(p, t, sel, lf, ip, w) ==
    Waits(p, w) =>
       /\ From(p, sel, w) \in 1..Len(t)
       /\ t[From(p, sel, w)].kids # << >> /\ From(p, sel, w) \notin Range(ip)
       /\ w.do # "stop" => \A k \in Later(p, t, sel, w) : t[k].kids = << >>
       /\ w.do = "selelse" => lf \notin Later(p, t, sel, w)
Distinct(p, sel, v, w) ==
    /\ ~Armed(p, w)
    /\ Waits(p, v) /\ Waits(p, w) => From(p, sel, v) # From(p, sel, w)
Cleared(p, t, sel, lf, ip, s) ==
    \A j \in 1..Len(s) : /\ Clear(p, t, sel, lf, ip, s[j])
                         /\ \A i \in 1..(j-1) : Distinct(p, sel, s[i], s[j])

\* The nodes of a tree, with a leaf and the parents of the open ifs.
Sound(t, lf, ip) ==
    /\ t[lf].kids = << >> /\ ChildOnce(t)
    /\ \A m \in Range(ip) : t[m].kids # << >>

Fresh ==
    /\ Sound(tree, leaf, ifparent)
    /\ Cleared(prog, tree, selNode, leaf, ifparent, work)

\* A stack of work, with something on top or without its top.
LEMMA ClearedOn ==
    ASSUME NEW p, NEW t, NEW sel, NEW lf, NEW ip, NEW S, NEW s \in Seq(S), NEW x \in S,
           Cleared(p, t, sel, lf, ip, s), Clear(p, t, sel, lf, ip, x),
           \A j \in 1..Len(s) : Distinct(p, sel, x, s[j])
    PROVE  Cleared(p, t, sel, lf, ip, <<x>> \o s)
<1>. DEFINE v == <<x>> \o s
<1>1. /\ Len(s) \in Nat /\ Len(v) = Len(s) + 1 /\ v[1] = x
      /\ \A j \in 1..Len(s) : v[j + 1] = s[j]
  BY BeforeAt
<1>. HIDE DEF v
<1>2. ASSUME NEW j \in 1..Len(v)
      PROVE  Clear(p, t, sel, lf, ip, v[j]) /\ \A i \in 1..(j-1) : Distinct(p, sel, v[i], v[j])
  <2>1. CASE j = 1
    BY <1>1, <2>1
  <2>2. CASE j # 1
    <3>1. j - 1 \in 1..Len(s) /\ v[j] = s[j - 1]
      <4>1. j - 1 \in 1..Len(s) /\ (j - 1) + 1 = j
        BY <1>1, <2>2
      <4>. QED  BY <1>1, <4>1
    <3>2. ASSUME NEW i \in 1..(j-1) PROVE Distinct(p, sel, v[i], v[j])
      <4>1. CASE i = 1
        BY <1>1, <3>1, <4>1
      <4>2. CASE i # 1
        <5>1. i - 1 \in 1..((j - 1) - 1) /\ i - 1 \in 1..Len(s) /\ (i - 1) + 1 = i
          BY <1>1, <3>1, <4>2
        <5>2. v[i] = s[i - 1]
          BY <1>1, <5>1
        <5>. QED  BY <3>1, <5>1, <5>2 DEF Cleared
      <4>. QED  BY <4>1, <4>2
    <3>. QED  BY <3>1, <3>2 DEF Cleared
  <2>. QED  BY <2>1, <2>2
<1>. QED  BY <1>2 DEF Cleared, v

LEMMA ClearedUnder ==
    ASSUME NEW p, NEW t, NEW sel, NEW lf, NEW ip, NEW S, NEW s \in Seq(S), s # << >>,
           Cleared(p, t, sel, lf, ip, s)
    PROVE  /\ Cleared(p, t, sel, lf, ip, Tail(s)) /\ Clear(p, t, sel, lf, ip, s[1])
           /\ \A j \in 1..Len(Tail(s)) :
                 /\ Distinct(p, sel, s[1], Tail(s)[j])
                 /\ Clear(p, t, sel, lf, ip, Tail(s)[j])
<1>. DEFINE r == Tail(s)
<1>1. /\ Len(r) \in Nat /\ Len(s) = Len(r) + 1 /\ \A j \in 1..Len(r) : r[j] = s[j + 1]
  <2>1. s[1] \in S /\ r \in Seq(S) /\ s = <<s[1]>> \o r
    BY HeadBefore
  <2>. HIDE DEF r
  <2>. QED  BY <2>1, BeforeAt
<1>. HIDE DEF r
<1>2. 1 \in 1..Len(s) /\ \A j \in 1..Len(r) : j + 1 \in 1..Len(s) /\ 1 \in 1..((j + 1) - 1)
  BY <1>1
<1>3. ASSUME NEW j \in 1..Len(r)
      PROVE  Clear(p, t, sel, lf, ip, r[j]) /\ \A i \in 1..(j-1) : Distinct(p, sel, r[i], r[j])
  <2>1. \A i \in 1..(j-1) : i + 1 \in 1..((j + 1) - 1) /\ r[i] = s[i + 1]
    BY <1>1
  <2>. QED  BY <1>1, <1>2, <2>1 DEF Cleared
<1>4. \A j \in 1..Len(r) : Distinct(p, sel, s[1], r[j])
  BY <1>1, <1>2 DEF Cleared
<1>5. Clear(p, t, sel, lf, ip, s[1])
  BY <1>2 DEF Cleared
<1>6. Cleared(p, t, sel, lf, ip, r)
  BY <1>3 DEF Cleared
<1>. QED  BY <1>3, <1>4, <1>5, <1>6 DEF r

\* A tree that grows stays one, and where it does there are children.
LEMMA GrownSound ==
    ASSUME NEW p, NEW t, NEW cs, IsTree(p, t, cs), NEW m \in 1..Len(t), NEW k \in Nat, NEW u,
           GrownBy(t, u, m, k), ChildOnce(t)
    PROVE  /\ ChildOnce(u) /\ Len(t) \in Nat /\ Len(u) \in Nat /\ 1..Len(t) \subseteq 1..Len(u)
           /\ \A n \in 1..Len(t) : t[n].kids # << >> => u[n].kids # << >>
           /\ k # 0 => u[m].kids # << >> /\ u[Len(t) + k].kids = << >>
           /\ \A n \in 1..Len(t) : n # m => u[n].kids = t[n].kids /\ CountOf(u, n) = CountOf(t, n)
<1>1. Len(t) \in Nat /\ Len(u) = Len(t) + k
  BY LenProperties DEF IsTree, GrownBy
<1>2. ASSUME NEW n \in 1..Len(t)
      PROVE  /\ t[n].kids \in Seq(Nat) /\ CountOf(t, n) \in Nat
             /\ \A j \in 1..CountOf(t, n) : t[n].kids[j] \in 1..Len(t)
  <2>1. t[n] \in NodeOf(p)
    BY ElementOfSeq DEF IsTree
  <2>2. ASSUME NEW j \in 1..Len(t[n].kids) PROVE t[n].kids[j] \in 1..Len(t)
    <3>1. t[n].kids[j] \in (n+1)..Len(t)
      BY DEF IsTree
    <3>. QED  BY <1>1, <3>1
  <2>. QED  BY <2>1, <2>2, LenProperties DEF NodeOf, CountOf
<1>3. \A n \in 1..Len(t) : n # m => u[n].kids = t[n].kids /\ CountOf(u, n) = CountOf(t, n)
  BY DEF GrownBy, CountOf
<1>4. ASSUME NEW n \in 1..Len(u), NEW j \in 1..CountOf(u, n)
      PROVE  /\ n \in 1..Len(t)
             /\ \/ j \in 1..CountOf(t, n) /\ u[n].kids[j] = t[n].kids[j] /\ u[n].kids[j] \in 1..Len(t)
                \/ /\ n = m /\ j - CountOf(t, m) \in 1..k
                   /\ u[n].kids[j] = Len(t) + (j - CountOf(t, m))
  <2>1. n \in 1..Len(t)
    <3>1. SUFFICES ASSUME n \notin 1..Len(t) PROVE FALSE
      OBVIOUS
    <3>2. n - Len(t) \in 1..k /\ n = Len(t) + (n - Len(t))
      BY <1>1, <3>1
    <3>. DEFINE i == n - Len(t)
    <3>3. i \in 1..k /\ n = Len(t) + i
      BY <3>2
    <3>. HIDE DEF i
    <3>4. u[n].kids = << >>
      BY <3>3 DEF GrownBy
    <3>5. CountOf(u, n) = 0
      BY <3>4, EmptySeq DEF CountOf
    <3>. QED  BY <3>5
  <2>2. CASE n # m
    BY <1>2, <1>3, <2>1, <2>2
  <2>3. CASE n = m
    <3>1. CountOf(u, m) = CountOf(t, m) + k /\ CountOf(t, m) \in Nat
      BY <1>2 DEF GrownBy
    <3>2. CASE j \in 1..CountOf(t, m)
      BY <1>2, <2>1, <2>3, <3>2 DEF GrownBy
    <3>3. CASE j \notin 1..CountOf(t, m)
      <4>1. j - CountOf(t, m) \in 1..k /\ j = CountOf(t, m) + (j - CountOf(t, m))
        BY <2>3, <3>1, <3>3
      <4>. DEFINE i == j - CountOf(t, m)
      <4>2. i \in 1..k /\ j = CountOf(t, m) + i
        BY <4>1
      <4>. HIDE DEF i
      <4>3. u[m].kids[j] = Len(t) + i
        BY <4>2 DEF GrownBy
      <4>. QED  BY <2>1, <2>3, <4>2, <4>3 DEF i
    <3>. QED  BY <3>2, <3>3
  <2>. QED  BY <2>2, <2>3
<1>5. ChildOnce(u)
  <2>1. SUFFICES ASSUME NEW a \in 1..Len(u), NEW b \in 1..Len(u),
                        NEW j \in 1..CountOf(u, a), NEW i \in 1..CountOf(u, b),
                        u[a].kids[j] = u[b].kids[i]
                 PROVE  a = b /\ j = i
    BY DEF ChildOnce
  <2>2. a \in 1..Len(t) /\ b \in 1..Len(t)
    BY <1>4
  <2>3. CASE u[a].kids[j] \in 1..Len(t)
    <3>1. /\ j \in 1..CountOf(t, a) /\ u[a].kids[j] = t[a].kids[j]
          /\ i \in 1..CountOf(t, b) /\ u[b].kids[i] = t[b].kids[i]
      BY <1>1, <1>4, <2>1, <2>3
    <3>2. t[a].kids[j] = t[b].kids[i]
      BY <2>1, <3>1
    <3>. QED  BY <2>2, <3>1, <3>2 DEF ChildOnce
  <2>4. CASE u[a].kids[j] \notin 1..Len(t)
    <3>1. /\ a = m /\ u[a].kids[j] = Len(t) + (j - CountOf(t, m))
          /\ b = m /\ u[b].kids[i] = Len(t) + (i - CountOf(t, m))
      BY <1>4, <2>1, <2>4
    <3>2. CountOf(t, m) \in Nat /\ CountOf(u, m) \in Nat
      BY <1>2 DEF GrownBy
    <3>3. j \in Nat /\ i \in Nat
      BY <3>1, <3>2
    <3>. QED  BY <1>1, <2>1, <3>1, <3>2, <3>3
  <2>. QED  BY <2>3, <2>4
<1>6. ASSUME NEW n \in 1..Len(t), t[n].kids # << >> PROVE u[n].kids # << >>
  <2>1. CASE n # m
    BY <1>3, <1>6, <2>1
  <2>2. CASE n = m
    <3>1. CountOf(t, m) # 0 /\ CountOf(t, m) \in Nat
      BY <1>2, <1>6, <2>2, EmptySeq DEF CountOf
    <3>2. CountOf(u, m) # 0
      BY <3>1 DEF GrownBy
    <3>3. u[m].kids = << >> => CountOf(u, m) = 0
      BY EmptySeq DEF CountOf
    <3>. QED  BY <2>2, <3>2, <3>3
  <2>. QED  BY <2>1, <2>2
<1>7. ASSUME k # 0 PROVE u[m].kids # << >> /\ u[Len(t) + k].kids = << >>
  <2>1. CountOf(u, m) # 0
    <3>1. CountOf(t, m) \in Nat
      BY <1>2
    <3>. QED  BY <1>7, <3>1 DEF GrownBy
  <2>2. u[m].kids = << >> => CountOf(u, m) = 0
    BY EmptySeq DEF CountOf
  <2>3. k \in 1..k
    BY <1>7
  <2>. QED  BY <2>1, <2>2, <2>3 DEF GrownBy
<1>8. Len(u) \in Nat /\ 1..Len(t) \subseteq 1..Len(u)
  BY <1>1
<1>. QED  BY <1>1, <1>3, <1>5, <1>6, <1>7, <1>8

\* What waits, and is not on top, still has its nodes when others are added.
LEMMA ClearGrown ==
    ASSUME NEW p, NEW t, NEW cs, IsTree(p, t, cs), NEW m \in 1..Len(t), NEW k \in Nat, NEW u,
           GrownBy(t, u, m, k), ChildOnce(t), NEW sel, NEW lf, NEW ip, NEW sel2, NEW lf2, NEW ip2,
           NEW w, Clear(p, t, sel, lf, ip, w), ~Armed(p, w),
           Waits(p, w) => From(p, sel2, w) = From(p, sel, w) /\ From(p, sel, w) # m,
           t[m].kids # << >> \/ m = lf, lf2 = lf \/ lf2 \notin 1..Len(t),
           Range(ip2) \subseteq Range(ip) \cup {m}
    PROVE  Clear(p, u, sel2, lf2, ip2, w)
<1>. DEFINE n == From(p, sel, w)
<1>1. SUFFICES ASSUME Waits(p, w)
               PROVE  /\ n \in 1..Len(u) /\ u[n].kids # << >> /\ n \notin Range(ip2)
                      /\ w.do # "stop" => \A c \in Later(p, u, sel2, w) : u[c].kids = << >>
                      /\ w.do = "selelse" => lf2 \notin Later(p, u, sel2, w)
  BY DEF Clear
<1>2. /\ From(p, sel2, w) = n /\ n # m /\ w.do \in {"stop", "selelse"}
      /\ n \in 1..Len(t) /\ t[n].kids # << >> /\ n \notin Range(ip)
      /\ w.do = "selelse" => \A c \in Later(p, t, sel, w) : t[c].kids = << >>
      /\ w.do = "selelse" => lf \notin Later(p, t, sel, w)
  BY <1>1 DEF Waits, Clear
<1>3. /\ 1..Len(t) \subseteq 1..Len(u) /\ u[n].kids = t[n].kids /\ CountOf(u, n) = CountOf(t, n)
      /\ \A c \in 1..Len(t) : c # m => u[c].kids = t[c].kids
  <2>. HIDE DEF n
  <2>. QED  BY <1>2, GrownSound
<1>4. Later(p, u, sel2, w) = Later(p, t, sel, w)
  <2>1. From(p, sel2, w) = n /\ From(p, sel, w) = n
    BY <1>2
  <2>. HIDE DEF n
  <2>. QED  BY <1>3, <2>1 DEF Later
<1>5. ASSUME NEW c \in Later(p, t, sel, w) PROVE c \in 1..Len(t)
  <2>1. PICK j \in 1..CountOf(t, n) : c = t[n].kids[j]
    BY <1>5 DEF Later
  <2>. HIDE DEF n
  <2>2. t[n].kids[j] \in (n+1)..Len(t) /\ n \in 1..Len(t)
    BY <1>2, <2>1 DEF IsTree, CountOf
  <2>3. Len(t) \in Nat
    BY LenProperties DEF IsTree
  <2>. QED  BY <2>1, <2>2, <2>3
<1>6. ASSUME w.do = "selelse", NEW c \in Later(p, t, sel, w) PROVE u[c].kids = << >>
  <2>1. c \in 1..Len(t) /\ t[c].kids = << >> /\ c # lf
    BY <1>2, <1>5, <1>6
  <2>. QED  BY <1>3, <2>1
<1>7. w.do = "selelse" => lf2 \notin Later(p, t, sel, w)
  BY <1>2, <1>5
<1>8. n \in 1..Len(u) /\ u[n].kids # << >> /\ n \notin Range(ip2)
  <2>. HIDE DEF n
  <2>. QED  BY <1>2, <1>3
<1>. QED  BY <1>2, <1>4, <1>6, <1>7, <1>8

LEMMA ClearedGrown ==
    ASSUME NEW p, NEW t, NEW cs, IsTree(p, t, cs), NEW m \in 1..Len(t), NEW k \in Nat, NEW u,
           GrownBy(t, u, m, k), ChildOnce(t), NEW sel, NEW lf, NEW ip, NEW sel2, NEW lf2, NEW ip2,
           NEW s, Cleared(p, t, sel, lf, ip, s),
           \A j \in 1..Len(s) :
              /\ ~Armed(p, s[j])
              /\ Waits(p, s[j]) =>
                    From(p, sel2, s[j]) = From(p, sel, s[j]) /\ From(p, sel, s[j]) # m,
           t[m].kids # << >> \/ m = lf, lf2 = lf \/ lf2 \notin 1..Len(t),
           Range(ip2) \subseteq Range(ip) \cup {m}
    PROVE  Cleared(p, u, sel2, lf2, ip2, s)
<1>1. ASSUME NEW j \in 1..Len(s) PROVE Clear(p, u, sel2, lf2, ip2, s[j])
  <2>. DEFINE w == s[j]
  <2>1. /\ Clear(p, t, sel, lf, ip, w) /\ ~Armed(p, w)
        /\ Waits(p, w) => From(p, sel2, w) = From(p, sel, w) /\ From(p, sel, w) # m
    BY DEF Cleared
  <2>. HIDE DEF w
  <2>2. Clear(p, u, sel2, lf2, ip2, w)
    BY <2>1, ClearGrown
  <2>. QED  BY <2>2 DEF w
<1>2. ASSUME NEW j \in 1..Len(s), NEW i \in 1..(j-1), i \in 1..Len(s)
      PROVE  Distinct(p, sel2, s[i], s[j])
  <2>1. Distinct(p, sel, s[i], s[j])
    BY DEF Cleared
  <2>. QED  BY <1>2, <2>1 DEF Distinct
<1>3. \A j \in 1..Len(s) : \A i \in 1..(j-1) : i \in 1..Len(s)
  OBVIOUS
<1>. QED  BY <1>1, <1>2, <1>3 DEF Cleared

\* The work below the top, when nodes are added.
LEMMA PopGrown ==
    ASSUME IInv, Running, Fresh, NEW m \in 1..Len(tree), NEW k \in Nat,
           GrownBy(tree, tree', m, k), tree[m].kids # << >> \/ m = leaf,
           leaf' = leaf \/ leaf' \notin 1..Len(tree),
           Range(ifparent') \subseteq Range(ifparent) \cup {m},
           \A j \in 1..Len(Pop) : Waits(prog, Pop[j]) =>
              /\ From(prog, selNode', Pop[j]) = From(prog, selNode, Pop[j])
              /\ From(prog, selNode, Pop[j]) # m
    PROVE  Cleared(prog, tree', selNode', leaf', ifparent', Pop)
<1>1. work \in Seq(Items) /\ work # << >> /\ IsTree(prog, tree, chans)
  BY DEF IInv, Running
<1>2. /\ Cleared(prog, tree, selNode, leaf, ifparent, Pop)
      /\ \A j \in 1..Len(Pop) : ~Armed(prog, Pop[j])
  BY <1>1, ClearedUnder DEF Fresh, Pop, Distinct
<1>3. ChildOnce(tree)
  BY DEF Fresh, Sound
<1>. QED  BY <1>1, <1>2, <1>3, ClearedGrown

\* The top of the work and what is below it.
LEMMA PopFresh ==
    ASSUME IInv, Running, Fresh
    PROVE  /\ Cleared(prog, tree, selNode, leaf, ifparent, Pop)
           /\ Clear(prog, tree, selNode, leaf, ifparent, Top)
           /\ \A j \in 1..Len(Pop) :
                 /\ Distinct(prog, selNode, Top, Pop[j]) /\ ~Armed(prog, Pop[j])
                 /\ Clear(prog, tree, selNode, leaf, ifparent, Pop[j])
<1>1. work \in Seq(Items) /\ work # << >>
  BY DEF IInv, Running
<1>. QED  BY <1>1, ClearedUnder DEF Fresh, Top, Pop, Distinct

\* What does not wait can be put on the work below the top.
LEMMA IdleBoth ==
    ASSUME IInv, Running, Fresh, NEW t, NEW sel, NEW lf, NEW ip,
           Cleared(prog, t, sel, lf, ip, Pop), NEW y, ~Waits(prog, y), NEW x, ~Waits(prog, x)
    PROVE  /\ Cleared(prog, t, sel, lf, ip, <<y>> \o Pop)
           /\ Cleared(prog, t, sel, lf, ip, <<x>> \o (<<y>> \o Pop))
           /\ Cleared(prog, t, sel, lf, ip, <<x, y>> \o Pop)
<1>. DEFINE S == Items \cup {x, y}
            r == <<y>> \o Pop
<1>1. x \in S /\ y \in S /\ Pop \in Seq(S)
  BY AtTop, SeqMonotonic
<1>. HIDE DEF S
<1>2. Clear(prog, t, sel, lf, ip, x) /\ Clear(prog, t, sel, lf, ip, y) /\ ~Armed(prog, y)
  BY DEF Clear, Waits
<1>3. Cleared(prog, t, sel, lf, ip, r)
  <2>1. \A j \in 1..Len(Pop) : Distinct(prog, sel, y, Pop[j])
    BY PopFresh DEF Distinct
  <2>. QED  BY <1>1, <1>2, <2>1, ClearedOn
<1>4. Cleared(prog, t, sel, lf, ip, <<x>> \o r)
  <2>1. /\ Len(Pop) \in Nat /\ Len(r) = Len(Pop) + 1 /\ r[1] = y
        /\ \A j \in 1..Len(Pop) : r[j + 1] = Pop[j]
    BY <1>1, BeforeAt
  <2>. r \in Seq(S)
    BY <1>1, OneBefore
  <2>. HIDE DEF r
  <2>2. ASSUME NEW j \in 1..Len(r) PROVE Distinct(prog, sel, x, r[j])
    <3>1. CASE j = 1
      BY <1>2, <2>1, <3>1 DEF Distinct
    <3>2. CASE j # 1
      <4>1. j - 1 \in 1..Len(Pop) /\ (j - 1) + 1 = j
        BY <2>1, <3>2
      <4>2. r[j] = Pop[j - 1]
        BY <2>1, <4>1
      <4>. QED  BY <4>1, <4>2, PopFresh DEF Distinct
    <3>. QED  BY <3>1, <3>2
  <2>. QED  BY <1>1, <1>2, <1>3, <2>1, <2>2, ClearedOn DEF r
<1>5. <<x, y>> \o Pop = <<x>> \o (<<y>> \o Pop)
  BY <1>1, TwoBefore
<1>. QED  BY <1>3, <1>4, <1>5

LEMMA IdleOn ==
    ASSUME IInv, Running, Fresh, NEW t, NEW sel, NEW lf, NEW ip,
           Cleared(prog, t, sel, lf, ip, Pop), NEW y, ~Waits(prog, y), NEW x, ~Waits(prog, x),
           NEW v \in {Pop, <<y>> \o Pop, <<x, y>> \o Pop, <<x>> \o (<<y>> \o Pop)}
    PROVE  Cleared(prog, t, sel, lf, ip, v)
<1>1. /\ Cleared(prog, t, sel, lf, ip, <<y>> \o Pop)
      /\ Cleared(prog, t, sel, lf, ip, <<x>> \o (<<y>> \o Pop))
      /\ Cleared(prog, t, sel, lf, ip, <<x, y>> \o Pop)
  BY IdleBoth
<1>. QED  BY <1>1

\* An instruction with successors is the last of its block.
LEMMA CurEnds ==
    ASSUME IInv, Running, Top.do \notin {"block", "defers"},
           Cur.op \in {"if", "ifrecv", "ifsel", "jump"}
    PROVE  /\ Test(prog, Top) = Cur /\ Top.i = Len(prog[Top.fn][Top.b].ins)
           /\ Len(prog[Top.fn][Top.b].succs) = IF Cur.op = "jump" THEN 1 ELSE 2
<1>1. /\ Top.i \in 1..Len(prog[Top.fn][Top.b].ins) /\ IsBlock(prog, Top.fn, Top.b)
  BY AtInstruction, AtTop
<1>2. CASE Cur.op = "jump"
  <2>1. Top.i = Len(prog[Top.fn][Top.b].ins) /\ Len(prog[Top.fn][Top.b].succs) = 1
    BY <1>1, <1>2, Zenon DEF IsBlock, Cur
  <2>. QED  BY <1>2, <2>1 DEF Test, Ending, Cur
<1>3. CASE Cur.op \in {"if", "ifrecv", "ifsel"}
  <2>1. Top.i = Len(prog[Top.fn][Top.b].ins) /\ Len(prog[Top.fn][Top.b].succs) = 2
    BY <1>1, <1>3, Zenon DEF IsBlock, Cur
  <2>. QED  BY <1>3, <2>1 DEF Test, Ending, Cur
<1>. QED  BY <1>2, <1>3

\* A successor that is a test of a case comes after the test of the case before it.
LEMMA SuccArmed ==
    ASSUME IInv, Running, NEW k \in 1..Len(prog[Top.fn][Top.b].succs), Armed(prog, Succ(k))
    PROVE  /\ k = 2 /\ Test(prog, Top).op = "ifsel"
           /\ Test(prog, Succ(k)).op = "ifsel" /\ Test(prog, Succ(k)).x = Test(prog, Top).x
           /\ Test(prog, Succ(k)).n - 1 = Test(prog, Top).n
<1>. DEFINE c == Into(prog, Top, k)
            i == Ending(prog, Top.fn, c)
<1>1. Succ(k).do = "block" /\ Succ(k).fn = Top.fn /\ Succ(k).b = c
  BY DEF Succ, VisitOf, Item, Into
<1>2. Test(prog, Succ(k)) = i /\ i.op = "ifsel" /\ i.n # 0
  BY <1>1 DEF Armed, Test
<1>3. IsProgram(prog) /\ Top.fn \in DOMAIN prog /\ Top.b \in 1..Len(prog[Top.fn])
  BY AtTop
<1>4. c \in 1..Len(prog[Top.fn]) /\ <<Top.b, k>> \in Preds(prog, Top.fn, c)
  BY <1>3, EdgeInto, AtTop DEF IsBlock, Into
<1>. HIDE DEF c
<1>5. TestsInTurn(prog, Top.fn, c)
  BY <1>3, <1>4 DEF IsProgram
<1>6. \A e \in Preds(prog, Top.fn, c) :
         e[2] = 2 /\ IsTest(Ending(prog, Top.fn, e[1]), i.x, i.n - 1)
  BY <1>2, <1>5 DEF TestsInTurn
<1>7. k = 2 /\ IsTest(Ending(prog, Top.fn, Top.b), i.x, i.n - 1)
  BY <1>4, <1>6
<1>. QED  BY <1>2, <1>7 DEF IsTest, Test

\* The instruction after another, the entry of a function, and the start of a block.
LEMMA NextArmed ==
    ASSUME IInv, Running, Top.do = "ins", Top.i < Len(prog[Top.fn][Top.b].ins),
           Armed(prog, [Top EXCEPT !.i = @ + 1])
    PROVE  /\ Cur.op = "select" /\ Test(prog, Top).op = "ifsel"
           /\ Test(prog, Top).x = Cur.x /\ Test(prog, Top).n = 0
<1>. DEFINE y == [Top EXCEPT !.i = @ + 1]
            ins == prog[Top.fn][Top.b].ins
            i == Ending(prog, Top.fn, Top.b)
<1>1. y.fn = Top.fn /\ y.b = Top.b /\ y.do = "ins" /\ y.i = Top.i + 1
  BY AtTop
<1>. HIDE DEF y
<1>2. Armed(prog, y)
  BY DEF y
<1>3. i.op = "ifsel" /\ Top.i + 1 = Len(ins)
  BY <1>1, <1>2 DEF Armed, Test
<1>4. Top.i \in 1..Len(ins) /\ Len(ins) \in Nat /\ TestsInTurn(prog, Top.fn, Top.b)
  BY AtInstruction, AtTop DEF IsProgram
<1>5. CASE i.n = 0
  <2>1. ins[Len(ins) - 1].op = "select" /\ ins[Len(ins) - 1].x = i.x
    BY <1>3, <1>4, <1>5 DEF TestsInTurn
  <2>2. Len(ins) - 1 = Top.i
    <3>. DEFINE n == Len(ins)
                k == Top.i
    <3>1. n \in Nat /\ k \in 1..n /\ k + 1 = n
      BY <1>3, <1>4
    <3>. HIDE DEF n, k
    <3>2. n - 1 = k
      BY <3>1
    <3>. QED  BY <3>2 DEF n, k
  <2>3. ins[Top.i] = Cur
    BY DEF Cur
  <2>. QED  BY <1>3, <1>5, <2>1, <2>2, <2>3 DEF Test
<1>6. CASE i.n # 0
  <2>1. Len(ins) = 1
    BY <1>3, <1>4, <1>6 DEF TestsInTurn
  <2>. QED  BY <1>3, <1>4, <2>1
<1>. QED  BY <1>5, <1>6

LEMMA EntryNotArmed ==
    ASSUME NEW p, IsProgram(p), NEW f \in DOMAIN p, p[f] # << >>, NEW fr
    PROVE  ~Waits(p, VisitOf(fr, f, 1))
<1>. DEFINE x == VisitOf(fr, f, 1)
            i == Ending(p, f, 1)
<1>1. x.do = "block" /\ x.fn = f /\ x.b = 1
  BY DEF VisitOf, Item
<1>2. 1 \in 1..Len(p[f]) /\ Preds(p, f, 1) = {} /\ TestsInTurn(p, f, 1)
  BY DEF IsProgram
<1>3. Cardinality(Preds(p, f, 1)) # 1
  <2>1. Cardinality(Preds(p, f, 1)) = 0
    BY <1>2, FS_EmptySet
  <2>. QED  BY <2>1
<1>4. ~(i.op = "ifsel" /\ i.n # 0)
  BY <1>2, <1>3 DEF TestsInTurn
<1>. QED  BY <1>1, <1>4 DEF Waits, Armed, Test

LEMMA StartArmed ==
    ASSUME IInv, Running, Top.do = "block",
           Armed(prog, Item("ins", Top.fr, Top.fn, Top.b, 1, 0))
    PROVE  Armed(prog, Top) /\ ~Joined(prog, Top.fn, Top.b)
<1>. DEFINE x == Item("ins", Top.fr, Top.fn, Top.b, 1, 0)
            i == Ending(prog, Top.fn, Top.b)
<1>1. x.do = "ins" /\ x.fn = Top.fn /\ x.b = Top.b /\ x.i = 1
  BY DEF Item
<1>. HIDE DEF x
<1>2. Armed(prog, x)
  BY DEF x
<1>3. i.op = "ifsel" /\ Len(prog[Top.fn][Top.b].ins) = 1
  BY <1>1, <1>2 DEF Armed, Test
<1>4. TestsInTurn(prog, Top.fn, Top.b)
  BY AtTop DEF IsProgram
<1>5. i.n # 0 /\ Cardinality(Preds(prog, Top.fn, Top.b)) = 1
  BY <1>3, <1>4 DEF TestsInTurn
<1>. QED  BY <1>3, <1>5 DEF Armed, Test, Joined

\* The work after an instruction other than a select.
LEMMA RestIdle ==
    ASSUME IInv, Running, Top.do = "ins", Cur.op # "select"
    PROVE  \E y : ~Waits(prog, y) /\ ~IsOpen(y) /\ Rest \in {Pop, <<y>> \o Pop}
<1>. DEFINE y == [Top EXCEPT !.i = @ + 1]
<1>1. CASE Top.i < Len(prog[Top.fn][Top.b].ins)
  <2>1. y.do = "ins"
    BY AtTop
  <2>2. ~Armed(prog, y)
    BY <1>1, NextArmed
  <2>3. Rest = <<y>> \o Pop
    BY <1>1 DEF Rest
  <2>. HIDE DEF y
  <2>. QED  BY <2>1, <2>2, <2>3 DEF Waits, IsOpen
<1>2. CASE ~(Top.i < Len(prog[Top.fn][Top.b].ins))
  <2>. DEFINE w == Item("defers", 0, 0, 0, 0, 0)
  <2>1. Rest = Pop /\ ~Waits(prog, w) /\ ~IsOpen(w)
    BY <1>2 DEF Rest, Waits, Armed, IsOpen, Item
  <2>. QED  BY <2>1
<1>. QED  BY <1>1, <1>2

-----------------------------------------------------------------------------
(* The steps keep the nodes of the cases. *)

LEMMA AddedAt ==
    ASSUME IInv, NEW n \in 1..Len(tree), NEW k \in Kind, NEW x \in ArgOf(prog),
           AddNodeAt(n, k, x)
    PROVE  GrownBy(tree, tree', n, 1) /\ leaf' = Len(tree) + 1
<1>. DEFINE ns == <<Leaf(k, x)>>
            ds == chans \cup {x}
<1>1. Leaf(k, x) \in NodeOf(prog) /\ Leaf(k, x).kids = << >> /\ Leaf(k, x).arg = x
  BY EmptySeq DEF Leaf, NodeOf
<1>2. ns \in Seq(NodeOf(prog)) /\ Len(ns) = 1 /\ ns[1] = Leaf(k, x)
  BY <1>1
<1>3. AreNew(ns, ds)
  BY <1>1, <1>2 DEF AreNew
<1>4. tree' = GrownTree(tree, n, ns) /\ leaf' = Len(tree) + 1
  BY DEF AddNodeAt, Grown, GrownTree
<1>5. IsTree(prog, tree, chans) /\ chans \subseteq ds
  BY DEF IInv
<1>. HIDE DEF ns, ds
<1>6. GrownBy(tree, GrownTree(tree, n, ns), n, Len(ns))
  BY <1>2, <1>3, <1>5, TreeGrows
<1>. QED  BY <1>2, <1>4, <1>6

\* What waits below the top waits neither at the leaf nor at the parent of an if.
LEMMA WaitsElsewhere ==
    ASSUME IInv, Running, Fresh, NEW j \in 1..Len(Pop), Waits(prog, Pop[j])
    PROVE  /\ From(prog, selNode, Pop[j]) # leaf
           /\ From(prog, selNode, Pop[j]) \notin Range(ifparent)
           /\ Waits(prog, Top) => From(prog, selNode, Pop[j]) # From(prog, selNode, Top)
<1>1. Clear(prog, tree, selNode, leaf, ifparent, Pop[j]) /\ Distinct(prog, selNode, Top, Pop[j])
  BY PopFresh
<1>2. tree[leaf].kids = << >>
  BY DEF Fresh, Sound
<1>. QED  BY <1>1, <1>2 DEF Clear, Distinct

LEMMA GrowFresh ==
    ASSUME IInv, Running, Fresh, NEW m \in 1..Len(tree), NEW k \in Nat,
           GrownBy(tree, tree', m, k), tree[m].kids # << >> \/ m = leaf,
           leaf' = IF k = 0 THEN leaf ELSE Len(tree) + k, k # 0 \/ tree'[leaf].kids = << >>,
           Range(ifparent') \subseteq Range(ifparent) \cup (IF k = 0 THEN {} ELSE {m}),
           \A j \in 1..Len(Pop) : Waits(prog, Pop[j]) =>
              /\ From(prog, selNode', Pop[j]) = From(prog, selNode, Pop[j])
              /\ From(prog, selNode, Pop[j]) # m
    PROVE  /\ Sound(tree', leaf', ifparent')
           /\ Cleared(prog, tree', selNode', leaf', ifparent', Pop)
<1>1. IsTree(prog, tree, chans) /\ Sound(tree, leaf, ifparent)
  BY DEF IInv, Fresh
<1>2. /\ ChildOnce(tree') /\ Len(tree) \in Nat
      /\ \A n \in 1..Len(tree) : tree[n].kids # << >> => tree'[n].kids # << >>
      /\ k # 0 => tree'[m].kids # << >> /\ tree'[Len(tree) + k].kids = << >>
  BY <1>1, GrownSound DEF Sound
<1>3. leaf' = leaf \/ leaf' \notin 1..Len(tree)
  BY <1>2
<1>4. Cleared(prog, tree', selNode', leaf', ifparent', Pop)
  BY <1>3, PopGrown
<1>5. tree'[leaf'].kids = << >>
  BY <1>2
<1>6. ASSUME NEW n \in Range(ifparent') PROVE tree'[n].kids # << >>
  <2>1. CASE n \in Range(ifparent)
    <3>1. n \in 1..Len(tree)
      <4>1. PICK j \in DOMAIN ifparent : n = ifparent[j]
        BY <2>1 DEF Range
      <4>2. ifparent \in Seq(1..Len(tree))
        BY DEF IInv
      <4>. QED  BY <4>1, <4>2
    <3>. QED  BY <1>1, <1>2, <2>1, <3>1 DEF Sound
  <2>2. CASE n \notin Range(ifparent)
    BY <1>2, <1>6, <2>2
  <2>. QED  BY <2>1, <2>2
<1>. QED  BY <1>2, <1>4, <1>5, <1>6 DEF Sound

\* A node added at the leaf, where nothing waits.
LEMMA LeafGrown ==
    ASSUME IInv, Running, Fresh, NEW k \in Kind, NEW x \in ArgOf(prog), AddNode(k, x),
           Range(ifparent') \subseteq Range(ifparent) \cup {leaf}, UNCHANGED selNode
    PROVE  /\ Sound(tree', leaf', ifparent')
           /\ Cleared(prog, tree', selNode', leaf', ifparent', Pop)
<1>1. leaf \in 1..Len(tree)
  BY DEF IInv
<1>2. GrownBy(tree, tree', leaf, 1) /\ leaf' = Len(tree) + 1
  BY <1>1, AddedAt DEF AddNode
<1>3. \A j \in 1..Len(Pop) : Waits(prog, Pop[j]) =>
         /\ From(prog, selNode', Pop[j]) = From(prog, selNode, Pop[j])
         /\ From(prog, selNode, Pop[j]) # leaf
  BY WaitsElsewhere
<1>. QED  BY <1>1, <1>2, <1>3, GrowFresh

\* A step that adds no node and stays where it is.
LEMMA SameNodes ==
    ASSUME IInv, Running, Fresh, UNCHANGED <<tree, selNode, leaf>>,
           Range(ifparent') \subseteq Range(ifparent)
    PROVE  /\ Sound(tree', leaf', ifparent')
           /\ Cleared(prog, tree', selNode', leaf', ifparent', Pop)
<1>1. Sound(tree', leaf', ifparent')
  BY DEF Fresh, Sound
<1>2. ASSUME NEW j \in 1..Len(Pop) PROVE Clear(prog, tree, selNode, leaf, ifparent', Pop[j])
  BY PopFresh DEF Clear
<1>3. Cleared(prog, tree, selNode, leaf, ifparent, Pop)
  BY PopFresh
<1>. QED  BY <1>1, <1>2, <1>3 DEF Cleared

\* A step after which what does not wait is on the work below the top.
LEMMA IdleFresh ==
    ASSUME IInv, Running, Fresh, UNCHANGED prog, Sound(tree', leaf', ifparent'),
           Cleared(prog, tree', selNode', leaf', ifparent', Pop),
           NEW y, ~Waits(prog, y), NEW x, ~Waits(prog, x),
           work' \in {Pop, <<y>> \o Pop, <<x, y>> \o Pop, <<x>> \o (<<y>> \o Pop)}
    PROVE  Fresh'
<1>1. Cleared(prog, tree', selNode', leaf', ifparent', work')
  BY IdleOn
<1>. QED  BY <1>1 DEF Fresh

\* The same for what waits, on top or below the visit of a block.
LEMMA WaitOn ==
    ASSUME IInv, Running, Fresh, UNCHANGED prog, Sound(tree', leaf', ifparent'),
           Cleared(prog, tree', selNode', leaf', ifparent', Pop),
           NEW y, Clear(prog, tree', selNode', leaf', ifparent', y),
           \A j \in 1..Len(Pop) : Distinct(prog, selNode', y, Pop[j]),
           work' = <<y>> \o Pop
    PROVE  Fresh'
<1>. DEFINE S == Items \cup {y}
<1>1. y \in S /\ Pop \in Seq(S)
  BY AtTop, SeqMonotonic
<1>. HIDE DEF S
<1>2. Cleared(prog, tree', selNode', leaf', ifparent', <<y>> \o Pop)
  BY <1>1, ClearedOn
<1>. QED  BY <1>2 DEF Fresh

LEMMA WaitBelow ==
    ASSUME IInv, Running, Fresh, UNCHANGED prog, Sound(tree', leaf', ifparent'),
           Cleared(prog, tree', selNode', leaf', ifparent', Pop),
           NEW y, Clear(prog, tree', selNode', leaf', ifparent', y), ~Armed(prog, y),
           \A j \in 1..Len(Pop) : Distinct(prog, selNode', y, Pop[j]),
           NEW x, ~Waits(prog, x), work' = <<x, y>> \o Pop
    PROVE  Fresh'
<1>. DEFINE S == Items \cup {x, y}
            r == <<y>> \o Pop
<1>1. x \in S /\ y \in S /\ Pop \in Seq(S)
  BY AtTop, SeqMonotonic
<1>. HIDE DEF S
<1>2. Cleared(prog, tree', selNode', leaf', ifparent', r)
  BY <1>1, ClearedOn
<1>3. work' = <<x>> \o (<<y>> \o Pop)
  BY <1>1, TwoBefore
<1>4. r \in Seq(S)
  BY <1>1, OneBefore
<1>5. /\ Len(Pop) \in Nat /\ Len(r) = Len(Pop) + 1 /\ r[1] = y
      /\ \A j \in 1..Len(Pop) : r[j + 1] = Pop[j]
  BY <1>1, BeforeAt
<1>6. work' = <<x>> \o r
  BY <1>3
<1>. HIDE DEF r
<1>7. Clear(prog, tree', selNode', leaf', ifparent', x)
  BY DEF Clear
<1>8. ASSUME NEW j \in 1..Len(r) PROVE Distinct(prog, selNode', x, r[j])
  <2>1. CASE j = 1
    BY <1>5, <2>1 DEF Distinct
  <2>2. CASE j # 1
    <3>1. j - 1 \in 1..Len(Pop) /\ (j - 1) + 1 = j
      BY <1>5, <2>2
    <3>2. r[j] = Pop[j - 1]
      BY <1>5, <3>1
    <3>. QED  BY <3>1, <3>2, PopFresh DEF Distinct
  <2>. QED  BY <2>1, <2>2
<1>9. Cleared(prog, tree', selNode', leaf', ifparent', work')
  BY <1>1, <1>2, <1>4, <1>6, <1>7, <1>8, ClearedOn
<1>. QED  BY <1>9 DEF Fresh

\* visitBlock: the leaf that the instructions find is that of the block.
LEMMA BlockFresh == ASSUME IInv, Fresh, VisitBlock PROVE Fresh'
<1>. DEFINE x == Item("ins", Top.fr, Top.fn, Top.b, 1, 0)
            label == BlockLabel(Top.fn, Top.b)
<1>1. Running /\ Top.do = "block" /\ UNCHANGED <<prog, ifparent, selNode>>
  BY DEF VisitBlock, Doing
<1>2. label \in ArgOf(prog) /\ {"goto", "label"} \subseteq Kind
  BY <1>1, AtTop, ArgsOf DEF Kind
<1>3. x.do = "ins" /\ x.fn = Top.fn /\ x.b = Top.b
  BY DEF Item
<1>4. Armed(prog, x) => Armed(prog, Top) /\ ~Joined(prog, Top.fn, Top.b)
  BY <1>1, StartArmed
<1>5. CASE Joined(prog, Top.fn, Top.b)
  <2>1. /\ AddNode("goto", label) \/ AddNode("label", label)
        /\ work' \in {Pop, <<x>> \o Pop}
    BY <1>5 DEF VisitBlock, Joined
  <2>. HIDE DEF label
  <2>2. /\ Sound(tree', leaf', ifparent')
        /\ Cleared(prog, tree', selNode', leaf', ifparent', Pop)
    BY <1>1, <1>2, <2>1, LeafGrown
  <2>3. ~Waits(prog, x)
    BY <1>3, <1>4, <1>5 DEF Waits
  <2>. HIDE DEF x
  <2>. QED  BY <1>1, <2>1, <2>2, <2>3, IdleFresh
<1>6. CASE ~Joined(prog, Top.fn, Top.b)
  <2>1. work' = <<x>> \o Pop /\ UNCHANGED <<tree, leaf>>
    BY <1>6 DEF VisitBlock, Joined
  <2>2. /\ Sound(tree', leaf', ifparent')
        /\ Cleared(prog, tree', selNode', leaf', ifparent', Pop)
    BY <1>1, <2>1, SameNodes
  <2>3. Waits(prog, x) => /\ Waits(prog, Top) /\ Test(prog, x) = Test(prog, Top)
    BY <1>3, <1>4 DEF Waits, Test
  <2>4. \A sel : Waits(prog, x) => /\ From(prog, sel, x) = From(prog, sel, Top)
                                   /\ \A t : Later(prog, t, sel, x) = Later(prog, t, sel, Top)
    BY <1>1, <1>3, <2>3 DEF From, Later
  <2>. HIDE DEF x
  <2>5. Clear(prog, tree', selNode', leaf', ifparent', x)
    BY <1>1, <1>3, <2>1, <2>3, <2>4, PopFresh DEF Clear
  <2>6. \A j \in 1..Len(Pop) : Distinct(prog, selNode', x, Pop[j])
    BY <1>1, <2>3, <2>4, PopFresh DEF Distinct
  <2>. QED  BY <1>1, <2>1, <2>2, <2>5, <2>6, WaitOn
<1>. QED  BY <1>5, <1>6

\* The instructions that go on with the next one: communication and returns.
LEMMA CommNode ==
    ASSUME IInv, VisitComm \/ VisitRecvOk \/ VisitReturn \/ VisitDefer \/ CallGo
    PROVE  \/ UNCHANGED <<tree, leaf>>
           \/ \E k \in {"skip", "send", "recv"} : \E x \in ArgOf(prog) : AddNode(k, x)
<1>1. /\ Running /\ Top.do = "ins"
      /\ Cur.op \in {"make", "send", "recv", "recvok", "return", "panic", "defer", "go"}
  BY DEF VisitComm, VisitRecvOk, VisitReturn, VisitDefer, CallGo, OnIns, Doing
<1>2. SUFFICES ASSUME ~UNCHANGED <<tree, leaf>>
               PROVE  \E k \in {"skip", "send", "recv"} : \E x \in ArgOf(prog) : AddNode(k, x)
  OBVIOUS
<1>3. Cur.op \in {"make", "send", "recv", "recvok"}
  BY <1>1, <1>2 DEF VisitComm, VisitRecvOk, VisitReturn, VisitDefer, CallGo, OnIns, Doing
<1>4. Cur.x \in Chan
  BY <1>1, <1>3, AtInstruction DEF IsInstruction
<1>5. NoArg \in ArgOf(prog) /\ Cur.x \in ArgOf(prog)
  BY <1>4, ArgsOf
<1>6. CASE VisitComm
  <2>1. /\ AddNode(IF Cur.op = "make" THEN "skip" ELSE Cur.op,
                   IF Cur.op = "make" THEN NoArg ELSE Cur.x)
        /\ Cur.op \in {"make", "send", "recv"}
    BY <1>6 DEF VisitComm, OnIns
  <2>2. CASE Cur.op = "make"
    BY <1>5, <2>1, <2>2
  <2>3. CASE Cur.op = "send"
    BY <1>5, <2>1, <2>3
  <2>4. CASE Cur.op = "recv"
    BY <1>5, <2>1, <2>4
  <2>. QED  BY <2>1, <2>2, <2>3, <2>4
<1>7. CASE VisitRecvOk
  BY <1>2, <1>5, <1>7 DEF VisitRecvOk
<1>. QED  BY <1>2, <1>6, <1>7 DEF VisitReturn, VisitDefer, CallGo

LEMMA CommFresh ==
    ASSUME IInv, Fresh, VisitComm \/ VisitRecvOk \/ VisitReturn \/ VisitDefer \/ CallGo
    PROVE  Fresh'
<1>1. /\ Running /\ Top.do = "ins" /\ UNCHANGED <<prog, ifparent, selNode>> /\ work' = Rest
      /\ Cur.op \in {"make", "send", "recv", "recvok", "return", "panic", "defer", "go"}
  BY DEF VisitComm, VisitRecvOk, VisitReturn, VisitDefer, CallGo, OnIns, Doing
<1>2. PICK y : ~Waits(prog, y) /\ work' \in {Pop, <<y>> \o Pop}
  BY <1>1, RestIdle
<1>3. /\ Sound(tree', leaf', ifparent')
      /\ Cleared(prog, tree', selNode', leaf', ifparent', Pop)
  <2>1. CASE UNCHANGED <<tree, leaf>>
    BY <1>1, <2>1, SameNodes
  <2>2. CASE ~UNCHANGED <<tree, leaf>>
    <3>1. PICK k \in {"skip", "send", "recv"} : \E x \in ArgOf(prog) : AddNode(k, x)
      BY <2>2, CommNode
    <3>2. k \in Kind
      BY DEF Kind, CommKind
    <3>. QED  BY <1>1, <3>1, <3>2, LeafGrown
  <2>. QED  BY <2>1, <2>2
<1>. QED  BY <1>1, <1>2, <1>3, IdleFresh

\* The visit of a successor of an instruction that does not test a case.
LEMMA SuccIdle ==
    ASSUME IInv, Running, Top.do \notin {"block", "defers"}, Cur.op \in {"if", "ifrecv", "jump"},
           NEW k \in 1..(IF Cur.op = "jump" THEN 1 ELSE 2)
    PROVE  ~Waits(prog, Succ(k))
<1>1. Test(prog, Top) = Cur /\ k \in 1..Len(prog[Top.fn][Top.b].succs)
  BY CurEnds
<1>2. ~Armed(prog, Succ(k))
  BY <1>1, SuccArmed
<1>. QED  BY <1>2 DEF Waits, Succ, VisitOf, Item

\* visitJump, and visitIf on its branches.
LEMMA JumpFresh == ASSUME IInv, Fresh, VisitJump PROVE Fresh'
<1>1. /\ Running /\ Top.do = "ins" /\ Cur.op = "jump" /\ work' = <<Succ(1)>> \o Rest
      /\ UNCHANGED <<prog, tree, leaf, ifparent, selNode>>
  BY DEF VisitJump, OnIns, Doing
<1>2. ~Waits(prog, Succ(1))
  BY <1>1, SuccIdle
<1>3. work' = <<Succ(1)>> \o Pop
  <2>1. ~(Top.i < Len(prog[Top.fn][Top.b].ins))
    <3>1. Top.i = Len(prog[Top.fn][Top.b].ins) /\ Len(prog[Top.fn][Top.b].ins) \in Nat
      BY <1>1, CurEnds, AtInstruction
    <3>. QED  BY <3>1
  <2>. QED  BY <1>1, <2>1 DEF Rest
<1>4. /\ Sound(tree', leaf', ifparent')
      /\ Cleared(prog, tree', selNode', leaf', ifparent', Pop)
  BY <1>1, SameNodes
<1>. QED  BY <1>1, <1>2, <1>3, <1>4, IdleFresh

LEMMA ThenIdle ==
    ASSUME IInv, Running, NEW do \in {"else", "endif"}, NEW at
    PROVE  ~Waits(prog, Then(do, at))
<1>1. Then(do, at).do = do
  BY AtTop DEF Then
<1>. QED  BY <1>1 DEF Waits, Armed

LEMMA IfFresh == ASSUME IInv, Fresh, VisitIf PROVE Fresh'
<1>1. /\ Running /\ Top.do = "ins" /\ Cur.op \in {"if", "ifrecv"}
      /\ ifparent' = Append(ifparent, leaf) /\ AddNode("skip", NoArg)
      /\ work' = <<Succ(1), Then("else", 0)>> \o Pop /\ UNCHANGED <<prog, selNode>>
  BY DEF VisitIf, OnIns, Doing
<1>2. ~Waits(prog, Succ(1)) /\ ~Waits(prog, Then("else", 0))
  BY <1>1, SuccIdle, ThenIdle
<1>3. Range(ifparent') \subseteq Range(ifparent) \cup {leaf}
  <2>1. ifparent \in Seq(1..Len(tree)) /\ leaf \in 1..Len(tree)
    BY DEF IInv
  <2>. QED  BY <1>1, <2>1 DEF Range
<1>4. NoArg \in ArgOf(prog) /\ "skip" \in Kind
  BY ArgsOf DEF Kind
<1>5. /\ Sound(tree', leaf', ifparent')
      /\ Cleared(prog, tree', selNode', leaf', ifparent', Pop)
  BY <1>1, <1>3, <1>4, LeafGrown
<1>. QED  BY <1>1, <1>2, <1>5, IdleFresh

LEMMA ElseFresh == ASSUME IInv, Fresh, VisitElse PROVE Fresh'
<1>. DEFINE m == ElseParent
<1>1. /\ Running /\ Top.do = "else" /\ AddNodeAt(m, "skip", NoArg)
      /\ work' = <<Succ(2), Then("endif", 0)>> \o Pop /\ UNCHANGED <<prog, ifparent, selNode>>
  BY DEF VisitElse, Doing
<1>2. ~Waits(prog, Succ(2)) /\ ~Waits(prog, Then("endif", 0))
  BY <1>1, CurOfBranch, SuccIdle, ThenIdle
<1>3. m \in Range(ifparent) /\ m \in 1..Len(tree)
  <2>1. ifparent \in Seq(1..Len(tree)) /\ Len(ifparent) = Cardinality(Open(work))
    BY DEF IInv
  <2>2. Cardinality(Open(Pop)) \in Nat /\ Cardinality(Open(work)) = Cardinality(Open(Pop)) + 1
    BY <1>1, AtTop DEF IsOpen
  <2>3. Len(ifparent) \in 1..Len(ifparent)
    BY <2>1, <2>2
  <2>. QED  BY <2>1, <2>3 DEF Last, Range, ElseParent
<1>4. NoArg \in ArgOf(prog) /\ "skip" \in Kind
  BY ArgsOf DEF Kind
<1>. HIDE DEF m
<1>5. GrownBy(tree, tree', m, 1) /\ leaf' = Len(tree) + 1
  BY <1>1, <1>3, <1>4, AddedAt
<1>6. tree[m].kids # << >>
  BY <1>3 DEF Fresh, Sound
<1>7. \A j \in 1..Len(Pop) : Waits(prog, Pop[j]) =>
         /\ From(prog, selNode', Pop[j]) = From(prog, selNode, Pop[j])
         /\ From(prog, selNode, Pop[j]) # m
  BY <1>1, <1>3, WaitsElsewhere
<1>8. /\ Sound(tree', leaf', ifparent')
      /\ Cleared(prog, tree', selNode', leaf', ifparent', Pop)
  BY <1>1, <1>3, <1>5, <1>6, <1>7, GrowFresh
<1>. QED  BY <1>1, <1>2, <1>8, IdleFresh

LEMMA EndIfFresh == ASSUME IInv, Fresh, EndIf PROVE Fresh'
<1>1. /\ Running /\ Top.do = "endif" /\ work' = Pop /\ ifparent' = Front(ifparent)
      /\ UNCHANGED <<prog, tree, leaf, selNode>>
  BY DEF EndIf, Doing
<1>2. Range(ifparent') \subseteq Range(ifparent)
  <2>1. ifparent \in Seq(1..Len(tree)) /\ Len(ifparent) = Cardinality(Open(work))
    BY DEF IInv
  <2>2. Cardinality(Open(Pop)) \in Nat /\ Cardinality(Open(work)) = Cardinality(Open(Pop)) + 1
    BY <1>1, AtTop DEF IsOpen
  <2>3. ifparent' = SubSeq(ifparent, 1, Len(ifparent) - 1) /\ Len(ifparent) \in Nat \ {0}
    BY <1>1, <2>1, <2>2 DEF Front
  <2>. QED  BY <2>1, <2>3 DEF Range
<1>3. /\ Sound(tree', leaf', ifparent')
      /\ Cleared(prog, tree', selNode', leaf', ifparent', Pop)
  BY <1>1, <1>2, SameNodes
<1>4. ~Waits(prog, Then("endif", 0))
  BY <1>1, ThenIdle
<1>. QED  BY <1>1, <1>3, <1>4, IdleFresh

\* visitIf at a test of ok: the node of the receive waits for that of STOP.
LEMMA IfRecvFresh == ASSUME IInv, Fresh, VisitIfRecv PROVE Fresh'
<1>. DEFINE y == Then("stop", leaf)
<1>1. /\ Running /\ Top.do = "ins" /\ Cur.op = "ifrecv" /\ AddNode("recv", Cur.x)
      /\ work' = <<Succ(1), y>> \o Pop /\ UNCHANGED <<prog, ifparent, selNode>>
      /\ Cur.x \in recvTest
  BY DEF VisitIfRecv, OnIns, Doing
<1>2. ~Waits(prog, Succ(1))
  BY <1>1, SuccIdle
<1>3. Cur.x \in ArgOf(prog) /\ "recv" \in Kind /\ leaf \in 1..Len(tree)
  BY <1>1, ArgsOf DEF Kind, CommKind
<1>4. /\ Sound(tree', leaf', ifparent')
      /\ Cleared(prog, tree', selNode', leaf', ifparent', Pop)
  BY <1>1, <1>3, LeafGrown
<1>5. y.do = "stop" /\ y.at = leaf
  BY AtTop, <1>1 DEF Then
<1>. HIDE DEF y
<1>6. ~Armed(prog, y) /\ \A sel : From(prog, sel, y) = leaf
  BY <1>5 DEF Armed, From
<1>7. GrownBy(tree, tree', leaf, 1)
  BY <1>1, <1>3, AddedAt DEF AddNode
<1>8. leaf \in 1..Len(tree') /\ tree'[leaf].kids # << >>
  <2>1. IsTree(prog, tree, chans) /\ ChildOnce(tree)
    BY DEF IInv, Fresh, Sound
  <2>. QED  BY <1>3, <1>7, <2>1, GrownSound
<1>9. leaf \notin Range(ifparent')
  BY <1>1 DEF Fresh, Sound
<1>10. Clear(prog, tree', selNode', leaf', ifparent', y)
  BY <1>5, <1>6, <1>8, <1>9 DEF Clear
<1>11. \A j \in 1..Len(Pop) : Distinct(prog, selNode', y, Pop[j])
  BY <1>1, <1>6, PopFresh, WaitsElsewhere DEF Distinct
<1>. QED  BY <1>1, <1>2, <1>4, <1>6, <1>10, <1>11, WaitBelow

LEMMA StopFresh == ASSUME IInv, Fresh, VisitStop PROVE Fresh'
<1>. DEFINE m == Top.at
<1>1. /\ Running /\ Top.do = "stop" /\ AddNodeAt(m, "stop", Cur.x)
      /\ work' = <<Succ(2)>> \o Pop /\ UNCHANGED <<prog, ifparent, selNode>>
  BY DEF VisitStop, Doing
<1>2. Cur.op = "ifrecv" /\ m \in 1..Len(tree) /\ Waits(prog, Top) /\ From(prog, selNode, Top) = m
  BY <1>1, CurOfBranch DEF Waits, From
<1>3. ~Waits(prog, Succ(2))
  BY <1>1, <1>2, SuccIdle
<1>4. Cur.x \in ArgOf(prog) /\ "stop" \in Kind
  <2>1. Top \in Items
    BY <1>1, AtTop
  <2>2. Cur.x \in chans
    BY <1>1, <2>1 DEF Items, ItemsOf, Cur
  <2>. QED  BY <2>2, ArgsOf DEF Kind, CommKind
<1>. HIDE DEF m
<1>5. GrownBy(tree, tree', m, 1) /\ leaf' = Len(tree) + 1
  BY <1>1, <1>2, <1>4, AddedAt
<1>6. tree[m].kids # << >>
  BY <1>1, <1>2, PopFresh DEF Clear
<1>7. \A j \in 1..Len(Pop) : Waits(prog, Pop[j]) =>
         /\ From(prog, selNode', Pop[j]) = From(prog, selNode, Pop[j])
         /\ From(prog, selNode, Pop[j]) # m
  BY <1>1, <1>2, WaitsElsewhere
<1>8. /\ Sound(tree', leaf', ifparent')
      /\ Cleared(prog, tree', selNode', leaf', ifparent', Pop)
  BY <1>1, <1>2, <1>5, <1>6, <1>7, GrowFresh
<1>. QED  BY <1>1, <1>3, <1>8, IdleFresh

\* At the node of a case, the nodes of the cases of other selects are untouched.
LEMMA CaseFresh ==
    ASSUME IInv, Running, Fresh, UNCHANGED <<tree, selNode, ifparent>>, Waits(prog, Top),
           NEW k \in 1..CountOf(tree, From(prog, selNode, Top)),
           leaf' = tree[From(prog, selNode, Top)].kids[k], tree[leaf'].kids = << >>
    PROVE  /\ Sound(tree', leaf', ifparent')
           /\ Cleared(prog, tree', selNode', leaf', ifparent', Pop)
<1>. DEFINE m == From(prog, selNode, Top)
<1>1. Sound(tree', leaf', ifparent')
  BY DEF Fresh, Sound
<1>2. m \in 1..Len(tree) /\ ChildOnce(tree)
  BY PopFresh DEF Clear, Fresh, Sound
<1>3. ASSUME NEW j \in 1..Len(Pop) PROVE Clear(prog, tree, selNode, leaf', ifparent, Pop[j])
  <2>. DEFINE n == From(prog, selNode, Pop[j])
  <2>1. Clear(prog, tree, selNode, leaf, ifparent, Pop[j])
    BY PopFresh
  <2>2. ASSUME Pop[j].do = "selelse", leaf' \in Later(prog, tree, selNode, Pop[j]) PROVE FALSE
    <3>1. n \in 1..Len(tree) /\ n # m
      BY <2>1, <2>2, WaitsElsewhere DEF Clear, Waits
    <3>2. PICK i \in 1..CountOf(tree, n) : leaf' = tree[n].kids[i]
      BY <2>2 DEF Later
    <3>3. leaf' = tree[m].kids[k] /\ k \in 1..CountOf(tree, m)
      OBVIOUS
    <3>. HIDE DEF n, m
    <3>. QED  BY <1>2, <3>1, <3>2, <3>3 DEF ChildOnce
  <2>. QED  BY <2>1, <2>2 DEF Clear
<1>4. Cleared(prog, tree, selNode, leaf, ifparent, Pop)
  BY PopFresh
<1>. QED  BY <1>1, <1>3, <1>4 DEF Cleared

\* visitIf at the test of a case goes on at the node of the case.
LEMMA IfSelFresh == ASSUME IInv, Fresh, VisitIfSel PROVE Fresh'
<1>. DEFINE y == Then("selelse", 0)
            m == selNode[Cur.x].parent
            n == Cur.n
<1>1. /\ Running /\ Top.do = "ins" /\ Cur.op = "ifsel" /\ leaf' = tree[m].kids[n + 1]
      /\ work' = <<Succ(1), y>> \o Pop /\ UNCHANGED <<prog, tree, ifparent, selNode>>
  BY DEF VisitIfSel, OnIns, Doing, CaseOf
<1>2. Test(prog, Top) = Cur /\ Top.i = Len(prog[Top.fn][Top.b].ins)
  BY <1>1, CurEnds
<1>3. /\ Waits(prog, Top) /\ From(prog, selNode, Top) = m
      /\ Later(prog, tree, selNode, Top) = {tree[m].kids[k] : k \in {j \in 1..CountOf(tree, m) : j > n + 0}}
  BY <1>1, <1>2 DEF Waits, Armed, From, Later
<1>4. n \in Nat /\ m \in 1..Len(tree) /\ CountOf(tree, m) \in Nat /\ n < CountOf(tree, m)
  <2>1. n \in Nat /\ m \in 1..Len(tree) /\ n < CountOf(tree, m)
    BY <1>1, SelectKnown
  <2>2. tree[m] \in NodeOf(prog)
    BY <2>1, ElementOfSeq DEF IInv, IsTree
  <2>3. CountOf(tree, m) \in Nat
    BY <2>2, LenProperties DEF NodeOf, CountOf
  <2>. QED  BY <2>1, <2>3
<1>5. /\ y.do = "selelse" /\ y.fn = Top.fn /\ y.b = Top.b
  BY <1>1, AtTop DEF Then
<1>6. Test(prog, y) = Cur
  BY <1>2, <1>5 DEF Test
<1>. HIDE DEF y
<1>7. /\ ~Armed(prog, y) /\ Waits(prog, y) /\ From(prog, selNode, y) = m
      /\ Later(prog, tree, selNode, y) = {tree[m].kids[k] : k \in {j \in 1..CountOf(tree, m) : j > n + 1}}
  BY <1>5, <1>6 DEF Waits, Armed, From, Later
<1>. HIDE DEF m, n
<1>8. /\ n + 1 \in 1..CountOf(tree, m) /\ n + 1 > n + 0
      /\ \A j \in 1..CountOf(tree, m) : j > n + 1 => j > n + 0 /\ j # n + 1
  BY <1>4
<1>9. /\ m \in 1..Len(tree) /\ tree[m].kids # << >> /\ m \notin Range(ifparent)
      /\ \A c \in Later(prog, tree, selNode, Top) : tree[c].kids = << >>
  BY <1>1, <1>3, PopFresh DEF Clear
<1>10. tree[leaf'].kids = << >>
  BY <1>1, <1>3, <1>8, <1>9
<1>11. /\ Sound(tree', leaf', ifparent')
       /\ Cleared(prog, tree', selNode', leaf', ifparent', Pop)
  BY <1>1, <1>3, <1>8, <1>10, CaseFresh
<1>12. Later(prog, tree, selNode, y) \subseteq Later(prog, tree, selNode, Top)
  BY <1>3, <1>7, <1>8
<1>13. leaf' \notin Later(prog, tree, selNode, y)
  <2>1. SUFFICES ASSUME NEW j \in 1..CountOf(tree, m), j > n + 1,
                        tree[m].kids[n + 1] = tree[m].kids[j]
                 PROVE  FALSE
    BY <1>1, <1>7
  <2>2. ChildOnce(tree)
    BY DEF Fresh, Sound
  <2>. QED  BY <1>4, <1>8, <2>1, <2>2 DEF ChildOnce
<1>14. Clear(prog, tree', selNode', leaf', ifparent', y)
  BY <1>1, <1>5, <1>7, <1>9, <1>12, <1>13 DEF Clear
<1>15. \A j \in 1..Len(Pop) : Distinct(prog, selNode', y, Pop[j])
  BY <1>1, <1>3, <1>7, PopFresh, WaitsElsewhere DEF Distinct
<1>16. ~Waits(prog, Succ(1))
  <2>1. 1 \in 1..Len(prog[Top.fn][Top.b].succs)
    <3>1. Len(prog[Top.fn][Top.b].succs) = 2
      BY <1>1, CurEnds
    <3>. QED  BY <3>1
  <2>2. ~Armed(prog, Succ(1))
    BY <1>1, <2>1, SuccArmed
  <2>. QED  BY <2>2 DEF Waits, Succ, VisitOf, Item
<1>. QED  BY <1>1, <1>7, <1>11, <1>14, <1>15, <1>16, WaitBelow

\* After the first branch, the test of the next case, or the default, goes on.
LEMMA SelElseFresh == ASSUME IInv, Fresh, VisitSelElse PROVE Fresh'
<1>. DEFINE y == Succ(2)
            m == selNode[Cur.x].parent
            n == Cur.n
<1>1. /\ Running /\ Top.do = "selelse" /\ leaf' = ElseLeaf(Cur.x, n)
      /\ work' = <<y>> \o Pop /\ UNCHANGED <<prog, tree, ifparent, selNode>>
  BY DEF VisitSelElse, Doing
<1>2. Cur.op = "ifsel" /\ Test(prog, Top) = Cur /\ 2 \in 1..Len(prog[Top.fn][Top.b].succs)
  <2>1. Cur.op = "ifsel"
    BY <1>1, CurOfBranch
  <2>2. Test(prog, Top) = Cur /\ Len(prog[Top.fn][Top.b].succs) = 2
    BY <1>1, <2>1, CurEnds
  <2>. QED  BY <2>1, <2>2
<1>3. /\ Waits(prog, Top) /\ From(prog, selNode, Top) = m
      /\ Later(prog, tree, selNode, Top) = {tree[m].kids[k] : k \in {j \in 1..CountOf(tree, m) : j > n + 1}}
  BY <1>1, <1>2 DEF Waits, From, Later
<1>4. n \in Nat /\ m \in 1..Len(tree) /\ CountOf(tree, m) \in Nat
  <2>1. n \in Nat /\ m \in 1..Len(tree)
    BY <1>1, <1>2, SelectKnown
  <2>2. tree[m] \in NodeOf(prog)
    BY <2>1, ElementOfSeq DEF IInv, IsTree
  <2>3. CountOf(tree, m) \in Nat
    BY <2>2, LenProperties DEF NodeOf, CountOf
  <2>. QED  BY <2>1, <2>3
<1>5. leaf' = leaf \/ (CountOf(tree, m) > n + 1 /\ leaf' = tree[m].kids[(n + 1) + 1])
  BY <1>1 DEF ElseLeaf, CaseOf, CountOf
<1>6. Armed(prog, y) => /\ Test(prog, y).op = "ifsel" /\ Test(prog, y).x = Cur.x
                        /\ Test(prog, y).n - 1 = n
  BY <1>1, <1>2, SuccArmed
<1>7. Armed(prog, y) => Test(prog, y).n \in Nat
  <2>1. SUFFICES ASSUME Armed(prog, y) PROVE Test(prog, y).n \in Nat
    OBVIOUS
  <2>2. y.fn = Top.fn /\ y.b = Into(prog, Top, 2) /\ y.b \in 1..Len(prog[Top.fn])
    <3>1. y.fn = Top.fn /\ y.b = Into(prog, Top, 2)
      BY DEF Succ, VisitOf, Item, Into
    <3>. QED  BY <1>1, <1>2, <3>1, AtTop DEF IsBlock, Into
  <2>. DEFINE f == Top.fn
              b == y.b
              ins == prog[f][b].ins
  <2>3. /\ f \in DOMAIN prog /\ b \in 1..Len(prog[f]) /\ IsProgram(prog)
    BY <1>1, <2>2, AtTop
  <2>4. Len(ins) \in Nat \ {0} /\ Test(prog, y) = ins[Len(ins)]
    BY <2>2, <2>3, BlockOfProgram DEF IsBlock, Test, Ending
  <2>5. Test(prog, y).n \in TestedCases(prog, Cur.x)
    <3>1. Len(ins) \in 1..Len(ins)
      BY <2>4
    <3>2. ins[Len(ins)].op = "ifsel" /\ ins[Len(ins)].x = Cur.x
      BY <1>6, <2>1, <2>4
    <3>. DEFINE i == Len(ins)
    <3>3. i \in 1..Len(prog[f][b].ins) /\ prog[f][b].ins[i].op = "ifsel"
      BY <3>1, <3>2
    <3>. HIDE DEF i, f, b
    <3>4. prog[f][b].ins[i].n \in TestedCases(prog, prog[f][b].ins[i].x)
      BY <2>3, <3>3, CaseTested
    <3>. QED  BY <2>4, <3>2, <3>4 DEF i
  <2>6. Cur.x \in DOMAIN selNode
    BY <1>1, <1>2, SelectKnown
  <2>. QED  BY <2>5, <2>6 DEF IInv, AreSelects
<1>8. ~(y.do \in {"stop", "selelse"}) /\ y.do = "block"
  BY DEF Succ, VisitOf, Item
<1>9. ~Armed(prog, y) \/ Later(prog, tree, selNode, y) = Later(prog, tree, selNode, Top)
  <2>1. SUFFICES ASSUME Armed(prog, y)
                 PROVE  Later(prog, tree, selNode, y) = Later(prog, tree, selNode, Top)
    OBVIOUS
  <2>. DEFINE i == Test(prog, y).n
  <2>2. i \in Nat /\ i - 1 = n
    BY <1>6, <1>7, <2>1
  <2>3. Later(prog, tree, selNode, y) = {tree[m].kids[k] : k \in {j \in 1..CountOf(tree, m) : j > i + 0}}
    BY <1>6, <1>8, <2>1 DEF From, Later
  <2>. HIDE DEF i, m, n
  <2>4. i + 0 = n + 1
    BY <1>4, <2>2
  <2>. QED  BY <1>3, <2>3, <2>4
<1>10. Armed(prog, y) => From(prog, selNode, y) = m
  BY <1>6, <1>8 DEF From
<1>. HIDE DEF y, m, n
<1>11. /\ m \in 1..Len(tree) /\ tree[m].kids # << >> /\ m \notin Range(ifparent)
       /\ \A c \in Later(prog, tree, selNode, Top) : tree[c].kids = << >>
  BY <1>1, <1>3, PopFresh DEF Clear
<1>12. /\ Sound(tree', leaf', ifparent')
       /\ Cleared(prog, tree', selNode', leaf', ifparent', Pop)
  <2>1. CASE leaf' = leaf
    BY <1>1, <2>1, SameNodes
  <2>2. CASE CountOf(tree, m) > n + 1 /\ leaf' = tree[m].kids[(n + 1) + 1]
    <3>1. (n + 1) + 1 \in 1..CountOf(tree, m) /\ (n + 1) + 1 > n + 1
      BY <1>4, <2>2
    <3>2. tree[leaf'].kids = << >>
      BY <1>3, <1>11, <2>2, <3>1
    <3>. QED  BY <1>1, <1>3, <2>2, <3>1, <3>2, CaseFresh
  <2>. QED  BY <1>5, <2>1, <2>2
<1>13. Clear(prog, tree', selNode', leaf', ifparent', y)
  BY <1>1, <1>8, <1>9, <1>10, <1>11 DEF Clear, Waits
<1>14. \A j \in 1..Len(Pop) : Distinct(prog, selNode', y, Pop[j])
  BY <1>1, <1>3, <1>8, <1>10, PopFresh, WaitsElsewhere DEF Distinct, Waits
<1>. QED  BY <1>1, <1>12, <1>13, <1>14, WaitOn

\* An inlined call starts with a block that tests no case.
LEMMA CallFresh ==
    ASSUME IInv, Running, Fresh, NEW i, NEW y, ~Waits(prog, y), NEW rest \in {Pop, <<y>> \o Pop},
           CallCommon(i, rest), i.op = "call" => i.x \in DOMAIN prog,
           UNCHANGED <<prog, chans, ifparent, selNode>>
    PROVE  Fresh'
<1>1. CASE i.op = "close" /\ i.x \in chans
  <2>1. AddNode("end", i.x) /\ work' = rest
    BY <1>1 DEF CallCommon
  <2>2. "end" \in Kind /\ i.x \in ArgOf(prog)
    BY <1>1, ArgsOf DEF Kind, CommKind
  <2>3. /\ Sound(tree', leaf', ifparent')
        /\ Cleared(prog, tree', selNode', leaf', ifparent', Pop)
    BY <2>1, <2>2, LeafGrown
  <2>. QED  BY <2>1, <2>3, IdleFresh
<1>2. CASE i.op = "close" /\ i.x \notin chans
  <2>1. UNCHANGED <<work, tree, leaf>>
    BY <1>2 DEF CallCommon
  <2>. QED  BY <2>1 DEF Fresh
<1>3. CASE i.op = "call"
  <2>. DEFINE k == Len(frames) + 1
              f == i.x
  <2>1. /\ work' = (IF IsRecursive(frames', k) THEN << >> ELSE VisitFunc(k, f)) \o rest
        /\ UNCHANGED <<tree, leaf>> /\ f \in DOMAIN prog
    BY <1>3 DEF CallCommon
  <2>2. /\ Sound(tree', leaf', ifparent')
        /\ Cleared(prog, tree', selNode', leaf', ifparent', Pop)
    BY <2>1, SameNodes
  <2>. HIDE DEF k, f
  <2>3. CASE IsRecursive(frames', k) \/ prog[f] = << >>
    <3>1. work' = << >> \o rest
      BY <2>1, <2>3 DEF VisitFunc
    <3>2. rest \in Seq(Items \cup {y})
      <4>1. Pop \in Seq(Items \cup {y}) /\ y \in Items \cup {y}
        BY AtTop, SeqMonotonic
      <4>2. <<y>> \o Pop \in Seq(Items \cup {y})
        BY <4>1, OneBefore
      <4>. QED  BY <4>1, <4>2
    <3>3. work' = rest
      BY <3>1, <3>2, ConcatEmptySeq
    <3>. QED  BY <2>2, <3>3, IdleFresh
  <2>4. CASE ~(IsRecursive(frames', k) \/ prog[f] = << >>)
    <3>. DEFINE x == VisitOf(k, f, 1)
    <3>1. work' = <<x>> \o rest
      BY <2>1, <2>4 DEF VisitFunc
    <3>2. ~Waits(prog, x)
      BY <2>1, <2>4, AtTop, EntryNotArmed
    <3>. HIDE DEF x
    <3>3. work' = <<x>> \o Pop \/ work' = <<x>> \o (<<y>> \o Pop)
      BY <3>1
    <3>. QED  BY <2>2, <3>2, <3>3, IdleFresh
  <2>. QED  BY <2>3, <2>4
<1>. QED  BY <1>1, <1>2, <1>3 DEF CallCommon

LEMMA CallInsFresh == ASSUME IInv, Fresh, VisitCall PROVE Fresh'
<1>1. /\ Running /\ Top.do = "ins" /\ Cur.op \in {"call", "close"} /\ CallCommon(Cur, Rest)
      /\ UNCHANGED <<prog, chans, ifparent, selNode>>
  BY DEF VisitCall, OnIns, Doing
<1>2. Cur.op = "call" => Cur.x \in DOMAIN prog
  BY <1>1, AtInstruction DEF IsInstruction
<1>3. PICK y : ~Waits(prog, y) /\ Rest \in {Pop, <<y>> \o Pop}
  BY <1>1, RestIdle
<1>. QED  BY <1>1, <1>2, <1>3, CallFresh

LEMMA RunDefersFresh == ASSUME IInv, Fresh, VisitRunDefers PROVE Fresh'
<1>. DEFINE x == [Top EXCEPT !.do = "defers", !.i = Len(frames[Top.fr].defers)]
<1>1. /\ Running /\ Top.do = "ins" /\ Cur.op = "rundefers" /\ work' = <<x>> \o Rest
      /\ UNCHANGED <<prog, tree, leaf, ifparent, selNode>>
  BY DEF VisitRunDefers, OnIns, Doing
<1>2. PICK y : ~Waits(prog, y) /\ Rest \in {Pop, <<y>> \o Pop}
  BY <1>1, RestIdle
<1>3. x.do = "defers"
  BY <1>1, AtTop
<1>. HIDE DEF x
<1>4. ~Waits(prog, x)
  BY <1>3 DEF Waits, Armed
<1>5. /\ Sound(tree', leaf', ifparent')
      /\ Cleared(prog, tree', selNode', leaf', ifparent', Pop)
  BY <1>1, SameNodes
<1>6. work' = <<x>> \o Pop \/ work' = <<x>> \o (<<y>> \o Pop)
  BY <1>1, <1>2
<1>. QED  BY <1>1, <1>2, <1>4, <1>5, <1>6, IdleFresh

LEMMA RunDeferFresh == ASSUME IInv, Fresh, RunDefer PROVE Fresh'
<1>. DEFINE y == [Top EXCEPT !.i = @ - 1]
            call == DeferAt(Top.fr, Top.i)
<1>1. Running /\ Top.do = "defers" /\ UNCHANGED <<prog, chans, ifparent, selNode>>
  BY DEF RunDefer, Doing
<1>2. y.do = "defers" /\ ~Waits(prog, y)
  <2>1. y.do = "defers"
    BY <1>1, AtTop
  <2>. QED  BY <2>1 DEF Waits, Armed
<1>3. CASE Top.i = 0
  <2>1. work' = Pop /\ UNCHANGED <<tree, leaf>>
    BY <1>3 DEF RunDefer
  <2>2. /\ Sound(tree', leaf', ifparent')
        /\ Cleared(prog, tree', selNode', leaf', ifparent', Pop)
    BY <1>1, <2>1, SameNodes
  <2>. HIDE DEF y
  <2>. QED  BY <1>1, <1>2, <2>1, <2>2, IdleFresh
<1>4. CASE Top.i # 0
  <2>1. CallCommon(call, <<y>> \o Pop)
    BY <1>4 DEF RunDefer
  <2>2. call \in DeferrableCalls(prog)
    <3>1. /\ Top.fr \in 1..Len(frames) /\ Top.i \in Nat
          /\ Top.i <= Len(frames[Top.fr].defers)
      <4>1. Top \in ItemsOf(prog, frames, tree, chans, selNode)
        BY <1>1, AtTop DEF Items
      <4>2. Top.i <= Len(frames[Top.fr].defers)
        BY <1>1, <4>1 DEF ItemsOf
      <4>. QED  BY <1>1, <4>2, AtTop
    <3>2. frames[Top.fr] \in FrameOf(prog)
      BY <3>1, ElementOfSeq DEF IInv, AreFrames
    <3>3. /\ frames[Top.fr].defers \in Seq(DeferrableCalls(prog))
          /\ Len(frames[Top.fr].defers) \in Nat
      BY <3>2, LenProperties DEF FrameOf
    <3>4. Top.i \in 1..Len(frames[Top.fr].defers)
      BY <1>4, <3>1, <3>3
    <3>. QED  BY <3>3, <3>4, ElementOfSeq DEF DeferAt
  <2>3. call.op = "call" => call.x \in DOMAIN prog
    <3>1. CASE \E g \in DOMAIN prog : call = Call(g)
      BY <3>1 DEF Call, Ins
    <3>2. CASE \E c \in Chan : call = Close(c)
      BY <3>2 DEF Close, Ins
    <3>. QED  BY <2>2, <3>1, <3>2 DEF DeferrableCalls
  <2>. HIDE DEF y, call
  <2>. QED  BY <1>1, <1>2, <2>1, <2>3, CallFresh
<1>. QED  BY <1>3, <1>4

\* A new goroutine starts at a root of its own; the nodes of the others are as before.
LEMMA FunctionFresh ==
    ASSUME IInv, NEW fr, NEW f \in DOMAIN prog, work' = VisitFunc(fr, f), UNCHANGED prog,
           Sound(tree', leaf', ifparent')
    PROVE  Fresh'
<1>. DEFINE s == << >>
            x == VisitOf(fr, f, 1)
<1>1. s \in Seq({x}) /\ Len(s) = 0
  BY EmptySeq
<1>2. Cleared(prog, tree', selNode', leaf', ifparent', s)
  BY <1>1 DEF Cleared
<1>3. CASE prog[f] = << >>
  <2>1. work' = s
    BY <1>3 DEF VisitFunc
  <2>. QED  BY <1>2, <2>1 DEF Fresh
<1>4. CASE prog[f] # << >>
  <2>1. work' = <<x>>
    BY <1>4 DEF VisitFunc
  <2>2. ~Waits(prog, x)
    BY <1>4, EntryNotArmed DEF IInv
  <2>. HIDE DEF x
  <2>3. work' = <<x>> \o s
    <3>1. <<x>> \in Seq({x})
      OBVIOUS
    <3>. QED  BY <2>1, <3>1, ConcatEmptySeq
  <2>4. Clear(prog, tree', selNode', leaf', ifparent', x)
    BY <2>2 DEF Clear
  <2>5. \A j \in 1..Len(s) : Distinct(prog, selNode', x, s[j])
    BY <1>1
  <2>6. x \in {x}
    OBVIOUS
  <2>. HIDE DEF s
  <2>7. Cleared(prog, tree', selNode', leaf', ifparent', <<x>> \o s)
    BY <1>1, <1>2, <2>4, <2>5, <2>6, ClearedOn
  <2>. QED  BY <2>3, <2>7 DEF Fresh
<1>. QED  BY <1>3, <1>4

LEMMA RootAdded ==
    ASSUME NEW p, NEW t, NEW cs, IsTree(p, t, cs), NEW x, x.kids = << >>, NEW lf, NEW ip,
           ip \in Seq(1..Len(t)), Sound(t, lf, ip)
    PROVE  Sound(Append(t, x), Len(t) + 1, ip)
<1>. DEFINE u == Append(t, x)
<1>1. /\ Len(t) \in Nat /\ Len(u) = Len(t) + 1 /\ u[Len(t) + 1] = x
      /\ \A n \in 1..Len(t) : u[n] = t[n]
  <2>1. t \in Seq(NodeOf(p) \cup {x}) /\ x \in NodeOf(p) \cup {x}
    BY SeqMonotonic DEF IsTree
  <2>. QED  BY <2>1, LenProperties, AppendProperties
<1>. HIDE DEF u
<1>2. CountOf(u, Len(t) + 1) = 0
  BY <1>1, EmptySeq DEF CountOf
<1>3. \A n \in 1..Len(t) : CountOf(u, n) = CountOf(t, n)
  BY <1>1 DEF CountOf
<1>4. \A n \in 1..Len(u) : n \in 1..Len(t) \/ n = Len(t) + 1
  BY <1>1
<1>5. ASSUME NEW m \in 1..Len(u), NEW n \in 1..Len(u),
             NEW j \in 1..CountOf(u, m), NEW k \in 1..CountOf(u, n), u[m].kids[j] = u[n].kids[k]
      PROVE  m = n /\ j = k
  <2>1. m \in 1..Len(t) /\ n \in 1..Len(t)
    BY <1>2, <1>4
  <2>2. /\ j \in 1..CountOf(t, m) /\ k \in 1..CountOf(t, n) /\ t[m].kids[j] = t[n].kids[k]
    BY <1>1, <1>3, <1>5, <2>1
  <2>. QED  BY <2>1, <2>2 DEF Sound, ChildOnce
<1>6. ChildOnce(u)
  BY <1>5 DEF ChildOnce
<1>7. \A m \in Range(ip) : m \in 1..Len(t)
  <2>1. \A j \in DOMAIN ip : ip[j] \in 1..Len(t)
    OBVIOUS
  <2>. QED  BY <2>1 DEF Range
<1>. QED  BY <1>1, <1>6, <1>7 DEF Sound, u

\* Run goes from function to function, and ends.
LEMMA RunFresh ==
    ASSUME IInv, Fresh, RunInit \/ RunMain \/ NextGortn \/ EndRun
    PROVE  Fresh'
<1>1. CASE RunInit
  <2>1. /\ work' = VisitFunc(Toplevel, "init") /\ "init" \in DOMAIN prog
        /\ UNCHANGED <<prog, tree, leaf, ifparent>>
    BY <1>1 DEF RunInit, IInv, IsProgram
  <2>. QED  BY <2>1, FunctionFresh DEF Fresh
<1>2. CASE RunMain
  <2>1. UNCHANGED <<prog, tree, leaf, ifparent, selNode>>
    BY <1>2 DEF RunMain
  <2>2. CASE "main" \in DOMAIN prog
    <3>1. work' = VisitFunc(Toplevel, "main")
      BY <1>2, <2>2 DEF RunMain
    <3>. QED  BY <2>1, <2>2, <3>1, FunctionFresh DEF Fresh
  <2>3. CASE "main" \notin DOMAIN prog
    <3>1. work' = work
      BY <1>2, <2>3 DEF RunMain
    <3>. QED  BY <2>1, <3>1 DEF Fresh
  <2>. QED  BY <2>2, <2>3
<1>3. CASE NextGortn
  <2>. DEFINE q == Head(queue)
              x == Leaf("label", frames[q].role)
  <2>1. /\ queue # << >> /\ work' = VisitFunc(q, frames[q].fn) /\ leaf' = Len(tree) + 1
        /\ tree' = Append(tree, x) /\ UNCHANGED <<prog, ifparent>>
    BY <1>3 DEF NextGortn
  <2>2. frames[q].fn \in DOMAIN prog
    <3>1. queue \in Seq(Called(prog, frames))
      BY DEF IInv
    <3>2. q \in Called(prog, frames)
      BY <2>1, <3>1, HeadTailProperties
    <3>. QED  BY <3>2 DEF Called
  <2>3. x.kids = << >>
    BY DEF Leaf
  <2>4. /\ IsTree(prog, tree, chans) /\ ifparent \in Seq(1..Len(tree))
        /\ Sound(tree, leaf, ifparent)
    BY DEF IInv, Fresh
  <2>. HIDE DEF x
  <2>5. Sound(tree', leaf', ifparent')
    BY <2>1, <2>3, <2>4, RootAdded
  <2>. QED  BY <2>1, <2>2, <2>5, FunctionFresh
<1>4. CASE EndRun
  BY <1>4 DEF EndRun, Fresh
<1>. QED  BY <1>1, <1>2, <1>3, <1>4

LEMMA StillFresh ==
    ASSUME Fresh, Overflow \/ Terminated \/ UNCHANGED vars
    PROVE  Fresh'
<1>1. UNCHANGED <<prog, work, tree, leaf, ifparent, selNode>>
  BY DEF Overflow, Terminated, vars
<1>. QED  BY <1>1 DEF Fresh

LEMMA StartFresh == ASSUME Init PROVE Fresh
<1>1. work = << >> /\ ifparent = << >> /\ leaf = 1 /\ tree = <<Leaf("label", Main)>>
  BY DEF Init
<1>2. Len(tree) = 1 /\ tree[1].kids = << >> /\ Len(work) = 0
  BY <1>1 DEF Leaf
<1>3. CountOf(tree, 1) = 0
  BY <1>2 DEF CountOf
<1>4. ChildOnce(tree)
  BY <1>2, <1>3 DEF ChildOnce
<1>5. Range(ifparent) = {}
  BY <1>1 DEF Range
<1>6. Sound(tree, leaf, ifparent)
  BY <1>1, <1>2, <1>4, <1>5 DEF Sound
<1>7. Cleared(prog, tree, selNode, leaf, ifparent, work)
  BY <1>2 DEF Cleared
<1>. QED  BY <1>6, <1>7 DEF Fresh

\* Nothing waits for the cases of a select that is visited: it is visited once.
LEMMA SelectNew ==
    ASSUME IInv, Running, Once, Top.do = "ins", Cur.op = "select",
           NEW j \in 1..Len(Pop), Pop[j].do = "selelse"
    PROVE  Test(prog, Pop[j]).x # Cur.x
<1>. DEFINE w == Pop[j]
<1>1. PICK E : Stacked(prog, frames, E, work)
  BY DEF Once
<1>2. Apart(prog, Top, w) /\ Placed(prog, frames, E, w) /\ w \in Items /\ IsProgram(prog)
  BY <1>1, PopStacked, AtTop
<1>. HIDE DEF w
<1>3. w.do = "selelse" /\ Enters(prog, Top) /\ Enters(prog, w)
  BY DEF w, Enters
<1>4. Cur.x \in SelectsIn(prog, Top.fn, Top.b)
  <2>. DEFINE n == Len(prog[Top.fn][Top.b].ins)
              i == Top.i
  <2>1. i \in 1..n /\ n \in Nat
    BY AtInstruction
  <2>. HIDE DEF n
  <2>2. i \in 1..((n + 1) - 1)
    BY <2>1
  <2>. QED  BY <2>2 DEF SelectsIn, SelectsBefore, Cur, n
<1>5. w.fn \in DOMAIN prog /\ w.b \in 1..Len(prog[w.fn]) /\ w.i \in 1..Len(prog[w.fn][w.b].ins)
  BY <1>2, <1>3, FieldsOfItem DEF Items
<1>6. Test(prog, w) = prog[w.fn][w.b].ins[w.i] /\ Test(prog, w).op = "ifsel"
  BY <1>2, <1>3, TestOfItem DEF Items
<1>. DEFINE x == Test(prog, w).x
<1>7. PICK c \in 1..Len(prog[w.fn]) : x \in SelectsIn(prog, w.fn, c)
  <2>1. IsBlock(prog, w.fn, w.b)
    BY <1>2, <1>5, BlockOfProgram
  <2>2. x \in SelectsBefore(prog, w.fn, w.b, w.i) \cup SelectsAbove(prog, w.fn, w.b)
    <3>. DEFINE i == w.i
    <3>1. i \in 1..Len(prog[w.fn][w.b].ins) /\ prog[w.fn][w.b].ins[i].op = "ifsel"
      BY <1>5, <1>6
    <3>2. prog[w.fn][w.b].ins[i].x \in SelectsBefore(prog, w.fn, w.b, i) \cup SelectsAbove(prog, w.fn, w.b)
      BY <2>1, <3>1, Zenon DEF IsBlock
    <3>. QED  BY <1>6, <3>2
  <2>3. CASE x \in SelectsBefore(prog, w.fn, w.b, w.i)
    <3>. DEFINE n == Len(prog[w.fn][w.b].ins)
                i == w.i
    <3>1. n \in Nat /\ i \in 1..n
      BY <1>5, <2>1 DEF IsBlock
    <3>. HIDE DEF n
    <3>2. \A k \in 1..(i - 1) : k \in 1..((n + 1) - 1)
      BY <3>1
    <3>3. x \in SelectsIn(prog, w.fn, w.b)
      BY <2>3, <3>2 DEF SelectsIn, SelectsBefore, n
    <3>. QED  BY <1>5, <3>3
  <2>4. CASE x \in SelectsAbove(prog, w.fn, w.b)
    BY <2>4 DEF SelectsAbove
  <2>. QED  BY <2>2, <2>3, <2>4
<1>8. ASSUME x = Cur.x PROVE FALSE
  <2>1. SelectsIn(prog, w.fn, c) \cap SelectsIn(prog, Top.fn, Top.b) # {}
    BY <1>4, <1>7, <1>8
  <2>2. Top.fn \in DOMAIN prog /\ Top.b \in 1..Len(prog[Top.fn])
    BY AtTop
  <2>3. w.fn = Top.fn
    BY <1>2, <1>5, <1>7, <2>1, <2>2, Zenon DEF IsProgram, SelectsApart
  <2>. QED  BY <1>2, <1>3, <1>4, <1>8, <2>3 DEF Apart
<1>. QED  BY <1>8 DEF w

\* What waits below a select that is visited waits for the nodes of others.
LEMMA SelectKept ==
    ASSUME IInv, Running, Once, Fresh, Top.do = "ins", Cur.op = "select", NEW sel,
           \A x \in DOMAIN selNode : x # Cur.x => sel[x] = selNode[x],
           NEW j \in 1..Len(Pop), Waits(prog, Pop[j])
    PROVE  /\ From(prog, sel, Pop[j]) = From(prog, selNode, Pop[j])
           /\ From(prog, selNode, Pop[j]) # leaf
<1>1. From(prog, selNode, Pop[j]) # leaf /\ ~Armed(prog, Pop[j])
  BY WaitsElsewhere, PopFresh
<1>2. CASE Pop[j].do = "stop"
  BY <1>1, <1>2 DEF From
<1>3. CASE Pop[j].do = "selelse"
  <2>. DEFINE x == Test(prog, Pop[j]).x
  <2>1. x # Cur.x
    BY <1>3, SelectNew
  <2>2. x \in DOMAIN selNode
    <3>. DEFINE w == Pop[j]
    <3>1. w \in ItemsOf(prog, frames, tree, chans, selNode) /\ IsProgram(prog)
      <4>1. Pop \in Seq(Items) /\ IsProgram(prog)
        BY AtTop
      <4>. QED  BY <4>1, ElementOfSeq DEF Items
    <3>. HIDE DEF w
    <3>2. w.do = "selelse"
      BY <1>3 DEF w
    <3>3. Test(prog, w) = prog[w.fn][w.b].ins[w.i] /\ Test(prog, w).op = "ifsel"
      BY <3>1, <3>2, TestOfItem
    <3>4. /\ w.fn \in DOMAIN prog /\ w.b \in 1..Len(prog[w.fn])
          /\ w.i \in 1..Len(prog[w.fn][w.b].ins)
          /\ SelectsBefore(prog, w.fn, w.b, w.i) \subseteq DOMAIN selNode
          /\ SelectsAbove(prog, w.fn, w.b) \subseteq DOMAIN selNode
      BY <3>1, <3>2 DEF ItemsOf
    <3>5. IsBlock(prog, w.fn, w.b)
      BY <3>1, <3>4, BlockOfProgram
    <3>6. prog[w.fn][w.b].ins[w.i].x
            \in SelectsBefore(prog, w.fn, w.b, w.i) \cup SelectsAbove(prog, w.fn, w.b)
      BY <3>3, <3>4, <3>5, Zenon DEF IsBlock
    <3>7. Test(prog, w).x \in DOMAIN selNode
      BY <3>3, <3>4, <3>6
    <3>. QED  BY <3>7 DEF w
  <2>. HIDE DEF x
  <2>3. sel[x] = selNode[x]
    BY <2>1, <2>2
  <2>. QED  BY <1>1, <1>3, <2>3 DEF From, x
<1>. QED  BY <1>1, <1>2, <1>3 DEF Waits

\* visitSelect: a node for each case, and none of them has been gone on from.
LEMMA SelectFresh == ASSUME IInv, Once, Fresh, VisitSelect PROVE Fresh'
<1>. DEFINE k == NodesOf(Cur)
            y == [Top EXCEPT !.i = @ + 1]
<1>1. Running /\ Top.do = "ins" /\ Cur.op = "select" /\ UNCHANGED <<prog, ifparent>>
  BY DEF VisitSelect, OnIns, Doing
<1>2. CASE \E c \in 1..Len(Cur.args) : Cur.args[c].x \notin chans
  <2>1. UNCHANGED <<work, tree, leaf, selNode>>
    BY <1>2 DEF VisitSelect
  <2>. QED  BY <1>1, <2>1 DEF Fresh
<1>3. CASE \A c \in 1..Len(Cur.args) : Cur.args[c].x \in chans
  <2>1. /\ k \in Nat /\ GrownBy(tree, tree', leaf, k) /\ Len(tree) \in Nat
        /\ leaf' = (IF k = 0 THEN leaf ELSE Len(tree) + k) /\ work' = Rest
        /\ selNode' = [x \in DOMAIN selNode \cup {Cur.x} |->
                         IF x = Cur.x THEN [parent |-> leaf, blocking |-> Blocking(Cur)]
                         ELSE selNode[x]]
        /\ AreSelects(prog, tree', selNode)
    BY <1>3, NodesOfCases
  <2>2. leaf \in 1..Len(tree) /\ tree[leaf].kids = << >> /\ leaf \notin Range(ifparent)
    BY DEF IInv, Fresh, Sound
  <2>3. CountOf(tree, leaf) = 0
    BY <2>2, EmptySeq DEF CountOf
  <2>4. \A n \in TestedCases(prog, Cur.x) : n \in Nat /\ n < k
    BY <1>1, AtInstruction DEF IsInstruction
  <2>. HIDE DEF k
  <2>5. k # 0 \/ tree'[leaf].kids = << >>
    <3>1. SUFFICES ASSUME k = 0 PROVE tree'[leaf].kids = << >>
      OBVIOUS
    <3>2. Len(tree'[leaf].kids) = 0
      BY <2>1, <2>3, <3>1 DEF GrownBy, CountOf
    <3>3. tree'[leaf] \in NodeOf(prog)
      <4>1. IsTree(prog, tree', chans') /\ Len(tree') = Len(tree) + k
        BY <1>3, <2>1, NodesOfCases DEF GrownBy
      <4>2. leaf \in 1..Len(tree')
        BY <2>1, <2>2, <4>1
      <4>. QED  BY <4>1, <4>2, ElementOfSeq DEF IsTree
    <3>. QED  BY <3>2, <3>3, EmptySeq DEF NodeOf
  <2>6. ASSUME NEW j \in 1..Len(Pop), Waits(prog, Pop[j])
        PROVE  /\ From(prog, selNode', Pop[j]) = From(prog, selNode, Pop[j])
               /\ From(prog, selNode, Pop[j]) # leaf
    <3>1. \A x \in DOMAIN selNode : x # Cur.x => selNode'[x] = selNode[x]
      BY <2>1
    <3>. QED  BY <1>1, <2>6, <3>1, SelectKept
  <2>7. /\ Sound(tree', leaf', ifparent')
        /\ Cleared(prog, tree', selNode', leaf', ifparent', Pop)
    BY <1>1, <2>1, <2>2, <2>5, <2>6, GrowFresh
  <2>8. CASE ~(Top.i < Len(prog[Top.fn][Top.b].ins))
    <3>1. work' = Pop
      BY <2>1, <2>8 DEF Rest
    <3>2. ~Waits(prog, Item("defers", 0, 0, 0, 0, 0))
      BY DEF Waits, Armed, Item
    <3>. QED  BY <1>1, <2>7, <3>1, <3>2, IdleFresh
  <2>9. CASE Top.i < Len(prog[Top.fn][Top.b].ins) /\ ~Armed(prog, y)
    <3>1. work' = <<y>> \o Pop
      BY <2>1, <2>9 DEF Rest
    <3>2. y.do = "ins"
      BY <1>1, AtTop
    <3>. HIDE DEF y
    <3>3. ~Waits(prog, y)
      BY <2>9, <3>2 DEF Waits
    <3>. QED  BY <1>1, <2>7, <3>1, <3>3, IdleFresh
  <2>10. CASE Top.i < Len(prog[Top.fn][Top.b].ins) /\ Armed(prog, y)
    <3>1. /\ work' = <<y>> \o Pop /\ y.do = "ins" /\ y.fn = Top.fn /\ y.b = Top.b
          /\ Test(prog, Top).op = "ifsel" /\ Test(prog, Top).x = Cur.x /\ Test(prog, Top).n = 0
      BY <1>1, <2>1, <2>10, NextArmed, AtTop DEF Rest
    <3>. HIDE DEF y
    <3>2. Test(prog, y) = Test(prog, Top) /\ selNode'[Cur.x].parent = leaf
      BY <2>1, <3>1 DEF Test
    <3>3. From(prog, selNode', y) = leaf /\ Waits(prog, y)
      BY <2>10, <3>1, <3>2 DEF From, Waits
    <3>4. k # 0
      <4>. DEFINE i == Len(prog[Top.fn][Top.b].ins)
      <4>1. /\ Top.fn \in DOMAIN prog /\ Top.b \in 1..Len(prog[Top.fn])
            /\ i \in 1..Len(prog[Top.fn][Top.b].ins) /\ Test(prog, Top) = prog[Top.fn][Top.b].ins[i]
        <5>1. Len(prog[Top.fn][Top.b].ins) \in Nat \ {0}
          BY <1>1, AtTop DEF IsBlock
        <5>. QED  BY <1>1, <5>1, AtTop DEF Test, Ending
      <4>. HIDE DEF i
      <4>2. 0 \in TestedCases(prog, Cur.x)
        BY <3>1, <4>1, CaseTested
      <4>. QED  BY <2>1, <2>4, <4>2
    <3>5. /\ leaf \in 1..Len(tree') /\ tree'[leaf].kids # << >>
      <4>1. IsTree(prog, tree, chans) /\ ChildOnce(tree)
        BY DEF IInv, Fresh, Sound
      <4>. QED  BY <2>1, <2>2, <3>4, <4>1, GrownSound
    <3>6. ASSUME NEW c \in Later(prog, tree', selNode', y) PROVE tree'[c].kids = << >>
      <4>1. PICK j \in 1..CountOf(tree', leaf) : c = tree'[leaf].kids[j]
        BY <3>3, <3>6 DEF Later
      <4>2. CountOf(tree', leaf) = k
        BY <2>1, <2>3 DEF GrownBy
      <4>3. j \in 1..k /\ CountOf(tree, leaf) + j = j
        BY <2>3, <4>1, <4>2
      <4>4. c = Len(tree) + j
        BY <2>1, <4>1, <4>3 DEF GrownBy
      <4>. QED  BY <2>1, <4>3, <4>4 DEF GrownBy
    <3>7. Clear(prog, tree', selNode', leaf', ifparent', y)
      BY <1>1, <2>2, <3>1, <3>3, <3>5, <3>6 DEF Clear
    <3>8. \A j \in 1..Len(Pop) : Distinct(prog, selNode', y, Pop[j])
      BY <1>1, <2>6, <3>3, PopFresh DEF Distinct
    <3>. QED  BY <1>1, <2>7, <3>1, <3>7, <3>8, WaitOn
  <2>. QED  BY <2>8, <2>9, <2>10
<1>. QED  BY <1>2, <1>3

\* No step appends a node where a case is still to come.
LEMMA FreshStep == ASSUME IInv, Once, Fresh, [Next]_vars PROVE Fresh'
<1>1. CASE Next
  BY <1>1, RunFresh, BlockFresh, CommFresh, SelectFresh, JumpFresh, IfFresh, ElseFresh,
     EndIfFresh, IfRecvFresh, StopFresh, IfSelFresh, SelElseFresh, CallInsFresh,
     RunDefersFresh, RunDeferFresh, StillFresh DEF Next
<1>. QED  BY <1>1, StillFresh

\* A run is a run of one program.
LEMMA ProgramKept == ASSUME [Next]_vars PROVE prog' = prog
BY DEF Next, RunInit, RunMain, NextGortn, EndRun, VisitBlock, VisitComm, VisitRecvOk,
   VisitSelect, VisitJump, VisitReturn, VisitIf, VisitElse, EndIf, VisitIfRecv, VisitStop,
   VisitIfSel, VisitSelElse, VisitCall, CallGo, VisitDefer, VisitRunDefers, RunDefer,
   Overflow, Terminated, vars

\* visitBlock and visitInst go on at a leaf without children, in every run of a
\* program whose calls are inlined at most once.
THEOREM CasesFresh == Spec => [](Inlinable => FreshLeaf)
<1>. DEFINE FInv == Inlinable => Once /\ Fresh
<1>1. Init => FInv
  BY StartOnce, StartFresh
<1>2. IInv /\ FInv /\ [Next]_vars => FInv'
  <2>1. SUFFICES ASSUME IInv, FInv, [Next]_vars, Inlinable' PROVE Once' /\ Fresh'
    OBVIOUS
  <2>2. prog' = prog
    BY <2>1, ProgramKept
  <2>3. Inlinable
    BY <2>1, <2>2 DEF Inlinable, Endless
  <2>. QED  BY <2>1, <2>3, OnceStep, FreshStep
<1>3. FInv => (Inlinable => FreshLeaf)
  BY DEF Fresh, Sound, FreshLeaf
<1>. HIDE DEF FInv
<1>. QED  BY <1>1, <1>2, <1>3, Inductive, PTL DEF Spec

-----------------------------------------------------------------------------
(* Before and below in a tree. *)

IsNodes(t) ==
    /\ Len(t) \in Nat
    /\ \A n \in 1..Len(t) : /\ CountOf(t, n) \in Nat
                            /\ \A j \in 1..CountOf(t, n) : t[n].kids[j] \in (n+1)..Len(t)

\* n is m or below m: it is in every set that m is in and that holds the children of
\* its nodes.
HoldsKids(t, S) == \A n \in S : \A j \in 1..CountOf(t, n) : t[n].kids[j] \in S
Within(t, m, n) == \A S \in SUBSET (1..Len(t)) : m \in S /\ HoldsKids(t, S) => n \in S

\* m is n, or visited before n.
Earlier(t, m, n) ==
    \/ Within(t, m, n)
    \/ \E q \in 1..Len(t) : \E j, k \in 1..CountOf(t, q) :
          j < k /\ Within(t, t[q].kids[j], m) /\ Within(t, t[q].kids[k], n)

\* What IsTree says of the nodes.
LEMMA TreeNodes ==
    ASSUME NEW p, NEW t, NEW cs, IsTree(p, t, cs)
    PROVE  IsNodes(t)
<1>1. Len(t) \in Nat
  BY LenProperties DEF IsTree
<1>2. ASSUME NEW n \in 1..Len(t)
      PROVE  CountOf(t, n) \in Nat /\ \A j \in 1..CountOf(t, n) : t[n].kids[j] \in (n+1)..Len(t)
  <2>1. t[n] \in NodeOf(p)
    BY ElementOfSeq DEF IsTree
  <2>2. CountOf(t, n) \in Nat
    BY <2>1, LenProperties DEF NodeOf, CountOf
  <2>. QED  BY <2>2 DEF IsTree, CountOf
<1>. QED  BY <1>1, <1>2 DEF IsNodes

\* What grows keeps its nodes.
LEMMA GrownNodes ==
    ASSUME NEW t, IsNodes(t), NEW q \in 1..Len(t), NEW k \in Nat, NEW u, GrownBy(t, u, q, k)
    PROVE  /\ IsNodes(u) /\ 1..Len(t) \subseteq 1..Len(u) /\ Len(u) = Len(t) + k
           /\ \A n \in 1..Len(t) : \A j \in 1..CountOf(t, n) :
                 j \in 1..CountOf(u, n) /\ u[n].kids[j] = t[n].kids[j]
           /\ \A n \in 1..Len(t) : n # q => CountOf(u, n) = CountOf(t, n)
           /\ CountOf(u, q) = CountOf(t, q) + k
           /\ \A i \in 1..k : /\ CountOf(u, Len(t) + i) = 0
                              /\ CountOf(t, q) + i \in 1..CountOf(u, q)
                              /\ u[q].kids[CountOf(t, q) + i] = Len(t) + i
<1>1. /\ Len(t) \in Nat /\ Len(u) = Len(t) + k
      /\ \A n \in 1..Len(t) : CountOf(t, n) \in Nat
  BY DEF IsNodes, GrownBy
<1>2. \A n \in 1..Len(t) : n # q => CountOf(u, n) = CountOf(t, n)
  BY DEF GrownBy, CountOf
<1>3. CountOf(u, q) = CountOf(t, q) + k
  BY DEF GrownBy
<1>4. ASSUME NEW i \in 1..k
      PROVE  /\ CountOf(u, Len(t) + i) = 0
             /\ CountOf(t, q) + i \in 1..CountOf(u, q)
             /\ u[q].kids[CountOf(t, q) + i] = Len(t) + i
  <2>1. u[Len(t) + i].kids = << >> /\ u[q].kids[CountOf(t, q) + i] = Len(t) + i
    BY DEF GrownBy
  <2>2. CountOf(u, Len(t) + i) = 0
    BY <2>1, EmptySeq DEF CountOf
  <2>. QED  BY <1>1, <1>3, <2>1, <2>2
<1>5. ASSUME NEW n \in 1..Len(t), NEW j \in 1..CountOf(t, n)
      PROVE  j \in 1..CountOf(u, n) /\ u[n].kids[j] = t[n].kids[j]
  <2>1. CASE n # q
    BY <1>2, <2>1 DEF GrownBy
  <2>2. CASE n = q
    BY <1>1, <1>3, <2>2 DEF GrownBy
  <2>. QED  BY <2>1, <2>2
<1>6. ASSUME NEW n \in 1..Len(u)
      PROVE  CountOf(u, n) \in Nat /\ \A j \in 1..CountOf(u, n) : u[n].kids[j] \in (n+1)..Len(u)
  <2>1. CASE n \in 1..Len(t)
    <3>1. CountOf(u, n) \in Nat
      BY <1>1, <1>2, <1>3, <2>1
    <3>2. ASSUME NEW j \in 1..CountOf(u, n) PROVE u[n].kids[j] \in (n+1)..Len(u)
      <4>1. CASE j \in 1..CountOf(t, n)
        <5>1. u[n].kids[j] \in (n+1)..Len(t)
          BY <1>5, <2>1, <4>1 DEF IsNodes
        <5>. QED  BY <1>1, <5>1
      <4>2. CASE j \notin 1..CountOf(t, n)
        <5>1. n = q
          BY <1>2, <2>1, <4>2
        <5>. DEFINE i == j - CountOf(t, q)
        <5>2. i \in 1..k /\ j = CountOf(t, q) + i
          BY <1>1, <1>3, <4>2, <5>1
        <5>. HIDE DEF i
        <5>3. u[n].kids[j] = Len(t) + i
          BY <1>4, <5>1, <5>2
        <5>. QED  BY <1>1, <2>1, <5>2, <5>3
      <4>. QED  BY <4>1, <4>2
    <3>. QED  BY <3>1, <3>2
  <2>2. CASE n \notin 1..Len(t)
    <3>. DEFINE i == n - Len(t)
    <3>1. i \in 1..k /\ n = Len(t) + i
      BY <1>1, <2>2
    <3>. HIDE DEF i
    <3>2. CountOf(u, n) = 0
      BY <1>4, <3>1
    <3>. QED  BY <3>2
  <2>. QED  BY <2>1, <2>2
<1>7. Len(u) \in Nat /\ 1..Len(t) \subseteq 1..Len(u)
  BY <1>1
<1>. QED  BY <1>1, <1>2, <1>3, <1>4, <1>5, <1>6, <1>7 DEF IsNodes

\* Within is reflexive and transitive, and goes from parents to children.
LEMMA WithinItself == \A t, m : Within(t, m, m)
BY DEF Within

LEMMA WithinOn ==
    ASSUME NEW t, NEW a, NEW b, NEW c, Within(t, a, b), Within(t, b, c)
    PROVE  Within(t, a, c)
BY DEF Within

LEMMA WithinKid ==
    ASSUME NEW t, NEW n, NEW j \in 1..CountOf(t, n)
    PROVE  Within(t, n, t[n].kids[j])
BY DEF Within, HoldsKids

LEMMA WithinUp ==
    ASSUME NEW t, IsNodes(t), NEW m \in 1..Len(t), NEW n, Within(t, m, n)
    PROVE  n \in m..Len(t)
<1>. DEFINE S == m..Len(t)
<1>1. S \in SUBSET (1..Len(t)) /\ m \in S
  BY DEF IsNodes
<1>2. ASSUME NEW x \in S, NEW j \in 1..CountOf(t, x) PROVE t[x].kids[j] \in S
  <2>1. x \in 1..Len(t) /\ Len(t) \in Nat
    BY <1>1 DEF IsNodes
  <2>2. t[x].kids[j] \in (x+1)..Len(t)
    BY <2>1 DEF IsNodes
  <2>. QED  BY <2>1, <2>2
<1>3. HoldsKids(t, S)
  BY <1>2 DEF HoldsKids
<1>. HIDE DEF S
<1>4. n \in S
  BY <1>1, <1>3 DEF Within
<1>. QED  BY <1>4 DEF S

\* What is below a node is below one of its children.
LEMMA WithinSplit ==
    ASSUME NEW t, IsNodes(t), NEW m \in 1..Len(t), NEW n, Within(t, m, n), n # m
    PROVE  \E j \in 1..CountOf(t, m) : Within(t, t[m].kids[j], n)
<1>. DEFINE S == {x \in 1..Len(t) : x = m \/ \E j \in 1..CountOf(t, m) : Within(t, t[m].kids[j], x)}
<1>1. ASSUME NEW x \in S, NEW i \in 1..CountOf(t, x) PROVE t[x].kids[i] \in S
  <2>1. x \in 1..Len(t) /\ Len(t) \in Nat /\ t[x].kids[i] \in (x+1)..Len(t)
    BY DEF IsNodes
  <2>2. t[x].kids[i] \in 1..Len(t)
    BY <2>1
  <2>3. \E j \in 1..CountOf(t, m) : Within(t, t[m].kids[j], t[x].kids[i])
    <3>1. CASE x = m
      BY <3>1, WithinItself
    <3>2. CASE x # m
      <4>1. PICK j \in 1..CountOf(t, m) : Within(t, t[m].kids[j], x)
        BY <3>2
      <4>2. Within(t, x, t[x].kids[i])
        BY WithinKid
      <4>3. Within(t, t[m].kids[j], t[x].kids[i])
        BY <4>1, <4>2, WithinOn
      <4>. QED  BY <4>3
    <3>. QED  BY <3>1, <3>2
  <2>. QED  BY <2>2, <2>3
<1>2. HoldsKids(t, S) /\ S \in SUBSET (1..Len(t)) /\ m \in S
  BY <1>1 DEF HoldsKids
<1>. HIDE DEF S
<1>3. n \in S
  BY <1>2 DEF Within
<1>. QED  BY <1>3 DEF S

\* In a tree that has grown what was below is below, and the new nodes are below the
\* node they were appended to.
LEMMA WithinGrown ==
    ASSUME NEW t, IsNodes(t), NEW q \in 1..Len(t), NEW k \in Nat, NEW u, GrownBy(t, u, q, k),
           NEW a \in 1..Len(t)
    PROVE  /\ \A b \in 1..Len(t) : Within(t, a, b) => Within(u, a, b)
           /\ Within(t, a, q) => \A i \in 1..k : Within(u, a, Len(t) + i)
<1>1. ASSUME NEW b, Within(t, a, b) PROVE Within(u, a, b)
  <2>1. SUFFICES ASSUME NEW S \in SUBSET (1..Len(u)), a \in S, HoldsKids(u, S) PROVE b \in S
    BY DEF Within
  <2>. DEFINE T == S \cap (1..Len(t))
  <2>2. ASSUME NEW n \in T, NEW j \in 1..CountOf(t, n) PROVE t[n].kids[j] \in T
    <3>1. n \in 1..Len(t) /\ t[n].kids[j] \in (n+1)..Len(t) /\ Len(t) \in Nat
      BY DEF IsNodes
    <3>2. j \in 1..CountOf(u, n) /\ u[n].kids[j] = t[n].kids[j]
      BY <3>1, GrownNodes
    <3>3. t[n].kids[j] \in S
      BY <2>1, <3>2 DEF HoldsKids
    <3>. QED  BY <3>1, <3>3
  <2>3. HoldsKids(t, T) /\ a \in T /\ T \in SUBSET (1..Len(t))
    BY <2>1, <2>2 DEF HoldsKids
  <2>. HIDE DEF T
  <2>4. b \in T
    BY <1>1, <2>3 DEF Within
  <2>. QED  BY <2>4 DEF T
<1>2. ASSUME Within(t, a, q), NEW i \in 1..k PROVE Within(u, a, Len(t) + i)
  <2>. DEFINE j == CountOf(t, q) + i
  <2>1. j \in 1..CountOf(u, q) /\ u[q].kids[j] = Len(t) + i
    BY GrownNodes
  <2>. HIDE DEF j
  <2>2. Within(u, q, Len(t) + i)
    BY <2>1, WithinKid
  <2>. QED  BY <1>1, <1>2, <2>2, WithinOn
<1>. QED  BY <1>1, <1>2

\* What is before a node is before all below it, and stays so when the tree grows.
LEMMA EarlierOn ==
    ASSUME NEW t, NEW l, NEW m, NEW n, Earlier(t, l, m), Within(t, m, n)
    PROVE  Earlier(t, l, n)
<1>1. CASE Within(t, l, m)
  BY <1>1, WithinOn DEF Earlier
<1>2. CASE ~Within(t, l, m)
  <2>1. PICK q \in 1..Len(t) : \E j, k \in 1..CountOf(t, q) :
           j < k /\ Within(t, t[q].kids[j], l) /\ Within(t, t[q].kids[k], m)
    BY <1>2 DEF Earlier
  <2>2. PICK j \in 1..CountOf(t, q), k \in 1..CountOf(t, q) :
           j < k /\ Within(t, t[q].kids[j], l) /\ Within(t, t[q].kids[k], m)
    BY <2>1
  <2>3. Within(t, t[q].kids[k], n)
    BY <2>2, WithinOn
  <2>. QED  BY <2>2, <2>3 DEF Earlier
<1>. QED  BY <1>1, <1>2

LEMMA EarlierGrown ==
    ASSUME NEW t, IsNodes(t), NEW q \in 1..Len(t), NEW k \in Nat, NEW u, GrownBy(t, u, q, k),
           NEW l \in 1..Len(t), NEW n \in 1..Len(t), Earlier(t, l, n)
    PROVE  Earlier(u, l, n)
<1>1. CASE Within(t, l, n)
  BY <1>1, WithinGrown DEF Earlier
<1>2. CASE ~Within(t, l, n)
  <2>1. PICK m \in 1..Len(t) : \E i, j \in 1..CountOf(t, m) :
           i < j /\ Within(t, t[m].kids[i], l) /\ Within(t, t[m].kids[j], n)
    BY <1>2 DEF Earlier
  <2>2. PICK i \in 1..CountOf(t, m), j \in 1..CountOf(t, m) :
           i < j /\ Within(t, t[m].kids[i], l) /\ Within(t, t[m].kids[j], n)
    BY <2>1
  <2>. DEFINE a == t[m].kids[i]
              b == t[m].kids[j]
  <2>3. a \in 1..Len(t) /\ b \in 1..Len(t)
    <3>1. a \in (m+1)..Len(t) /\ b \in (m+1)..Len(t) /\ Len(t) \in Nat
      BY DEF IsNodes
    <3>. QED  BY <3>1
  <2>4. /\ i \in 1..CountOf(u, m) /\ j \in 1..CountOf(u, m) /\ m \in 1..Len(u)
        /\ u[m].kids[i] = a /\ u[m].kids[j] = b
    BY GrownNodes
  <2>. HIDE DEF a, b
  <2>5. Within(t, a, l) /\ Within(t, b, n)
    BY <2>2 DEF a, b
  <2>6. Within(u, a, l) /\ Within(u, b, n)
    BY <2>3, <2>5, WithinGrown
  <2>. QED  BY <2>2, <2>4, <2>6 DEF Earlier
<1>. QED  BY <1>1, <1>2

\* A node that is appended comes after what is below the node it is appended to.
LEMMA EarlierLast ==
    ASSUME NEW t, IsNodes(t), NEW q \in 1..Len(t), NEW k \in Nat, NEW u, GrownBy(t, u, q, k),
           NEW i \in 1..k, NEW l \in 1..Len(t), Within(t, q, l)
    PROVE  Earlier(u, l, Len(t) + i)
<1>1. CASE l = q
  <2>1. Within(u, q, Len(t) + i)
    BY WithinItself, WithinGrown
  <2>. QED  BY <1>1, <2>1 DEF Earlier
<1>2. CASE l # q
  <2>1. PICK j \in 1..CountOf(t, q) : Within(t, t[q].kids[j], l)
    BY <1>2, WithinSplit
  <2>. DEFINE a == t[q].kids[j]
              c == CountOf(t, q) + i
  <2>2. a \in 1..Len(t) /\ j < c
    <3>1. a \in (q+1)..Len(t) /\ Len(t) \in Nat /\ CountOf(t, q) \in Nat
      BY DEF IsNodes
    <3>. QED  BY <3>1
  <2>3. /\ j \in 1..CountOf(u, q) /\ u[q].kids[j] = a /\ q \in 1..Len(u)
        /\ c \in 1..CountOf(u, q) /\ u[q].kids[c] = Len(t) + i
    BY GrownNodes
  <2>. HIDE DEF a, c
  <2>4. Within(u, a, l)
    BY <2>1, <2>2, WithinGrown DEF a
  <2>5. Within(u, u[q].kids[c], Len(t) + i)
    BY <2>3, WithinItself
  <2>. QED  BY <2>2, <2>3, <2>4, <2>5 DEF Earlier
<1>. QED  BY <1>1, <1>2

\* A child comes after what is below its parent, if it and those after it have no
\* children.
LEMMA EarlierCase ==
    ASSUME NEW t, IsNodes(t), NEW q \in 1..Len(t), NEW k \in 1..CountOf(t, q), NEW l,
           Within(t, q, l),
           \A i \in k..CountOf(t, q) : t[q].kids[i] # l /\ CountOf(t, t[q].kids[i]) = 0
    PROVE  Earlier(t, l, t[q].kids[k])
<1>1. CASE l = q
  BY <1>1, WithinKid DEF Earlier
<1>2. CASE l # q
  <2>1. PICK j \in 1..CountOf(t, q) : Within(t, t[q].kids[j], l)
    BY <1>2, WithinSplit
  <2>2. CASE j < k
    BY <2>1, <2>2, WithinItself DEF Earlier
  <2>3. CASE ~(j < k)
    <3>1. j \in k..CountOf(t, q) /\ Len(t) \in Nat /\ t[q].kids[j] \in (q+1)..Len(t)
      BY <2>3 DEF IsNodes
    <3>. DEFINE a == t[q].kids[j]
    <3>2. a # l /\ CountOf(t, a) = 0 /\ a \in 1..Len(t)
      BY <3>1
    <3>. HIDE DEF a
    <3>3. PICK i \in 1..CountOf(t, a) : Within(t, t[a].kids[i], l)
      BY <2>1, <3>2, WithinSplit DEF a
    <3>. QED  BY <3>2, <3>3
  <2>. QED  BY <2>2, <2>3
<1>. QED  BY <1>1, <1>2

-----------------------------------------------------------------------------
(* The nodes to which the work that is left goes back, from the leaf up to *)
(* the root.                                                               *)

IsLabel(t, n) == t[n].kind = "label"

\* The labels of the tree of root rt are before n or below it.
LabelsAhead(t, rt, n) ==
    \A l \in rt..Len(t) : IsLabel(t, l) => Earlier(t, l, n) \/ Within(t, n, l)

\* a is on the way from rt to lf, below the nodes of ps; 0 is no node.
Lowest(t, rt, lf, a, ps) ==
    /\ a \in 1..Len(t) /\ Within(t, rt, a) /\ Within(t, a, lf) /\ LabelsAhead(t, rt, a)
    /\ \A j \in 1..Len(ps) : ps[j] # 0 => Within(t, ps[j], a)

Spine(t, rt, lf, ps) ==
    /\ rt \in 1..Len(t) /\ lf \in 1..Len(t) /\ Within(t, rt, lf)
    /\ \A l \in rt..Len(t) : IsLabel(t, l) => Earlier(t, l, lf)
    /\ \A j \in 1..Len(ps) : ps[j] # 0 =>
          /\ ps[j] \in 1..Len(t) /\ Within(t, rt, ps[j]) /\ Within(t, ps[j], lf)
          /\ LabelsAhead(t, rt, ps[j])
          /\ \A i \in 1..(j-1) : ps[i] # 0 => Within(t, ps[j], ps[i])

LEMMA SpineOn ==
    ASSUME NEW t, NEW rt, NEW lf, NEW a \in Nat, NEW ps \in Seq(Nat)
    PROVE  Spine(t, rt, lf, <<a>> \o ps)
             <=> Spine(t, rt, lf, ps) /\ (a = 0 \/ Lowest(t, rt, lf, a, ps))
<1>. DEFINE v == <<a>> \o ps
<1>1. /\ Len(ps) \in Nat /\ Len(v) = Len(ps) + 1 /\ v[1] = a
      /\ \A j \in 1..Len(ps) : v[j + 1] = ps[j]
  BY BeforeAt
<1>2. \A j \in 1..Len(ps) : j + 1 \in 1..Len(v) /\ 1 \in 1..((j + 1) - 1) /\ j + 1 # 1
  BY <1>1
<1>3. 1 \in 1..Len(v)
  BY <1>1
<1>. HIDE DEF v
<1>4. ASSUME Spine(t, rt, lf, v) PROVE Spine(t, rt, lf, ps) /\ (a = 0 \/ Lowest(t, rt, lf, a, ps))
  <2>1. ASSUME NEW j \in 1..Len(ps), ps[j] # 0
        PROVE  /\ ps[j] \in 1..Len(t) /\ Within(t, rt, ps[j]) /\ Within(t, ps[j], lf)
               /\ LabelsAhead(t, rt, ps[j])
               /\ \A i \in 1..(j-1) : ps[i] # 0 => Within(t, ps[j], ps[i])
               /\ a # 0 => Within(t, ps[j], a)
    <3>1. v[j + 1] = ps[j] /\ j + 1 \in 1..Len(v)
      BY <1>1, <1>2
    <3>2. /\ ps[j] \in 1..Len(t) /\ Within(t, rt, ps[j]) /\ Within(t, ps[j], lf)
          /\ LabelsAhead(t, rt, ps[j])
          /\ \A i \in 1..((j + 1) - 1) : v[i] # 0 => Within(t, ps[j], v[i])
      BY <1>4, <2>1, <3>1 DEF Spine
    <3>3. ASSUME NEW i \in 1..(j-1), ps[i] # 0 PROVE Within(t, ps[j], ps[i])
      <4>1. i + 1 \in 1..((j + 1) - 1) /\ i \in 1..Len(ps)
        BY <1>1
      <4>. QED  BY <1>1, <3>2, <3>3, <4>1
    <3>4. a # 0 => Within(t, ps[j], a)
      BY <1>1, <1>2, <3>2
    <3>. QED  BY <3>2, <3>3, <3>4
  <2>2. Spine(t, rt, lf, ps)
    BY <1>4, <2>1 DEF Spine
  <2>3. a # 0 => Lowest(t, rt, lf, a, ps)
    BY <1>1, <1>3, <1>4, <2>1 DEF Spine, Lowest
  <2>. QED  BY <2>2, <2>3
<1>5. ASSUME Spine(t, rt, lf, ps), a = 0 \/ Lowest(t, rt, lf, a, ps) PROVE Spine(t, rt, lf, v)
  <2>1. ASSUME NEW j \in 1..Len(v), v[j] # 0
        PROVE  /\ v[j] \in 1..Len(t) /\ Within(t, rt, v[j]) /\ Within(t, v[j], lf)
               /\ LabelsAhead(t, rt, v[j])
               /\ \A i \in 1..(j-1) : v[i] # 0 => Within(t, v[j], v[i])
    <3>1. CASE j = 1
      BY <1>1, <1>5, <2>1, <3>1 DEF Lowest
    <3>2. CASE j # 1
      <4>1. j - 1 \in 1..Len(ps) /\ (j - 1) + 1 = j
        BY <1>1, <3>2
      <4>2. v[j] = ps[j - 1]
        BY <1>1, <4>1
      <4>3. ASSUME NEW i \in 1..(j-1), v[i] # 0 PROVE Within(t, v[j], v[i])
        <5>1. CASE i = 1
          BY <1>1, <1>5, <2>1, <4>1, <4>2, <4>3, <5>1 DEF Lowest
        <5>2. CASE i # 1
          <6>1. i - 1 \in 1..((j - 1) - 1) /\ i - 1 \in 1..Len(ps) /\ (i - 1) + 1 = i
            BY <1>1, <4>1, <5>2
          <6>2. v[i] = ps[i - 1]
            BY <1>1, <6>1
          <6>. QED  BY <1>5, <2>1, <4>1, <4>2, <4>3, <6>1, <6>2 DEF Spine
        <5>. QED  BY <5>1, <5>2
      <4>. QED  BY <1>5, <2>1, <4>1, <4>2, <4>3 DEF Spine
    <3>. QED  BY <3>1, <3>2
  <2>. QED  BY <1>5, <2>1 DEF Spine
<1>. QED  BY <1>4, <1>5 DEF v

\* What a tree that grows adds to it: no label, or one label and nothing else.
Labels(t, u, k) ==
    /\ \A n \in 1..Len(t) : u[n].kind = t[n].kind
    /\ k = 1 \/ \A i \in 1..k : ~IsLabel(u, Len(t) + i)

\* Where labels were before a node or below it, they still are.
LEMMA AheadGrown ==
    ASSUME NEW t, IsNodes(t), NEW q \in 1..Len(t), NEW k \in Nat, NEW u, GrownBy(t, u, q, k),
           \A m \in 1..Len(t) : u[m].kind = t[m].kind, NEW rt \in 1..Len(t), NEW n \in 1..Len(t),
           LabelsAhead(t, rt, n), Within(t, n, q)
    PROVE  LabelsAhead(u, rt, n)
<1>1. SUFFICES ASSUME NEW l \in rt..Len(u), IsLabel(u, l) PROVE Earlier(u, l, n) \/ Within(u, n, l)
  BY DEF LabelsAhead
<1>2. Len(u) = Len(t) + k /\ Len(t) \in Nat
  <2>1. Len(u) = Len(t) + k
    BY GrownNodes
  <2>. QED  BY <2>1 DEF IsNodes
<1>3. CASE l \in rt..Len(t)
  <2>1. IsLabel(t, l) /\ l \in 1..Len(t)
    BY <1>1, <1>2, <1>3 DEF IsLabel
  <2>. QED  BY <1>3, <2>1, EarlierGrown, WithinGrown DEF LabelsAhead
<1>4. CASE l \notin rt..Len(t)
  <2>. DEFINE i == l - Len(t)
  <2>1. i \in 1..k /\ l = Len(t) + i
    BY <1>1, <1>2, <1>4
  <2>. HIDE DEF i
  <2>. QED  BY <2>1, WithinGrown
<1>. QED  BY <1>3, <1>4

\* Nodes are appended to the leaf, and the last of them is the leaf.
LEMMA SpineGrown ==
    ASSUME NEW t, IsNodes(t), NEW lf \in 1..Len(t), NEW k \in Nat, k # 0, NEW u,
           GrownBy(t, u, lf, k), Labels(t, u, k), NEW rt, NEW ps \in Seq(Nat),
           Spine(t, rt, lf, ps)
    PROVE  /\ Spine(u, rt, Len(t) + k, ps)
           /\ Lowest(u, rt, Len(t) + k, lf, ps)
<1>. DEFINE l2 == Len(t) + k
<1>1. /\ Len(t) \in Nat /\ Len(u) = Len(t) + k /\ 1..Len(t) \subseteq 1..Len(u) /\ k \in 1..k
      /\ rt \in 1..Len(t) /\ Within(t, rt, lf)
  <2>1. Len(u) = Len(t) + k /\ 1..Len(t) \subseteq 1..Len(u)
    BY GrownNodes
  <2>2. Len(t) \in Nat /\ rt \in 1..Len(t) /\ Within(t, rt, lf)
    BY DEF IsNodes, Spine
  <2>. QED  BY <2>1, <2>2
<1>2. l2 \in 1..Len(u)
  BY <1>1
<1>3. \A a \in 1..Len(t) : Within(t, a, lf) => Within(u, a, lf) /\ Within(u, a, l2)
  BY <1>1, WithinGrown
<1>4. ASSUME NEW l \in rt..Len(t), IsLabel(t, l) PROVE Earlier(u, l, lf) /\ Earlier(u, l, l2)
  <2>1. Earlier(t, l, lf) /\ l \in 1..Len(t)
    BY <1>1, <1>4 DEF Spine
  <2>2. Earlier(u, l, lf)
    BY <2>1, EarlierGrown
  <2>3. Within(u, lf, l2)
    BY <1>3, WithinItself
  <2>. QED  BY <2>2, <2>3, EarlierOn
<1>. HIDE DEF l2
<1>5. ASSUME NEW l \in rt..Len(u), IsLabel(u, l)
      PROVE  /\ Earlier(u, l, l2)
             /\ Earlier(u, l, lf) \/ Within(u, lf, l)
  <2>1. CASE l \in rt..Len(t)
    <3>1. IsLabel(t, l)
      BY <1>1, <1>5, <2>1 DEF IsLabel, Labels
    <3>. QED  BY <1>4, <2>1, <3>1
  <2>2. CASE l \notin rt..Len(t)
    <3>. DEFINE i == l - Len(t)
    <3>1. i \in 1..k /\ l = Len(t) + i
      BY <1>1, <1>5, <2>2
    <3>. HIDE DEF i
    <3>2. k = 1
      BY <1>5, <3>1 DEF Labels
    <3>3. l = l2
      BY <1>1, <3>1, <3>2 DEF l2
    <3>. QED  BY <1>3, <3>3, WithinItself DEF Earlier
  <2>. QED  BY <2>1, <2>2
<1>6. ASSUME NEW j \in 1..Len(ps), ps[j] # 0
      PROVE  /\ ps[j] \in 1..Len(u) /\ Within(u, rt, ps[j]) /\ Within(u, ps[j], l2)
             /\ Within(u, ps[j], lf) /\ LabelsAhead(u, rt, ps[j])
             /\ \A i \in 1..(j-1) : ps[i] # 0 => Within(u, ps[j], ps[i])
  <2>. DEFINE a == ps[j]
  <2>1. /\ a \in 1..Len(t) /\ Within(t, rt, a) /\ Within(t, a, lf) /\ LabelsAhead(t, rt, a)
        /\ \A i \in 1..(j-1) : ps[i] # 0 => Within(t, a, ps[i]) /\ ps[i] \in 1..Len(t)
    <3>1. \A i \in 1..(j-1) : i \in 1..Len(ps)
      BY LenProperties
    <3>. QED  BY <1>6, <3>1 DEF Spine
  <2>. HIDE DEF a
  <2>2. a \in 1..Len(u) /\ Within(u, rt, a) /\ Within(u, a, l2) /\ Within(u, a, lf)
    BY <1>1, <1>3, <2>1, WithinGrown
  <2>3. LabelsAhead(u, rt, a)
    BY <1>1, <2>1, AheadGrown DEF Labels
  <2>4. \A i \in 1..(j-1) : ps[i] # 0 => Within(u, a, ps[i])
    BY <2>1, WithinGrown
  <2>. QED  BY <2>2, <2>3, <2>4 DEF a
<1>7. Spine(u, rt, l2, ps)
  BY <1>1, <1>2, <1>3, <1>5, <1>6 DEF Spine
<1>8. Lowest(u, rt, l2, lf, ps)
  <2>1. Within(u, rt, lf) /\ Within(u, lf, l2)
    BY <1>1, <1>3, WithinItself
  <2>. QED  BY <1>1, <1>5, <1>6, <2>1 DEF Lowest, LabelsAhead
<1>. QED  BY <1>7, <1>8 DEF l2

\* A node that is no label is appended to the lowest of the nodes to go back to.
LEMMA SpineBack ==
    ASSUME NEW t, IsNodes(t), NEW q \in 1..Len(t), NEW u, GrownBy(t, u, q, 1), Labels(t, u, 1),
           ~IsLabel(u, Len(t) + 1), NEW rt, NEW lf, NEW ps \in Seq(Nat),
           Spine(t, rt, lf, ps), Lowest(t, rt, lf, q, ps)
    PROVE  /\ Spine(u, rt, Len(t) + 1, ps)
           /\ Lowest(u, rt, Len(t) + 1, q, ps)
<1>. DEFINE l2 == Len(t) + 1
<1>1. /\ Len(t) \in Nat /\ Len(u) = Len(t) + 1 /\ 1..Len(t) \subseteq 1..Len(u) /\ 1 \in 1..1
      /\ rt \in 1..Len(t) /\ Within(t, rt, q)
  <2>1. 1 \in Nat
    OBVIOUS
  <2>2. Len(u) = Len(t) + 1 /\ 1..Len(t) \subseteq 1..Len(u)
    BY <2>1, GrownNodes
  <2>3. Len(t) \in Nat /\ rt \in 1..Len(t) /\ Within(t, rt, q)
    BY DEF IsNodes, Spine, Lowest
  <2>. QED  BY <2>2, <2>3
<1>2. l2 \in 1..Len(u)
  BY <1>1
<1>3. \A a \in 1..Len(t) : Within(t, a, q) => Within(u, a, q) /\ Within(u, a, l2)
  BY <1>1, WithinGrown
<1>4. LabelsAhead(u, rt, q)
  BY <1>1, AheadGrown, WithinItself DEF Lowest, Labels
<1>5. ASSUME NEW l \in rt..Len(u), IsLabel(u, l) PROVE Earlier(u, l, l2)
  <2>1. l \in rt..Len(t)
    BY <1>1, <1>5
  <2>2. IsLabel(t, l) /\ l \in 1..Len(t)
    BY <1>1, <1>5, <2>1 DEF IsLabel, Labels
  <2>3. CASE Within(t, q, l)
    BY <1>1, <2>2, <2>3, EarlierLast
  <2>4. CASE Earlier(t, l, q)
    <3>1. Earlier(u, l, q) /\ Within(u, q, l2)
      BY <1>3, <2>2, <2>4, EarlierGrown, WithinItself
    <3>. QED  BY <3>1, EarlierOn
  <2>. QED  BY <2>1, <2>2, <2>3, <2>4 DEF Lowest, LabelsAhead
<1>. HIDE DEF l2
<1>6. ASSUME NEW j \in 1..Len(ps), ps[j] # 0
      PROVE  /\ ps[j] \in 1..Len(u) /\ Within(u, rt, ps[j]) /\ Within(u, ps[j], l2)
             /\ Within(u, ps[j], q) /\ LabelsAhead(u, rt, ps[j])
             /\ \A i \in 1..(j-1) : ps[i] # 0 => Within(u, ps[j], ps[i])
  <2>. DEFINE a == ps[j]
  <2>1. /\ a \in 1..Len(t) /\ Within(t, rt, a) /\ Within(t, a, q) /\ LabelsAhead(t, rt, a)
        /\ \A i \in 1..(j-1) : ps[i] # 0 => Within(t, a, ps[i]) /\ ps[i] \in 1..Len(t)
    <3>1. \A i \in 1..(j-1) : i \in 1..Len(ps)
      BY LenProperties
    <3>. QED  BY <1>6, <3>1 DEF Spine, Lowest
  <2>. HIDE DEF a
  <2>2. a \in 1..Len(u) /\ Within(u, rt, a) /\ Within(u, a, l2) /\ Within(u, a, q)
    BY <1>1, <1>3, <2>1, WithinGrown
  <2>3. LabelsAhead(u, rt, a)
    BY <1>1, <2>1, AheadGrown DEF Labels
  <2>4. \A i \in 1..(j-1) : ps[i] # 0 => Within(u, a, ps[i])
    BY <2>1, WithinGrown
  <2>. QED  BY <2>2, <2>3, <2>4 DEF a
<1>7. Spine(u, rt, l2, ps)
  BY <1>1, <1>2, <1>3, <1>5, <1>6 DEF Spine
<1>8. Lowest(u, rt, l2, q, ps)
  <2>1. Within(u, rt, q) /\ Within(u, q, l2)
    BY <1>1, <1>3, WithinItself
  <2>. QED  BY <1>1, <1>4, <1>6, <2>1 DEF Lowest
<1>. QED  BY <1>7, <1>8 DEF l2

\* The visit goes on at a case of the lowest of the nodes to go back to.
LEMMA SpineCase ==
    ASSUME NEW t, IsNodes(t), NEW rt, NEW lf, NEW ps \in Seq(Nat), NEW q \in 1..Len(t),
           Spine(t, rt, lf, ps), Lowest(t, rt, lf, q, ps), NEW k \in 1..CountOf(t, q),
           \A i \in k..CountOf(t, q) :
              ~IsLabel(t, t[q].kids[i]) /\ CountOf(t, t[q].kids[i]) = 0
    PROVE  /\ Spine(t, rt, t[q].kids[k], ps)
           /\ Lowest(t, rt, t[q].kids[k], q, ps)
<1>. DEFINE c == t[q].kids[k]
<1>1. Within(t, q, c) /\ c \in 1..Len(t)
  <2>1. c \in (q+1)..Len(t) /\ Len(t) \in Nat
    BY DEF IsNodes
  <2>. QED  BY <2>1, WithinKid
<1>2. ASSUME NEW l \in rt..Len(t), IsLabel(t, l) PROVE Earlier(t, l, c)
  <2>1. CASE Earlier(t, l, q)
    BY <1>1, <2>1, EarlierOn
  <2>2. CASE Within(t, q, l)
    <3>1. \A i \in k..CountOf(t, q) : t[q].kids[i] # l /\ CountOf(t, t[q].kids[i]) = 0
      BY <1>2
    <3>. QED  BY <2>2, <3>1, EarlierCase
  <2>. QED  BY <1>2, <2>1, <2>2 DEF Lowest, LabelsAhead
<1>. HIDE DEF c
<1>3. /\ rt \in 1..Len(t) /\ Within(t, rt, q) /\ Within(t, rt, c)
  BY <1>1, WithinOn DEF Spine, Lowest
<1>4. ASSUME NEW j \in 1..Len(ps), ps[j] # 0 PROVE Within(t, ps[j], c)
  <2>1. Within(t, ps[j], q)
    BY <1>4 DEF Lowest
  <2>. QED  BY <1>1, <2>1, WithinOn
<1>5. Spine(t, rt, c, ps)
  BY <1>1, <1>2, <1>3, <1>4 DEF Spine
<1>6. Lowest(t, rt, c, q, ps)
  BY <1>1 DEF Lowest
<1>. QED  BY <1>5, <1>6 DEF c

-----------------------------------------------------------------------------
(* The places of the work that is left: the node it waits for, or the      *)
(* parent of its if; 0 where it goes back to none.                         *)

\* How many ifs are open from item j of a stack on.
OpenFrom(s, j) == Cardinality({i \in Open(s) : i >= j})

Place(p, sel, ip, w, n) ==
    IF Waits(p, w) THEN From(p, sel, w) ELSE IF IsOpen(w) THEN ip[n] ELSE 0
Places(p, sel, ip, s) == [j \in 1..Len(s) |-> Place(p, sel, ip, s[j], OpenFrom(s, j))]

\* The places of a stack stay with other nodes for selects and parents of ifs.
Stays(p, s, sel, ip, sel2, ip2) ==
    /\ \A j \in 1..Len(s) : Waits(p, s[j]) => From(p, sel2, s[j]) = From(p, sel, s[j])
    /\ \A i \in 1..Cardinality(Open(s)) : ip2[i] = ip[i]

Onto(x, s) == <<x>> \o s

LEMMA OpensFrom ==
    ASSUME NEW S, NEW s \in Seq(S), NEW j \in 1..Len(s)
    PROVE  /\ Cardinality(Open(s)) \in Nat
           /\ IsOpen(s[j]) => OpenFrom(s, j) \in 1..Cardinality(Open(s))
<1>. DEFINE T == {i \in Open(s) : i >= j}
<1>1. Len(s) \in Nat /\ Open(s) \subseteq 1..Len(s)
  BY LenProperties DEF Open
<1>2. IsFiniteSet(Open(s)) /\ Cardinality(Open(s)) \in Nat
  <2>1. IsFiniteSet(1..Len(s))
    BY <1>1, FS_Interval
  <2>2. IsFiniteSet(Open(s))
    BY <1>1, <2>1, FS_Subset
  <2>. QED  BY <2>2, FS_CardinalityType
<1>3. T \subseteq Open(s) /\ (IsOpen(s[j]) => j \in T)
  BY <1>1 DEF Open
<1>. HIDE DEF T
<1>4. IsFiniteSet(T) /\ Cardinality(T) <= Cardinality(Open(s)) /\ Cardinality(T) \in Nat
  <2>1. IsFiniteSet(T) /\ Cardinality(T) <= Cardinality(Open(s))
    BY <1>2, <1>3, FS_Subset
  <2>. QED  BY <2>1, FS_CardinalityType
<1>5. ASSUME j \in T PROVE Cardinality(T) # 0
  BY <1>4, <1>5, FS_EmptySet
<1>. QED  BY <1>2, <1>3, <1>4, <1>5 DEF OpenFrom, T

LEMMA OpenFromOn ==
    ASSUME NEW S, NEW s \in Seq(S), NEW x \in S
    PROVE  /\ OpenFrom(<<x>> \o s, 1) = Cardinality(Open(<<x>> \o s))
           /\ \A j \in 1..Len(s) : OpenFrom(<<x>> \o s, j + 1) = OpenFrom(s, j)
<1>. DEFINE v == <<x>> \o s
<1>. v = <<x>> \o s
  OBVIOUS
<1>. HIDE DEF v
<1>1. /\ Len(s) \in Nat /\ Len(v) = Len(s) + 1 /\ v[1] = x
      /\ \A j \in 1..Len(s) : v[j + 1] = s[j]
  BY BeforeAt
<1>2. OpenFrom(v, 1) = Cardinality(Open(v))
  <2>1. {i \in Open(v) : i >= 1} = Open(v)
    BY <1>1 DEF Open
  <2>. QED  BY <2>1 DEF OpenFrom
<1>3. ASSUME NEW j \in 1..Len(s) PROVE OpenFrom(v, j + 1) = OpenFrom(s, j)
  <2>. DEFINE T == {i \in Open(s) : i >= j}
              U == {i \in Open(v) : i >= j + 1}
  <2>1. ASSUME NEW i \in U PROVE i \in {k + 1 : k \in T}
    <3>1. i \in 1..Len(v) /\ IsOpen(v[i]) /\ i >= j + 1
      BY DEF Open
    <3>2. i - 1 \in 1..Len(s) /\ (i - 1) + 1 = i /\ i - 1 >= j
      BY <1>1, <3>1
    <3>3. v[i] = s[i - 1]
      BY <1>1, <3>2
    <3>4. i - 1 \in T
      BY <3>1, <3>2, <3>3 DEF Open
    <3>. QED  BY <3>2, <3>4
  <2>2. ASSUME NEW k \in T PROVE k + 1 \in U
    <3>1. k \in 1..Len(s) /\ IsOpen(s[k]) /\ k >= j
      BY DEF Open
    <3>2. k + 1 \in 1..Len(v) /\ k + 1 >= j + 1 /\ v[k + 1] = s[k]
      BY <1>1, <3>1
    <3>. QED  BY <3>1, <3>2 DEF Open
  <2>3. U = {k + 1 : k \in T} /\ T \subseteq 1..Len(s)
    BY <2>1, <2>2 DEF Open
  <2>. HIDE DEF T, U
  <2>4. Cardinality(U) = Cardinality(T)
    BY <1>1, <2>3, Shifted
  <2>. QED  BY <2>4 DEF OpenFrom, T, U
<1>. QED  BY <1>2, <1>3 DEF v

\* The places below a new top are as before.
LEMMA PlacesOn ==
    ASSUME NEW p, NEW sel, NEW ip, NEW sel2, NEW ip2, NEW S, NEW s \in Seq(S), NEW x \in S,
           NEW v, v = Onto(x, s), NEW ps \in Seq(Nat), ps = Places(p, sel, ip, s),
           NEW a \in Nat, a = Place(p, sel2, ip2, x, Cardinality(Open(v))),
           Stays(p, s, sel, ip, sel2, ip2)
    PROVE  Places(p, sel2, ip2, v) = Onto(a, ps)
<1>. USE DEF Onto
<1>. DEFINE qs == <<a>> \o ps
            rs == Places(p, sel2, ip2, v)
<1>1. /\ Len(s) \in Nat /\ Len(v) = Len(s) + 1 /\ v[1] = x
      /\ \A j \in 1..Len(s) : v[j + 1] = s[j]
  BY BeforeAt
<1>2. DOMAIN ps = 1..Len(s) /\ \A j \in 1..Len(s) : ps[j] = Place(p, sel, ip, s[j], OpenFrom(s, j))
  BY DEF Places
<1>3. Len(ps) = Len(s)
  <2>1. DOMAIN ps = 1..Len(ps) /\ Len(ps) \in Nat
    BY LenProperties
  <2>. QED  BY <1>1, <1>2, <2>1
<1>4. /\ DOMAIN rs = 1..Len(v)
      /\ \A j \in 1..Len(v) : rs[j] = Place(p, sel2, ip2, v[j], OpenFrom(v, j))
  BY DEF Places
<1>5. /\ OpenFrom(v, 1) = Cardinality(Open(v))
      /\ \A j \in 1..Len(s) : OpenFrom(v, j + 1) = OpenFrom(s, j)
  BY OpenFromOn
<1>6. /\ Len(qs) = Len(ps) + 1 /\ qs[1] = a /\ qs \in Seq(Nat)
      /\ \A j \in 1..Len(ps) : qs[j + 1] = ps[j]
  BY BeforeAt, OneBefore
<1>. HIDE DEF qs, rs
<1>7. ASSUME NEW j \in 1..Len(v) PROVE rs[j] = qs[j]
  <2>1. CASE j = 1
    BY <1>1, <1>4, <1>5, <1>6, <2>1
  <2>2. CASE j # 1
    <3>. DEFINE k == j - 1
    <3>1. k \in 1..Len(s) /\ j = k + 1
      BY <1>1, <2>2
    <3>. HIDE DEF k
    <3>2. rs[j] = Place(p, sel2, ip2, s[k], OpenFrom(s, k))
      BY <1>1, <1>4, <1>5, <3>1
    <3>3. qs[j] = Place(p, sel, ip, s[k], OpenFrom(s, k))
      BY <1>2, <1>3, <1>6, <3>1
    <3>4. IsOpen(s[k]) => OpenFrom(s, k) \in 1..Cardinality(Open(s))
      BY <3>1, OpensFrom
    <3>. QED  BY <3>1, <3>2, <3>3, <3>4 DEF Place, Stays
  <2>. QED  BY <2>1, <2>2
<1>8. rs \in Seq(Nat) /\ Len(rs) = Len(v) /\ Len(qs) = Len(v)
  <2>1. Len(qs) = Len(v) /\ DOMAIN qs = 1..Len(qs) /\ \A j \in 1..Len(qs) : qs[j] \in Nat
    BY <1>1, <1>3, <1>6, LenProperties, ElementOfSeq
  <2>2. rs = [j \in 1..Len(v) |-> Place(p, sel2, ip2, v[j], OpenFrom(v, j))]
    BY DEF rs, Places
  <2>3. \A j \in 1..Len(v) : Place(p, sel2, ip2, v[j], OpenFrom(v, j)) \in Nat
    BY <1>4, <1>7, <2>1
  <2>4. rs \in [1..Len(v) -> Nat]
    BY <2>2, <2>3
  <2>5. Len(v) \in Nat
    BY <1>1
  <2>6. rs \in Seq(Nat)
    <3>. DEFINE n == Len(v)
    <3>1. n \in Nat /\ rs \in [1..n -> Nat]
      BY <2>4, <2>5
    <3>. HIDE DEF n
    <3>. QED  BY <3>1, SeqDef
  <2>7. DOMAIN rs = 1..Len(rs) /\ Len(rs) \in Nat
    BY <2>6, LenProperties
  <2>8. Len(rs) = Len(v)
    BY <1>4, <2>5, <2>7
  <2>. QED  BY <2>1, <2>6, <2>8
<1>9. rs = qs
  BY <1>6, <1>7, <1>8, SeqEqual
<1>. QED  BY <1>9 DEF rs, qs

\* The places of work that waits for nodes of a tree, below ifs whose parents are.
LEMMA PlacesAre ==
    ASSUME NEW p, NEW t, Len(t) \in Nat, NEW sel, NEW lf, NEW ip \in Seq(1..Len(t)), NEW S,
           NEW s \in Seq(S), Cleared(p, t, sel, lf, ip, s), Cardinality(Open(s)) <= Len(ip)
    PROVE  Places(p, sel, ip, s) \in Seq(Nat)
<1>1. Len(s) \in Nat /\ Len(ip) \in Nat
  BY LenProperties
<1>2. ASSUME NEW j \in 1..Len(s) PROVE Place(p, sel, ip, s[j], OpenFrom(s, j)) \in Nat
  <2>1. CASE Waits(p, s[j])
    <3>1. From(p, sel, s[j]) \in 1..Len(t)
      BY <2>1 DEF Cleared, Clear
    <3>. QED  BY <2>1, <3>1 DEF Place
  <2>2. CASE ~Waits(p, s[j]) /\ IsOpen(s[j])
    <3>1. OpenFrom(s, j) \in 1..Cardinality(Open(s)) /\ Cardinality(Open(s)) \in Nat
      BY <2>2, OpensFrom
    <3>2. OpenFrom(s, j) \in 1..Len(ip)
      BY <1>1, <3>1
    <3>3. ip[OpenFrom(s, j)] \in 1..Len(t)
      BY <3>2, ElementOfSeq
    <3>. QED  BY <2>2, <3>3 DEF Place
  <2>3. CASE ~Waits(p, s[j]) /\ ~IsOpen(s[j])
    BY <2>3 DEF Place
  <2>. QED  BY <2>1, <2>2, <2>3
<1>3. Places(p, sel, ip, s) \in [1..Len(s) -> Nat]
  BY <1>2 DEF Places
<1>. DEFINE n == Len(s)
            ps == Places(p, sel, ip, s)
<1>4. n \in Nat /\ ps \in [1..n -> Nat]
  BY <1>1, <1>3
<1>. HIDE DEF n, ps
<1>5. ps \in Seq(Nat)
  BY <1>4, SeqDef
<1>. QED  BY <1>5 DEF ps

-----------------------------------------------------------------------------
(* The labels and gotos of a tree with root rt. *)

IsGoto(t, n) == t[n].kind = "goto"

\* All nodes from the root on are below it, and the others are in other trees.
Rooted(t, rt) ==
    /\ rt \in 1..Len(t) /\ \A n \in rt..Len(t) : Within(t, rt, n)
    /\ \A n \in 1..(rt-1) : \A j \in 1..CountOf(t, n) : t[n].kids[j] \in 1..(rt-1)

\* A label is the first child of its parent, and no case of a select.
FirstOnly(t) ==
    \A n \in 1..Len(t) : \A j \in 1..CountOf(t, n) : IsLabel(t, t[n].kids[j]) => j = 1
CasesUnlabelled(p, t, sel) ==
    \A x \in DOMAIN sel : \A n \in TestedCases(p, x) :
       ~IsLabel(t, t[sel[x].parent].kids[n + 1])

\* The labels are the role's and those of the blocks of vis, once each, and a goto
\* comes after that of its name.
IsPair(x) == \E a, b : x = <<a, b>>
LabelsOf(t, rt, vis) ==
    /\ IsPair(t[rt].arg)
    /\ \A l \in (rt+1)..Len(t) : IsLabel(t, l) =>
          \E x \in vis : t[l].arg = BlockLabel(x[1], x[2])
    /\ \A x \in vis : /\ x = <<x[1], x[2]>>
                      /\ \E l \in rt..Len(t) : IsLabel(t, l) /\ t[l].arg = BlockLabel(x[1], x[2])
    /\ \A l, m \in rt..Len(t) : IsLabel(t, l) /\ IsLabel(t, m) /\ t[l].arg = t[m].arg => l = m
GotosAfter(t, rt) ==
    \A n \in rt..Len(t) : IsGoto(t, n) =>
       \E l \in rt..Len(t) : IsLabel(t, l) /\ t[l].arg = t[n].arg /\ Earlier(t, l, n)

\* The same for what is below a node.
Matched(t, r) ==
    /\ \A l, m \in 1..Len(t) :
          Within(t, r, l) /\ Within(t, r, m) /\ IsLabel(t, l) /\ IsLabel(t, m)
             /\ t[l].arg = t[m].arg => l = m
    /\ \A n \in 1..Len(t) : Within(t, r, n) /\ IsGoto(t, n) =>
          \E l \in 1..Len(t) :
             Within(t, r, l) /\ IsLabel(t, l) /\ t[l].arg = t[n].arg /\ Earlier(t, l, n)

\* The nodes ns appended to node m.
Adds(t, u, m, ns) ==
    /\ GrownBy(t, u, m, Len(ns)) /\ Len(ns) \in Nat
    /\ \A n \in 1..Len(t) : u[n].kind = t[n].kind /\ u[n].arg = t[n].arg
    /\ \A i \in 1..Len(ns) : u[Len(t) + i].kind = ns[i].kind /\ u[Len(t) + i].arg = ns[i].arg

LEMMA TreeAdds ==
    ASSUME NEW p, NEW t, NEW cs, NEW ds, IsTree(p, t, cs), cs \subseteq ds,
           NEW n \in 1..Len(t), NEW ns \in Seq(NodeOf(p)), AreNew(ns, ds)
    PROVE  Adds(t, GrownTree(t, n, ns), n, ns)
<1>. DEFINE u == GrownTree(t, n, ns)
            more == [i \in 1..Len(ns) |-> Len(t) + i]
            v == [t EXCEPT ![n] = [t[n] EXCEPT !.kids = t[n].kids \o more]]
<1>1. GrownBy(t, u, n, Len(ns)) /\ Len(ns) \in Nat /\ Len(t) \in Nat /\ Len(u) = Len(t) + Len(ns)
  BY TreeGrows
<1>2. u = v \o ns
  BY DEF GrownTree
<1>3. t \in Seq(NodeOf(p)) /\ DOMAIN t = 1..Len(t)
  BY LenProperties DEF IsTree
<1>4. /\ Len(v) = Len(t) /\ v \in Seq({v[i] : i \in 1..Len(t)} \cup {ns[i] : i \in 1..Len(ns)})
      /\ \A i \in 1..Len(t) : v[i].kind = t[i].kind /\ v[i].arg = t[i].arg
  <2>1. DOMAIN v = 1..Len(t)
    BY <1>3
  <2>2. v = [i \in 1..Len(t) |-> v[i]]
    BY <1>3
  <2>3. ASSUME NEW i \in 1..Len(t) PROVE v[i].kind = t[i].kind /\ v[i].arg = t[i].arg
    <3>1. t[i] \in NodeOf(p)
      BY <1>3, ElementOfSeq
    <3>2. CASE i = n
      <4>1. v[i] = [t[i] EXCEPT !.kids = t[n].kids \o more]
        BY <1>3, <3>2
      <4>. HIDE DEF more
      <4>. QED  BY <3>1, <4>1 DEF NodeOf
    <3>3. CASE i # n
      BY <1>3, <3>3
    <3>. QED  BY <3>2, <3>3
  <2>. HIDE DEF v
  <2>. DEFINE S == {v[i] : i \in 1..Len(t)} \cup {ns[i] : i \in 1..Len(ns)}
              k == Len(t)
  <2>4. v \in [1..k -> S] /\ k \in Nat
    BY <1>1, <2>2
  <2>. HIDE DEF S, k
  <2>5. v \in Seq(S)
    BY <2>4, SeqDef
  <2>6. DOMAIN v = 1..Len(v) /\ Len(v) \in Nat
    BY <2>5, LenProperties
  <2>7. Len(v) = Len(t)
    BY <1>1, <2>1, <2>6
  <2>. QED  BY <2>3, <2>5, <2>7 DEF S
<1>. HIDE DEF v
<1>5. /\ \A i \in 1..Len(t) : u[i] = v[i]
      /\ \A i \in 1..Len(ns) : u[Len(t) + i] = ns[i]
  <2>. DEFINE S == {v[i] : i \in 1..Len(t)} \cup {ns[i] : i \in 1..Len(ns)}
  <2>1. ns \in Seq(S)
    <3>1. \A i \in 1..Len(ns) : ns[i] \in S
      OBVIOUS
    <3>2. ns \in [1..Len(ns) -> S]
      BY <3>1, LenProperties
    <3>. DEFINE k == Len(ns)
    <3>3. ns \in [1..k -> S] /\ k \in Nat
      BY <1>1, <3>2
    <3>. HIDE DEF k, S
    <3>. QED  BY <3>3, SeqDef
  <2>. HIDE DEF S
  <2>2. v \in Seq(S) /\ Len(v) = Len(t)
    BY <1>4 DEF S
  <2>3. \A i \in 1..(Len(v) + Len(ns)) :
           (v \o ns)[i] = IF i <= Len(v) THEN v[i] ELSE ns[i - Len(v)]
    BY <2>1, <2>2, ConcatProperties
  <2>4. ASSUME NEW i \in 1..Len(t) PROVE u[i] = v[i]
    <3>1. i \in 1..(Len(v) + Len(ns)) /\ i <= Len(v)
      BY <1>1, <2>2
    <3>. QED  BY <1>2, <2>3, <3>1
  <2>5. ASSUME NEW i \in 1..Len(ns) PROVE u[Len(t) + i] = ns[i]
    <3>1. /\ Len(t) + i \in 1..(Len(v) + Len(ns)) /\ ~(Len(t) + i <= Len(v))
          /\ (Len(t) + i) - Len(v) = i
      BY <1>1, <2>2
    <3>. DEFINE k == Len(t) + i
    <3>2. k \in 1..(Len(v) + Len(ns)) /\ ~(k <= Len(v)) /\ k - Len(v) = i
      BY <3>1
    <3>. HIDE DEF k
    <3>3. (v \o ns)[k] = ns[i]
      BY <2>3, <3>2
    <3>. QED  BY <1>2, <3>3 DEF k
  <2>. QED  BY <2>4, <2>5
<1>. HIDE DEF u
<1>. QED  BY <1>1, <1>4, <1>5 DEF Adds, u

\* Nodes that are the same in two trees.
Alike(t, u, k) ==
    /\ 1..k \subseteq 1..Len(t) /\ 1..k \subseteq 1..Len(u)
    /\ \A n \in 1..k : /\ u[n].kind = t[n].kind /\ u[n].arg = t[n].arg /\ u[n].kids = t[n].kids
                       /\ \A j \in 1..CountOf(t, n) : t[n].kids[j] \in 1..k

LEMMA AlikeBoth == ASSUME NEW t, NEW u, NEW k, Alike(t, u, k) PROVE Alike(u, t, k)
BY DEF Alike, CountOf

LEMMA WithinAlike ==
    ASSUME NEW t, NEW u, NEW k, Alike(t, u, k), NEW a \in 1..k, NEW b, Within(t, a, b)
    PROVE  b \in 1..k /\ Within(u, a, b)
<1>1. b \in 1..k
  <2>1. HoldsKids(t, 1..k) /\ 1..k \in SUBSET (1..Len(t))
    BY DEF HoldsKids, Alike
  <2>. QED  BY <2>1 DEF Within
<1>2. ASSUME NEW S \in SUBSET (1..Len(u)), a \in S, HoldsKids(u, S) PROVE b \in S
  <2>. DEFINE T == S \cap (1..k)
  <2>1. ASSUME NEW n \in T, NEW j \in 1..CountOf(t, n) PROVE t[n].kids[j] \in T
    <3>1. u[n].kids = t[n].kids /\ CountOf(u, n) = CountOf(t, n) /\ t[n].kids[j] \in 1..k
      BY DEF Alike, CountOf
    <3>2. u[n].kids[j] \in S
      BY <1>2, <3>1 DEF HoldsKids
    <3>. QED  BY <3>1, <3>2
  <2>2. HoldsKids(t, T) /\ a \in T /\ T \in SUBSET (1..Len(t))
    BY <1>2, <2>1 DEF HoldsKids, Alike
  <2>. HIDE DEF T
  <2>3. b \in T
    BY <2>2 DEF Within
  <2>. QED  BY <2>3 DEF T
<1>. QED  BY <1>1, <1>2 DEF Within

LEMMA EarlierAlike ==
    ASSUME NEW t, NEW u, NEW k \in Nat, Alike(t, u, k), IsNodes(t), NEW l \in 1..k, NEW n,
           Earlier(t, l, n)
    PROVE  Earlier(u, l, n)
<1>1. CASE Within(t, l, n)
  BY <1>1, WithinAlike DEF Earlier
<1>2. CASE ~Within(t, l, n)
  <2>1. PICK q \in 1..Len(t) : \E i, j \in 1..CountOf(t, q) :
           i < j /\ Within(t, t[q].kids[i], l) /\ Within(t, t[q].kids[j], n)
    BY <1>2 DEF Earlier
  <2>2. PICK i \in 1..CountOf(t, q), j \in 1..CountOf(t, q) :
           i < j /\ Within(t, t[q].kids[i], l) /\ Within(t, t[q].kids[j], n)
    BY <2>1
  <2>. DEFINE a == t[q].kids[i]
              b == t[q].kids[j]
  <2>3. a \in (q+1)..Len(t) /\ Len(t) \in Nat
    BY DEF IsNodes
  <2>4. l \in a..Len(t)
    <3>1. a \in 1..Len(t)
      BY <2>3
    <3>. HIDE DEF a
    <3>2. Within(t, a, l)
      BY <2>2 DEF a
    <3>. QED  BY <3>1, <3>2, WithinUp
  <2>5. q \in 1..k
    BY <2>3, <2>4
  <2>6. /\ u[q].kids = t[q].kids /\ CountOf(u, q) = CountOf(t, q) /\ q \in 1..Len(u)
        /\ a \in 1..k /\ b \in 1..k
    BY <2>5 DEF Alike, CountOf
  <2>7. Within(u, a, l) /\ Within(u, b, n)
    BY <2>2, <2>6, WithinAlike
  <2>. QED  BY <2>2, <2>6, <2>7 DEF Earlier
<1>. QED  BY <1>1, <1>2

LEMMA MatchedAlike ==
    ASSUME NEW t, NEW u, NEW k \in Nat, Alike(t, u, k), IsNodes(t), NEW r \in 1..k, Matched(t, r)
    PROVE  Matched(u, r)
<1>1. \A n : Within(u, r, n) => n \in 1..k /\ n \in 1..Len(t) /\ Within(t, r, n)
  BY AlikeBoth, WithinAlike DEF Alike
<1>2. \A n \in 1..k : u[n].kind = t[n].kind /\ u[n].arg = t[n].arg
  BY DEF Alike
<1>3. ASSUME NEW l \in 1..Len(u), NEW m \in 1..Len(u), Within(u, r, l), Within(u, r, m),
             IsLabel(u, l), IsLabel(u, m), u[l].arg = u[m].arg
      PROVE  l = m
  BY <1>1, <1>2, <1>3 DEF Matched, IsLabel
<1>4. ASSUME NEW n \in 1..Len(u), Within(u, r, n), IsGoto(u, n)
      PROVE  \E l \in 1..Len(u) :
                Within(u, r, l) /\ IsLabel(u, l) /\ u[l].arg = u[n].arg /\ Earlier(u, l, n)
  <2>1. n \in 1..k /\ n \in 1..Len(t) /\ Within(t, r, n) /\ IsGoto(t, n)
    BY <1>1, <1>2, <1>4 DEF IsGoto
  <2>2. PICK l \in 1..Len(t) :
           Within(t, r, l) /\ IsLabel(t, l) /\ t[l].arg = t[n].arg /\ Earlier(t, l, n)
    BY <2>1 DEF Matched
  <2>3. l \in 1..k /\ Within(u, r, l)
    BY <2>2, WithinAlike
  <2>4. l \in 1..Len(u) /\ IsLabel(u, l) /\ u[l].arg = u[n].arg
    BY <1>2, <2>1, <2>2, <2>3 DEF IsLabel, Alike
  <2>5. Earlier(u, l, n)
    BY <2>2, <2>3, EarlierAlike
  <2>. QED  BY <2>3, <2>4, <2>5
<1>. QED  BY <1>3, <1>4 DEF Matched

\* The old and the new nodes of a tree that has grown.
NewNodes(t, u, ns) ==
    \A n \in 1..Len(u) : n \notin 1..Len(t) =>
       \E i \in 1..Len(ns) : n = Len(t) + i /\ u[n].kind = ns[i].kind /\ u[n].arg = ns[i].arg
OldNodes(t, u) == \A n \in 1..Len(t) : u[n].kind = t[n].kind /\ u[n].arg = t[n].arg

LEMMA AddsNodes ==
    ASSUME NEW t, IsNodes(t), NEW q \in 1..Len(t), NEW ns, NEW u, Adds(t, u, q, ns)
    PROVE  /\ IsNodes(u) /\ 1..Len(t) \subseteq 1..Len(u) /\ Len(u) = Len(t) + Len(ns)
           /\ Len(t) \in Nat /\ Len(ns) \in Nat /\ GrownBy(t, u, q, Len(ns))
           /\ NewNodes(t, u, ns) /\ OldNodes(t, u)
<1>1. GrownBy(t, u, q, Len(ns)) /\ Len(ns) \in Nat
  BY DEF Adds
<1>2. IsNodes(u) /\ 1..Len(t) \subseteq 1..Len(u) /\ Len(u) = Len(t) + Len(ns)
  BY <1>1, GrownNodes
<1>3. Len(t) \in Nat
  BY DEF IsNodes
<1>4. ASSUME NEW n \in 1..Len(u), n \notin 1..Len(t)
      PROVE  \E i \in 1..Len(ns) :
                    n = Len(t) + i /\ u[n].kind = ns[i].kind /\ u[n].arg = ns[i].arg
  <2>. DEFINE i == n - Len(t)
  <2>1. i \in 1..Len(ns) /\ n = Len(t) + i
    BY <1>1, <1>2, <1>3, <1>4
  <2>. HIDE DEF i
  <2>. QED  BY <2>1 DEF Adds
<1>. QED  BY <1>1, <1>2, <1>3, <1>4 DEF Adds, NewNodes, OldNodes

\* What grows below the root is below the root, and touches no other tree.
LEMMA RootedGrown ==
    ASSUME NEW t, IsNodes(t), NEW rt, Rooted(t, rt), NEW q \in rt..Len(t), NEW ns, NEW u,
           Adds(t, u, q, ns)
    PROVE  /\ Rooted(u, rt) /\ Alike(t, u, rt - 1) /\ rt - 1 \in Nat
<1>1. rt \in 1..Len(t) /\ q \in 1..Len(t) /\ Within(t, rt, q) /\ Len(t) \in Nat
  BY DEF Rooted, IsNodes
<1>2. /\ IsNodes(u) /\ 1..Len(t) \subseteq 1..Len(u) /\ Len(u) = Len(t) + Len(ns)
      /\ Len(ns) \in Nat /\ GrownBy(t, u, q, Len(ns))
      /\ OldNodes(t, u)
  BY <1>1, AddsNodes
<1>. USE DEF NewNodes, OldNodes
<1>3. ASSUME NEW n \in rt..Len(u) PROVE Within(u, rt, n)
  <2>1. CASE n \in rt..Len(t)
    <3>1. Within(t, rt, n) /\ n \in 1..Len(t)
      BY <1>1, <2>1 DEF Rooted
    <3>. QED  BY <1>1, <1>2, <3>1, WithinGrown
  <2>2. CASE n \notin rt..Len(t)
    <3>. DEFINE i == n - Len(t)
    <3>1. i \in 1..Len(ns) /\ n = Len(t) + i
      BY <1>1, <1>2, <2>2
    <3>. HIDE DEF i
    <3>. QED  BY <1>1, <1>2, <3>1, WithinGrown
  <2>. QED  BY <2>1, <2>2
<1>4. \A n \in 1..(rt-1) : n \in 1..Len(t) /\ n # q /\ n \in 1..Len(u)
  BY <1>1, <1>2
<1>5. \A n \in 1..(rt-1) : u[n].kids = t[n].kids /\ CountOf(u, n) = CountOf(t, n)
  BY <1>2, <1>4 DEF GrownBy, CountOf
<1>6. Rooted(u, rt)
  BY <1>1, <1>2, <1>3, <1>5 DEF Rooted
<1>7. Alike(t, u, rt - 1)
  BY <1>1, <1>2, <1>4, <1>5 DEF Rooted, Alike
<1>. QED  BY <1>1, <1>6, <1>7

\* No labels are added, or one to a node without children.
LEMMA FirstGrown ==
    ASSUME NEW t, IsNodes(t), FirstOnly(t), NEW q \in 1..Len(t), NEW ns, NEW u,
           Adds(t, u, q, ns),
           \/ \A i \in 1..Len(ns) : ns[i].kind # "label"
           \/ CountOf(t, q) = 0 /\ Len(ns) = 1
    PROVE  FirstOnly(u)
<1>1. SUFFICES ASSUME NEW n \in 1..Len(u), NEW j \in 1..CountOf(u, n), IsLabel(u, u[n].kids[j])
               PROVE  j = 1
  BY DEF FirstOnly
<1>2. /\ Len(u) = Len(t) + Len(ns) /\ Len(t) \in Nat /\ Len(ns) \in Nat
      /\ GrownBy(t, u, q, Len(ns))
      /\ NewNodes(t, u, ns) /\ OldNodes(t, u)
  BY AddsNodes
<1>. USE DEF NewNodes, OldNodes
<1>3. /\ \A m \in 1..Len(t) : \A i \in 1..CountOf(t, m) :
                 i \in 1..CountOf(u, m) /\ u[m].kids[i] = t[m].kids[i]
      /\ \A m \in 1..Len(t) : m # q => CountOf(u, m) = CountOf(t, m)
      /\ CountOf(u, q) = CountOf(t, q) + Len(ns)
      /\ \A i \in 1..Len(ns) : /\ CountOf(u, Len(t) + i) = 0
                               /\ u[q].kids[CountOf(t, q) + i] = Len(t) + i
  BY <1>2, GrownNodes
<1>4. n \in 1..Len(t)
  <2>1. SUFFICES ASSUME n \notin 1..Len(t) PROVE FALSE
    OBVIOUS
  <2>2. PICK i \in 1..Len(ns) : n = Len(t) + i
    BY <1>2, <2>1
  <2>3. CountOf(u, n) = 0
    BY <1>3, <2>2
  <2>. QED  BY <2>3
<1>5. CASE j \in 1..CountOf(t, n)
  <2>1. u[n].kids[j] = t[n].kids[j] /\ t[n].kids[j] \in (n+1)..Len(t)
    BY <1>3, <1>4, <1>5 DEF IsNodes
  <2>2. t[n].kids[j] \in 1..Len(t)
    BY <1>2, <1>4, <2>1
  <2>3. IsLabel(t, t[n].kids[j])
    BY <1>1, <1>2, <2>1, <2>2 DEF IsLabel
  <2>. QED  BY <1>4, <1>5, <2>3 DEF FirstOnly
<1>6. CASE j \notin 1..CountOf(t, n)
  <2>1. n = q /\ CountOf(t, q) \in Nat
    BY <1>3, <1>4, <1>6 DEF IsNodes
  <2>. DEFINE i == j - CountOf(t, q)
  <2>2. i \in 1..Len(ns) /\ j = CountOf(t, q) + i
    BY <1>2, <1>3, <1>6, <2>1
  <2>. HIDE DEF i
  <2>3. u[n].kids[j] = Len(t) + i
    BY <1>3, <2>1, <2>2
  <2>4. u[Len(t) + i].kind = ns[i].kind
    BY <2>2 DEF Adds
  <2>5. ns[i].kind = "label"
    BY <1>1, <2>3, <2>4 DEF IsLabel
  <2>6. CountOf(t, q) = 0 /\ Len(ns) = 1
    BY <2>2, <2>5
  <2>. QED  BY <2>2, <2>6
<1>. QED  BY <1>5, <1>6

\* No labels and gotos are added.
LEMMA LabelsGrown ==
    ASSUME NEW t, IsNodes(t), NEW rt \in 1..Len(t), NEW q \in 1..Len(t), NEW ns, NEW u,
           Adds(t, u, q, ns), \A i \in 1..Len(ns) : ns[i].kind # "label",
           NEW vis, LabelsOf(t, rt, vis)
    PROVE  LabelsOf(u, rt, vis)
<1>1. /\ 1..Len(t) \subseteq 1..Len(u) /\ Len(u) = Len(t) + Len(ns) /\ Len(t) \in Nat
      /\ Len(ns) \in Nat /\ GrownBy(t, u, q, Len(ns))
      /\ NewNodes(t, u, ns) /\ OldNodes(t, u)
  BY AddsNodes
<1>. USE DEF NewNodes, OldNodes
<1>2. ASSUME NEW l \in rt..Len(u), IsLabel(u, l)
      PROVE  l \in rt..Len(t) /\ l \in 1..Len(t) /\ IsLabel(t, l) /\ u[l].arg = t[l].arg
  <2>1. l \in 1..Len(u) /\ l >= rt
    BY <1>1
  <2>2. l \in 1..Len(t)
    BY <1>1, <1>2, <2>1 DEF IsLabel
  <2>. QED  BY <1>1, <1>2, <2>1, <2>2 DEF IsLabel
<1>3. ASSUME NEW l \in (rt+1)..Len(u), IsLabel(u, l)
      PROVE  \E x \in vis : u[l].arg = BlockLabel(x[1], x[2])
  <2>1. l \in rt..Len(u)
    BY <1>1
  <2>2. l \in (rt+1)..Len(t) /\ IsLabel(t, l) /\ u[l].arg = t[l].arg
    BY <1>1, <1>2, <1>3, <2>1
  <2>. QED  BY <2>2 DEF LabelsOf
<1>4. ASSUME NEW x \in vis
      PROVE  /\ x = <<x[1], x[2]>>
             /\ \E l \in rt..Len(u) : IsLabel(u, l) /\ u[l].arg = BlockLabel(x[1], x[2])
  <2>1. /\ x = <<x[1], x[2]>>
        /\ \E l \in rt..Len(t) : IsLabel(t, l) /\ t[l].arg = BlockLabel(x[1], x[2])
    BY DEF LabelsOf
  <2>2. PICK l \in rt..Len(t) : IsLabel(t, l) /\ t[l].arg = BlockLabel(x[1], x[2])
    BY <2>1
  <2>3. l \in 1..Len(t) /\ l \in rt..Len(u)
    BY <1>1
  <2>. QED  BY <1>1, <2>1, <2>2, <2>3 DEF IsLabel
<1>5. IsPair(u[rt].arg)
  BY <1>1 DEF LabelsOf
<1>6. \A l, m \in rt..Len(u) : IsLabel(u, l) /\ IsLabel(u, m) /\ u[l].arg = u[m].arg => l = m
  BY <1>2 DEF LabelsOf
<1>. QED  BY <1>3, <1>4, <1>5, <1>6 DEF LabelsOf

\* The gotos that were there, and new ones if their label comes before them.
LEMMA GotosGrown ==
    ASSUME NEW t, IsNodes(t), NEW rt \in 1..Len(t), NEW q \in 1..Len(t), NEW ns, NEW u,
           Adds(t, u, q, ns), GotosAfter(t, rt),
           \A i \in 1..Len(ns) : ns[i].kind = "goto" =>
              \E l \in rt..Len(t) : IsLabel(t, l) /\ t[l].arg = ns[i].arg /\ Earlier(t, l, q)
    PROVE  GotosAfter(u, rt)
<1>1. /\ 1..Len(t) \subseteq 1..Len(u) /\ Len(u) = Len(t) + Len(ns) /\ Len(t) \in Nat
      /\ Len(ns) \in Nat /\ GrownBy(t, u, q, Len(ns))
      /\ NewNodes(t, u, ns) /\ OldNodes(t, u)
  BY AddsNodes
<1>. USE DEF NewNodes, OldNodes
<1>2. ASSUME NEW n \in rt..Len(u), IsGoto(u, n)
      PROVE  \E l \in rt..Len(u) : IsLabel(u, l) /\ u[l].arg = u[n].arg /\ Earlier(u, l, n)
  <2>1. n \in 1..Len(u) /\ n >= rt
    BY <1>1
  <2>2. CASE n \in 1..Len(t)
    <3>1. n \in rt..Len(t) /\ IsGoto(t, n) /\ u[n].arg = t[n].arg
      BY <1>1, <1>2, <2>1, <2>2 DEF IsGoto
    <3>2. PICK l \in rt..Len(t) : IsLabel(t, l) /\ t[l].arg = t[n].arg /\ Earlier(t, l, n)
      BY <3>1 DEF GotosAfter
    <3>3. l \in 1..Len(t) /\ l \in rt..Len(u)
      BY <1>1
    <3>4. Earlier(u, l, n)
      BY <1>1, <2>2, <3>2, <3>3, EarlierGrown
    <3>. QED  BY <1>1, <3>1, <3>2, <3>3, <3>4 DEF IsLabel
  <2>3. CASE n \notin 1..Len(t)
    <3>1. PICK i \in 1..Len(ns) : n = Len(t) + i /\ u[n].kind = ns[i].kind /\ u[n].arg = ns[i].arg
      BY <1>1, <2>1, <2>3
    <3>2. PICK l \in rt..Len(t) : IsLabel(t, l) /\ t[l].arg = ns[i].arg /\ Earlier(t, l, q)
      BY <1>2, <3>1 DEF IsGoto
    <3>3. l \in 1..Len(t) /\ l \in rt..Len(u)
      BY <1>1
    <3>4. Earlier(u, l, q) /\ Within(u, q, n)
      BY <1>1, <3>1, <3>2, <3>3, EarlierGrown, WithinItself, WithinGrown
    <3>5. Earlier(u, l, n)
      BY <3>4, EarlierOn
    <3>. QED  BY <1>1, <3>1, <3>2, <3>3, <3>5 DEF IsLabel
  <2>. QED  BY <2>2, <2>3
<1>. QED  BY <1>2 DEF GotosAfter

\* A block gets a label when it has none.
LEMMA LabelAdded ==
    ASSUME NEW t, IsNodes(t), NEW rt \in 1..Len(t), NEW q \in 1..Len(t), NEW u, NEW f, NEW b,
           Adds(t, u, q, <<Leaf("label", BlockLabel(f, b))>>),
           NEW vis, LabelsOf(t, rt, vis), <<f, b>> \notin vis
    PROVE  LabelsOf(u, rt, vis \cup {<<f, b>>})
<1>. DEFINE ns == <<Leaf("label", BlockLabel(f, b))>>
            n == Len(t) + 1
<1>1. Len(ns) = 1 /\ ns[1].kind = "label" /\ ns[1].arg = BlockLabel(f, b)
  BY DEF Leaf
<1>. HIDE DEF ns
<1>2. /\ 1..Len(t) \subseteq 1..Len(u) /\ Len(u) = n /\ Len(t) \in Nat
      /\ u[n].kind = "label" /\ u[n].arg = BlockLabel(f, b)
      /\ \A m \in 1..Len(t) : u[m].kind = t[m].kind /\ u[m].arg = t[m].arg
  <2>1. Adds(t, u, q, ns)
    BY DEF ns
  <2>2. /\ 1..Len(t) \subseteq 1..Len(u) /\ Len(u) = Len(t) + Len(ns) /\ Len(t) \in Nat
        /\ OldNodes(t, u)
    BY <2>1, AddsNodes
  <2>3. u[n].kind = ns[1].kind /\ u[n].arg = ns[1].arg
    BY <1>1, <2>1 DEF Adds
  <2>. QED  BY <1>1, <2>2, <2>3 DEF OldNodes
<1>3. n \in rt..Len(u) /\ n \in (rt+1)..Len(u) /\ rt # n
  BY <1>2
<1>. HIDE DEF n
<1>4. ASSUME NEW l \in rt..Len(u), l # n
      PROVE  l \in 1..Len(t) /\ l \in rt..Len(t) /\ u[l].kind = t[l].kind /\ u[l].arg = t[l].arg
  <2>1. l \in 1..Len(t) /\ l \in rt..Len(t)
    BY <1>2, <1>4 DEF n
  <2>. QED  BY <1>2, <2>1
<1>5. ASSUME NEW l \in rt..Len(u), l # n, IsLabel(u, l), u[l].arg = BlockLabel(f, b) PROVE FALSE
  <2>1. l \in rt..Len(t) /\ IsLabel(t, l) /\ t[l].arg = BlockLabel(f, b)
    BY <1>4, <1>5 DEF IsLabel
  <2>2. CASE l = rt
    <3>1. PICK c, d : BlockLabel(f, b) = <<c, d>>
      BY <2>1, <2>2 DEF LabelsOf, IsPair
    <3>2. <<f, "#", b>> = <<c, d>>
      BY <3>1 DEF BlockLabel
    <3>. QED  BY <3>2
  <2>3. CASE l # rt
    <3>1. l \in (rt+1)..Len(t)
      BY <1>2, <2>1, <2>3
    <3>2. PICK x \in vis : t[l].arg = BlockLabel(x[1], x[2])
      BY <2>1, <3>1 DEF LabelsOf
    <3>3. x[1] = f /\ x[2] = b
      BY <2>1, <3>2 DEF BlockLabel
    <3>4. x = <<x[1], x[2]>>
      BY DEF LabelsOf
    <3>. QED  BY <3>3, <3>4
  <2>. QED  BY <2>2, <2>3
<1>6. ASSUME NEW l \in (rt+1)..Len(u), IsLabel(u, l)
      PROVE  \E x \in vis \cup {<<f, b>>} : u[l].arg = BlockLabel(x[1], x[2])
  <2>1. CASE l = n
    BY <1>2, <2>1
  <2>2. CASE l # n
    <3>1. l \in rt..Len(u)
      BY <1>2
    <3>2. l \in (rt+1)..Len(t) /\ IsLabel(t, l) /\ u[l].arg = t[l].arg
      BY <1>2, <1>4, <1>6, <2>2, <3>1 DEF IsLabel
    <3>. QED  BY <3>2 DEF LabelsOf
  <2>. QED  BY <2>1, <2>2
<1>7. ASSUME NEW x \in vis
      PROVE  /\ x = <<x[1], x[2]>>
             /\ \E l \in rt..Len(u) : IsLabel(u, l) /\ u[l].arg = BlockLabel(x[1], x[2])
  <2>1. /\ x = <<x[1], x[2]>>
        /\ \E l \in rt..Len(t) : IsLabel(t, l) /\ t[l].arg = BlockLabel(x[1], x[2])
    BY DEF LabelsOf
  <2>2. PICK l \in rt..Len(t) : IsLabel(t, l) /\ t[l].arg = BlockLabel(x[1], x[2])
    BY <2>1
  <2>3. l \in 1..Len(t) /\ l \in rt..Len(u)
    BY <1>2 DEF n
  <2>. QED  BY <1>2, <2>1, <2>2, <2>3 DEF IsLabel
<1>8. IsPair(u[rt].arg)
  BY <1>2 DEF LabelsOf
<1>9. ASSUME NEW l \in rt..Len(u), NEW m \in rt..Len(u), IsLabel(u, l), IsLabel(u, m),
             u[l].arg = u[m].arg
      PROVE  l = m
  <2>1. CASE l # n /\ m # n
    BY <1>4, <1>9, <2>1 DEF LabelsOf, IsLabel
  <2>2. CASE l = n \/ m = n
    BY <1>2, <1>5, <1>9, <2>2
  <2>. QED  BY <2>1, <2>2
<1>10. \E l \in rt..Len(u) : IsLabel(u, l) /\ u[l].arg = BlockLabel(f, b)
  BY <1>2, <1>3 DEF IsLabel
<1>. QED  BY <1>6, <1>7, <1>8, <1>9, <1>10 DEF LabelsOf

LEMMA CasesGrown ==
    ASSUME NEW p, NEW t, IsNodes(t), NEW q \in 1..Len(t), NEW ns, NEW u, Adds(t, u, q, ns),
           NEW sel, AreSelects(p, t, sel), CasesUnlabelled(p, t, sel)
    PROVE  CasesUnlabelled(p, u, sel)
<1>1. SUFFICES ASSUME NEW x \in DOMAIN sel, NEW n \in TestedCases(p, x)
               PROVE  ~IsLabel(u, u[sel[x].parent].kids[n + 1])
  BY DEF CasesUnlabelled
<1>. DEFINE m == sel[x].parent
            j == n + 1
<1>2. m \in 1..Len(t) /\ n \in Nat /\ n < CountOf(t, m)
  BY DEF AreSelects, CountOf
<1>3. CountOf(t, m) \in Nat
  BY <1>2 DEF IsNodes
<1>4. j \in 1..CountOf(t, m)
  BY <1>2, <1>3
<1>5. ~IsLabel(t, t[m].kids[j])
  BY DEF CasesUnlabelled
<1>6. \A k \in 1..Len(t) : u[k].kind = t[k].kind
  BY DEF Adds
<1>. HIDE DEF m, j
<1>7. t[m].kids[j] \in (m+1)..Len(t) /\ Len(t) \in Nat
  BY <1>2, <1>4 DEF IsNodes
<1>8. u[m].kids[j] = t[m].kids[j]
  <2>1. GrownBy(t, u, q, Len(ns)) /\ Len(ns) \in Nat
    BY DEF Adds
  <2>. QED  BY <1>2, <1>4, <2>1, GrownNodes
<1>9. t[m].kids[j] \in 1..Len(t)
  BY <1>2, <1>7
<1>10. ~IsLabel(u, u[m].kids[j])
  BY <1>5, <1>6, <1>8, <1>9 DEF IsLabel
<1>. QED  BY <1>10 DEF m, j

-----------------------------------------------------------------------------
(* The labels come before the gotos.  In the tree of the current goroutine *)
(* those of the blocks that were entered are before the leaf, and before   *)
(* every node that work goes back to, or below it: they will be before the *)
(* gotos to come.  The trees of the others are complete.                   *)

OrderedTree(t, rt, vis, ts) ==
    /\ Rooted(t, rt) /\ FirstOnly(t) /\ LabelsOf(t, rt, vis) /\ GotosAfter(t, rt)
    /\ \A r \in DOMAIN ts : Matched(t, ts[r])

Ordered ==
    /\ OrderedTree(tree, root, visited, types) /\ CasesUnlabelled(prog, tree, selNode)
    /\ pc # "done" => \A r \in DOMAIN types : types[r] < root
    /\ IsPair(role) /\ \A k \in 1..Len(frames) : IsPair(frames[k].role)
    /\ Spine(tree, root, leaf, Places(prog, selNode, ifparent, work))

RestPlaces == Places(prog, selNode, ifparent, Pop)

\* The work after a step, with x and y that are new, and how many ifs are open with y.
GoesOn(x, y) == {Pop, <<y>> \o Pop, <<x, y>> \o Pop, <<x>> \o (<<y>> \o Pop)}
OpenWith(y) == IF IsOpen(y) THEN Cardinality(Open(Pop)) + 1 ELSE Cardinality(Open(Pop))

\* The top of the work goes back to the lowest of the nodes.
LEMMA Beneath ==
    ASSUME IInv, Running, Fresh, Ordered
    PROVE  /\ RestPlaces \in Seq(Nat) /\ Spine(tree, root, leaf, RestPlaces)
           /\ Waits(prog, Top) => Lowest(tree, root, leaf, From(prog, selNode, Top), RestPlaces)
           /\ IsOpen(Top) => Lowest(tree, root, leaf, Last(ifparent), RestPlaces)
<1>1. /\ Top \in Items /\ Pop \in Seq(Items) /\ Len(tree) \in Nat
      /\ work = <<Top>> \o Pop
      /\ ifparent \in Seq(1..Len(tree)) /\ Len(ifparent) = Cardinality(Open(work))
  <2>1. work \in Seq(Items) /\ work # << >>
    BY DEF IInv, Running
  <2>2. work = <<Top>> \o Pop
    BY <2>1, HeadBefore DEF Top, Pop
  <2>. QED  BY <2>2, AtTop DEF IInv
<1>2. /\ Cardinality(Open(Pop)) \in Nat /\ Len(ifparent) \in Nat
      /\ IsOpen(Top) => Cardinality(Open(Pop)) = Len(ifparent) - 1
      /\ ~IsOpen(Top) => Cardinality(Open(Pop)) = Len(ifparent)
  BY Popped
<1>3. Cardinality(Open(Pop)) <= Len(ifparent)
  BY <1>2
<1>4. Cleared(prog, tree, selNode, leaf, ifparent, Pop)
  BY PopFresh
<1>5. RestPlaces \in Seq(Nat)
  BY <1>1, <1>3, <1>4, PlacesAre DEF RestPlaces
<1>. DEFINE a == Place(prog, selNode, ifparent, Top, Cardinality(Open(<<Top>> \o Pop)))
<1>6. /\ Waits(prog, Top) => a = From(prog, selNode, Top) /\ a \in 1..Len(tree)
      /\ IsOpen(Top) => a = Last(ifparent) /\ a \in 1..Len(tree)
      /\ ~Waits(prog, Top) /\ ~IsOpen(Top) => a = 0
  <2>1. ASSUME Waits(prog, Top) PROVE a = From(prog, selNode, Top) /\ a \in 1..Len(tree)
    BY <2>1, PopFresh DEF Place, Clear
  <2>2. ASSUME IsOpen(Top) PROVE a = Last(ifparent) /\ a \in 1..Len(tree)
    <3>1. ~Waits(prog, Top)
      BY <2>2 DEF Waits, Armed, IsOpen
    <3>2. Cardinality(Open(<<Top>> \o Pop)) = Len(ifparent)
      BY <1>1
    <3>3. a = ifparent[Len(ifparent)]
      BY <2>2, <3>1, <3>2 DEF Place
    <3>4. Len(ifparent) \in 1..Len(ifparent)
      BY <1>2, <2>2
    <3>. HIDE DEF a
    <3>. QED  BY <1>1, <3>3, <3>4, ElementOfSeq DEF Last
  <2>3. ASSUME ~Waits(prog, Top), ~IsOpen(Top) PROVE a = 0
    BY <2>3 DEF Place
  <2>. QED  BY <2>1, <2>2, <2>3
<1>7. a \in Nat
  <2>. HIDE DEF a
  <2>. QED  BY <1>6
<1>8. Places(prog, selNode, ifparent, work) = <<a>> \o RestPlaces
  <2>1. Cardinality(Open(<<Top>> \o Pop)) = Cardinality(Open(work))
    BY <1>1
  <2>2. a = Place(prog, selNode, ifparent, Top, Cardinality(Open(work)))
    BY <2>1
  <2>. DEFINE s == Pop
              ps == RestPlaces
              v == work
  <2>3. /\ s \in Seq(Items) /\ v = Onto(Top, s) /\ ps \in Seq(Nat)
        /\ ps = Places(prog, selNode, ifparent, s)
        /\ a = Place(prog, selNode, ifparent, Top, Cardinality(Open(v)))
    BY <1>1, <1>5, <2>2 DEF RestPlaces, Onto
  <2>4. Stays(prog, s, selNode, ifparent, selNode, ifparent)
    BY DEF Stays
  <2>. HIDE DEF a, s, ps, v
  <2>5. Places(prog, selNode, ifparent, v) = Onto(a, ps)
    BY <1>1, <1>7, <2>3, <2>4, PlacesOn
  <2>. QED  BY <2>5 DEF v, ps, Onto
<1>. HIDE DEF a
<1>9. Spine(tree, root, leaf, <<a>> \o RestPlaces)
  BY <1>8 DEF Ordered
<1>10. Spine(tree, root, leaf, RestPlaces) /\ (a = 0 \/ Lowest(tree, root, leaf, a, RestPlaces))
  BY <1>5, <1>7, <1>9, SpineOn
<1>. QED  BY <1>5, <1>6, <1>10

\* Something on top of the rest of the work that goes back to the lowest of the nodes.
LEMMA SpineTop ==
    ASSUME IInv, Running, Fresh, Ordered, NEW sel, NEW ip, NEW t, NEW rt, NEW lf,
           Spine(t, rt, lf, RestPlaces),
           Stays(prog, Pop, selNode, ifparent, sel, ip),
           NEW S, Pop \in Seq(S), NEW y \in S, NEW r, r = Onto(y, Pop), NEW b \in Nat,
           b = Place(prog, sel, ip, y, OpenWith(y)),
           b = 0 \/ Lowest(t, rt, lf, b, RestPlaces)
    PROVE  /\ Places(prog, sel, ip, r) \in Seq(Nat)
           /\ Spine(t, rt, lf, Places(prog, sel, ip, r))
<1>. DEFINE s == Pop
            ps == RestPlaces
<1>1. Cardinality(Open(r)) =
         IF IsOpen(y) THEN Cardinality(Open(Pop)) + 1 ELSE Cardinality(Open(Pop))
  BY Pushed DEF Onto
<1>2. /\ s \in Seq(S) /\ r = Onto(y, s) /\ ps \in Seq(Nat)
      /\ ps = Places(prog, selNode, ifparent, s)
      /\ b = Place(prog, sel, ip, y, Cardinality(Open(r)))
  BY <1>1, Beneath DEF RestPlaces, Onto, OpenWith
<1>3. Stays(prog, s, selNode, ifparent, sel, ip)
  OBVIOUS
<1>4. Spine(t, rt, lf, ps) /\ (b = 0 \/ Lowest(t, rt, lf, b, ps))
  OBVIOUS
<1>. HIDE DEF s, ps
<1>5. Places(prog, sel, ip, r) = Onto(b, ps)
  BY <1>2, <1>3, PlacesOn
<1>6. Onto(b, ps) \in Seq(Nat)
  BY <1>2, OneBefore DEF Onto
<1>7. Spine(t, rt, lf, Onto(b, ps))
  BY <1>2, <1>4, SpineOn DEF Onto
<1>. QED  BY <1>5, <1>6, <1>7

\* The work after a step: the rest, or such a thing below the visit of a block.
LEMMA SpineWith ==
    ASSUME IInv, Running, Fresh, Ordered, NEW sel, NEW ip, NEW t, NEW rt, NEW lf,
           Spine(t, rt, lf, RestPlaces),
           Stays(prog, Pop, selNode, ifparent, sel, ip),
           NEW x, ~Waits(prog, x), ~IsOpen(x), NEW y, NEW b \in Nat,
           b = Place(prog, sel, ip, y, OpenWith(y)),
           b = 0 \/ Lowest(t, rt, lf, b, RestPlaces),
           NEW v \in GoesOn(x, y)
    PROVE  Spine(t, rt, lf, Places(prog, sel, ip, v))
<1>. DEFINE S == Items \cup {x, y}
            r == <<y>> \o Pop
<1>1. x \in S /\ y \in S /\ Pop \in Seq(S)
  BY AtTop, SeqMonotonic
<1>. HIDE DEF S
<1>2. CASE v = Pop
  <2>1. Places(prog, sel, ip, Pop) = RestPlaces
    <3>1. ASSUME NEW j \in 1..Len(Pop)
          PROVE  Place(prog, sel, ip, Pop[j], OpenFrom(Pop, j))
                   = Place(prog, selNode, ifparent, Pop[j], OpenFrom(Pop, j))
      BY <1>1, OpensFrom DEF Place, Stays
    <3>. QED  BY <3>1 DEF Places, RestPlaces
  <2>. QED  BY <1>2, <2>1
<1>3. r = Onto(y, Pop) /\ r \in Seq(S)
  BY <1>1, OneBefore DEF Onto
<1>4. <<x, y>> \o Pop = <<x>> \o r
  <2>. DEFINE s == Pop
  <2>1. s \in Seq(S)
    BY <1>1
  <2>. HIDE DEF s
  <2>2. <<x, y>> \o s = <<x>> \o (<<y>> \o s)
    BY <1>1, <2>1, TwoBefore
  <2>. QED  BY <2>2 DEF s
<1>. HIDE DEF r
<1>5. Places(prog, sel, ip, r) \in Seq(Nat) /\ Spine(t, rt, lf, Places(prog, sel, ip, r))
  BY <1>1, <1>3, SpineTop
<1>6. CASE v = Onto(x, r)
  <2>. DEFINE ps == Places(prog, sel, ip, r)
              a == 0
  <2>1. /\ ps \in Seq(Nat) /\ ps = Places(prog, sel, ip, r) /\ a \in Nat
        /\ a = Place(prog, sel, ip, x, Cardinality(Open(v)))
    BY <1>5 DEF Place
  <2>2. Stays(prog, r, sel, ip, sel, ip)
    BY DEF Stays
  <2>3. Spine(t, rt, lf, ps) /\ a = 0
    BY <1>5
  <2>. HIDE DEF ps, a
  <2>4. Places(prog, sel, ip, v) = Onto(a, ps)
    BY <1>1, <1>3, <1>6, <2>1, <2>2, PlacesOn
  <2>5. Spine(t, rt, lf, Onto(a, ps))
    BY <2>1, <2>3, SpineOn DEF Onto
  <2>. QED  BY <2>4, <2>5
<1>7. CASE v = r
  BY <1>5, <1>7
<1>8. v = Pop \/ v = r \/ v = Onto(x, r)
  BY <1>4 DEF r, Onto, GoesOn
<1>. QED  BY <1>2, <1>6, <1>7, <1>8

LEMMA OrderedOn ==
    ASSUME IInv, Running, Fresh, Ordered, UNCHANGED <<prog, root, types, role>>,
           \A k \in 1..Len(frames') : IsPair(frames'[k].role),
           OrderedTree(tree', root', visited', types'), CasesUnlabelled(prog, tree', selNode'),
           Spine(tree', root', leaf', RestPlaces),
           Stays(prog, Pop, selNode, ifparent, selNode', ifparent'),
           NEW x, ~Waits(prog, x), ~IsOpen(x), NEW y, NEW b \in Nat,
           b = Place(prog, selNode', ifparent', y, OpenWith(y)),
           b = 0 \/ Lowest(tree', root', leaf', b, RestPlaces),
           work' \in GoesOn(x, y)
    PROVE  Ordered'
<1>1. Spine(tree', root', leaf', Places(prog, selNode', ifparent', work'))
  BY SpineWith
<1>2. pc # "done"
  BY DEF Running
<1>. QED  BY <1>1, <1>2 DEF Ordered

\* The same, when no item goes back to a node.
LEMMA OrderedIdle ==
    ASSUME IInv, Running, Fresh, Ordered,
           UNCHANGED <<prog, root, types, role, selNode, ifparent>>,
           \A k \in 1..Len(frames') : IsPair(frames'[k].role),
           OrderedTree(tree', root', visited', types'), CasesUnlabelled(prog, tree', selNode'),
           Spine(tree', root', leaf', RestPlaces),
           NEW x, ~Waits(prog, x), ~IsOpen(x), NEW y, ~Waits(prog, y), ~IsOpen(y),
           work' \in GoesOn(x, y)
    PROVE  Ordered'
<1>. DEFINE b == Place(prog, selNode', ifparent', y, OpenWith(y))
<1>1. b = 0
  BY DEF Place
<1>2. b \in Nat
  BY <1>1
<1>. HIDE DEF b
<1>3. Stays(prog, Pop, selNode, ifparent, selNode', ifparent')
  BY DEF Stays
<1>4. b = Place(prog, selNode', ifparent', y, OpenWith(y))
  BY DEF b
<1>. QED  BY <1>1, <1>2, <1>3, <1>4, OrderedOn

-----------------------------------------------------------------------------
(* The steps keep the labels before the gotos. *)

LEMMA AddedHere ==
    ASSUME IInv, NEW n \in 1..Len(tree), NEW k \in Kind, NEW x \in ArgOf(prog),
           AddNodeAt(n, k, x)
    PROVE  Adds(tree, tree', n, <<Leaf(k, x)>>) /\ leaf' = Len(tree) + 1
<1>. DEFINE ns == <<Leaf(k, x)>>
            ds == chans \cup {x}
<1>1. Leaf(k, x) \in NodeOf(prog) /\ Leaf(k, x).kids = << >> /\ Leaf(k, x).arg = x
  BY EmptySeq DEF Leaf, NodeOf
<1>2. ns \in Seq(NodeOf(prog)) /\ Len(ns) = 1 /\ ns[1] = Leaf(k, x)
  BY <1>1
<1>3. AreNew(ns, ds)
  BY <1>1, <1>2 DEF AreNew
<1>4. tree' = GrownTree(tree, n, ns) /\ leaf' = Len(tree) + 1
  BY DEF AddNodeAt, Grown, GrownTree
<1>5. IsTree(prog, tree, chans) /\ chans \subseteq ds
  BY DEF IInv
<1>. HIDE DEF ns, ds
<1>6. Adds(tree, GrownTree(tree, n, ns), n, ns)
  BY <1>2, <1>3, <1>5, TreeAdds
<1>. QED  BY <1>4, <1>6 DEF ns

\* The trees of the other roles are as they were.
LEMMA TreeOrdered ==
    ASSUME IInv, Ordered, pc # "done", NEW m \in root..Len(tree), NEW ns,
           Adds(tree, tree', m, ns), UNCHANGED <<root, types>>,
           FirstOnly(tree'), LabelsOf(tree', root, visited'), GotosAfter(tree', root)
    PROVE  OrderedTree(tree', root', visited', types')
<1>1. IsNodes(tree) /\ Rooted(tree, root) /\ root \in 1..Len(tree)
  BY TreeNodes DEF IInv, Ordered, OrderedTree
<1>2. Rooted(tree', root) /\ Alike(tree, tree', root - 1) /\ root - 1 \in Nat
  BY <1>1, RootedGrown
<1>3. ASSUME NEW r \in DOMAIN types PROVE Matched(tree', types[r])
  <2>1. types[r] \in 1..Len(tree) /\ types[r] < root /\ Len(tree) \in Nat /\ root \in Nat
    BY <1>1 DEF IInv, Ordered, IsNodes
  <2>2. types[r] \in 1..(root - 1)
    BY <2>1
  <2>3. Matched(tree, types[r])
    BY DEF Ordered, OrderedTree
  <2>. QED  BY <1>1, <1>2, <2>2, <2>3, MatchedAlike
<1>. QED  BY <1>2, <1>3 DEF OrderedTree

\* Nodes that are no labels or gotos.
LEMMA NodesOrdered ==
    ASSUME IInv, Ordered, pc # "done", NEW m \in root..Len(tree), NEW ns,
           Adds(tree, tree', m, ns), UNCHANGED <<root, types, visited>>,
           \A i \in 1..Len(ns) : ns[i].kind \notin {"label", "goto"}
    PROVE  OrderedTree(tree', root', visited', types')
<1>1. /\ IsNodes(tree) /\ root \in 1..Len(tree) /\ Len(tree) \in Nat
      /\ FirstOnly(tree) /\ LabelsOf(tree, root, visited) /\ GotosAfter(tree, root)
  BY TreeNodes DEF IInv, Ordered, OrderedTree, IsNodes
<1>2. m \in 1..Len(tree)
  BY <1>1
<1>3. \A i \in 1..Len(ns) : ns[i].kind # "label" /\ ns[i].kind # "goto"
  OBVIOUS
<1>4. FirstOnly(tree')
  BY <1>1, <1>2, <1>3, FirstGrown
<1>5. LabelsOf(tree', root, visited)
  BY <1>1, <1>2, <1>3, LabelsGrown
<1>6. GotosAfter(tree', root)
  BY <1>1, <1>2, <1>3, GotosGrown
<1>. QED  BY <1>4, <1>5, <1>6, TreeOrdered

\* One of them at the leaf, or at the lowest of the nodes to go back to.
LEMMA LeafOrdered ==
    ASSUME IInv, Running, Fresh, Ordered, NEW k \in Kind \ {"label", "goto"},
           NEW x \in ArgOf(prog), AddNode(k, x), UNCHANGED <<root, types, visited, selNode>>
    PROVE  /\ OrderedTree(tree', root', visited', types')
           /\ CasesUnlabelled(prog, tree', selNode')
           /\ Spine(tree', root', leaf', RestPlaces)
           /\ Lowest(tree', root', leaf', leaf, RestPlaces)
<1>. DEFINE ns == <<Leaf(k, x)>>
<1>1. RestPlaces \in Seq(Nat) /\ Spine(tree, root, leaf, RestPlaces)
  BY Beneath
<1>2. /\ IsNodes(tree) /\ root \in 1..Len(tree) /\ leaf \in 1..Len(tree) /\ pc # "done"
      /\ AreSelects(prog, tree, selNode) /\ CasesUnlabelled(prog, tree, selNode)
  BY TreeNodes DEF IInv, Ordered, Running
<1>3. Adds(tree, tree', leaf, ns) /\ leaf' = Len(tree) + 1
  BY <1>2, AddedHere DEF AddNode
<1>4. Len(ns) = 1 /\ ns[1].kind = k /\ \A i \in 1..Len(ns) : ns[i].kind \notin {"label", "goto"}
  BY DEF Leaf
<1>. HIDE DEF ns
<1>5. leaf \in root..Len(tree)
  <2>1. Within(tree, root, leaf)
    BY <1>1 DEF Spine
  <2>. QED  BY <1>2, <2>1, WithinUp
<1>6. OrderedTree(tree', root', visited', types')
  BY <1>2, <1>3, <1>4, <1>5, NodesOrdered
<1>7. CasesUnlabelled(prog, tree', selNode')
  BY <1>2, <1>3, CasesGrown
<1>8. GrownBy(tree, tree', leaf, 1) /\ Labels(tree, tree', 1)
  BY <1>3, <1>4 DEF Adds, Labels
<1>9. /\ Spine(tree', root, Len(tree) + 1, RestPlaces)
      /\ Lowest(tree', root, Len(tree) + 1, leaf, RestPlaces)
  <2>1. 1 \in Nat /\ 1 # 0
    OBVIOUS
  <2>. QED  BY <1>1, <1>2, <1>8, <2>1, SpineGrown
<1>. QED  BY <1>3, <1>6, <1>7, <1>9

LEMMA BackOrdered ==
    ASSUME IInv, Running, Fresh, Ordered, NEW k \in Kind \ {"label", "goto"},
           NEW x \in ArgOf(prog), NEW q,
           Lowest(tree, root, leaf, q, RestPlaces), AddNodeAt(q, k, x),
           UNCHANGED <<root, types, visited, selNode>>
    PROVE  /\ OrderedTree(tree', root', visited', types')
           /\ CasesUnlabelled(prog, tree', selNode')
           /\ Spine(tree', root', leaf', RestPlaces)
           /\ Lowest(tree', root', leaf', q, RestPlaces)
<1>. DEFINE ns == <<Leaf(k, x)>>
<1>1. RestPlaces \in Seq(Nat) /\ Spine(tree, root, leaf, RestPlaces)
  BY Beneath
<1>2. /\ IsNodes(tree) /\ root \in 1..Len(tree) /\ q \in 1..Len(tree) /\ pc # "done"
      /\ AreSelects(prog, tree, selNode) /\ CasesUnlabelled(prog, tree, selNode)
  BY TreeNodes DEF IInv, Ordered, Running, Lowest
<1>3. Adds(tree, tree', q, ns) /\ leaf' = Len(tree) + 1
  BY <1>2, AddedHere
<1>4. Len(ns) = 1 /\ ns[1].kind = k /\ \A i \in 1..Len(ns) : ns[i].kind \notin {"label", "goto"}
  BY DEF Leaf
<1>. HIDE DEF ns
<1>5. q \in root..Len(tree)
  <2>1. Within(tree, root, q)
    BY DEF Lowest
  <2>. QED  BY <1>2, <2>1, WithinUp
<1>6. OrderedTree(tree', root', visited', types')
  BY <1>2, <1>3, <1>4, <1>5, NodesOrdered
<1>7. CasesUnlabelled(prog, tree', selNode')
  BY <1>2, <1>3, CasesGrown
<1>8. /\ GrownBy(tree, tree', q, 1) /\ Labels(tree, tree', 1)
      /\ ~IsLabel(tree', Len(tree) + 1)
  <2>1. GrownBy(tree, tree', q, 1) /\ Labels(tree, tree', 1)
    BY <1>3, <1>4 DEF Adds, Labels
  <2>2. tree'[Len(tree) + 1].kind = ns[1].kind
    BY <1>3, <1>4 DEF Adds
  <2>. QED  BY <1>4, <2>1, <2>2 DEF IsLabel
<1>9. /\ Spine(tree', root, Len(tree) + 1, RestPlaces)
      /\ Lowest(tree', root, Len(tree) + 1, q, RestPlaces)
  BY <1>1, <1>2, <1>8, SpineBack
<1>. QED  BY <1>3, <1>6, <1>7, <1>9

\* A step that adds no node and stays where it is.
LEMMA SameOrdered ==
    ASSUME IInv, Running, Fresh, Ordered,
           UNCHANGED <<prog, root, types, role, tree, leaf, visited, selNode, ifparent>>,
           \A k \in 1..Len(frames') : IsPair(frames'[k].role),
           NEW x, ~Waits(prog, x), ~IsOpen(x), NEW y, ~Waits(prog, y), ~IsOpen(y),
           work' \in GoesOn(x, y)
    PROVE  Ordered'
<1>1. Spine(tree, root, leaf, RestPlaces)
  BY Beneath
<1>2. OrderedTree(tree', root', visited', types') /\ CasesUnlabelled(prog, tree', selNode')
  BY DEF Ordered
<1>. QED  BY <1>1, <1>2, OrderedIdle

\* The role of a frame that is added is a pair.
LEMMA PairsAdded ==
    ASSUME IInv, Ordered, NEW f, IsPair(f.role), frames' \in {frames, Append(frames, f)}
    PROVE  \A k \in 1..Len(frames') : IsPair(frames'[k].role)
<1>1. frames \in Seq(FrameOf(prog)) /\ \A k \in 1..Len(frames) : IsPair(frames[k].role)
  BY DEF IInv, AreFrames, Ordered
<1>2. CASE frames' = frames
  BY <1>1, <1>2
<1>3. CASE frames' = Append(frames, f)
  <2>1. /\ Len(frames') = Len(frames) + 1 /\ frames'[Len(frames) + 1] = f
        /\ Len(frames) \in Nat /\ \A k \in 1..Len(frames) : frames'[k] = frames[k]
    BY <1>1, <1>3, LenProperties, AppendProperties
  <2>2. \A k \in 1..Len(frames') : k \in 1..Len(frames) \/ k = Len(frames) + 1
    BY <2>1
  <2>. QED  BY <1>1, <2>1, <2>2
<1>. QED  BY <1>2, <1>3

LEMMA StaysSame == ASSUME NEW p, NEW s, NEW sel, NEW ip PROVE Stays(p, s, sel, ip, sel, ip)
BY DEF Stays

\* The instructions that go on with the next one.
LEMMA CommOrdered ==
    ASSUME IInv, Fresh, Ordered,
           VisitComm \/ VisitRecvOk \/ VisitReturn \/ VisitDefer \/ CallGo
    PROVE  Ordered'
<1>1. /\ Running /\ Top.do = "ins" /\ work' = Rest
      /\ UNCHANGED <<prog, root, types, role, visited, ifparent, selNode>>
      /\ Cur.op \in {"make", "send", "recv", "recvok", "return", "panic", "defer", "go"}
  BY DEF VisitComm, VisitRecvOk, VisitReturn, VisitDefer, CallGo, OnIns, Doing
<1>2. PICK y : ~Waits(prog, y) /\ ~IsOpen(y) /\ work' \in {Pop, <<y>> \o Pop}
  BY <1>1, RestIdle
<1>3. work' \in GoesOn(y, y)
  BY <1>2 DEF GoesOn
<1>4. \A k \in 1..Len(frames') : IsPair(frames'[k].role)
  <2>1. CASE frames' = frames
    BY <2>1 DEF Ordered
  <2>2. CASE CallGo
    <3>. DEFINE f == Frame(Cur.x, Top.fr, <<Cur.x, Cur.n>>)
    <3>1. frames' = Append(frames, f) /\ IsPair(f.role)
      BY <2>2 DEF CallGo, Frame, IsPair
    <3>. HIDE DEF f
    <3>. QED  BY <3>1, PairsAdded
  <2>3. CASE VisitDefer
    <3>. DEFINE d == Append(frames[Top.fr].defers, Cur.args[1])
    <3>1. frames' = [frames EXCEPT ![Top.fr].defers = d]
      BY <2>3 DEF VisitDefer
    <3>. HIDE DEF d
    <3>2. /\ frames \in Seq(FrameOf(prog)) /\ Len(frames) \in Nat
          /\ \A k \in 1..Len(frames) : IsPair(frames[k].role)
      BY LenProperties DEF IInv, AreFrames, Ordered
    <3>3. Len(frames') = Len(frames)
      BY <3>1, <3>2
    <3>4. ASSUME NEW k \in 1..Len(frames) PROVE frames'[k].role = frames[k].role
      <4>. DEFINE j == Top.fr
      <4>1. frames' = [frames EXCEPT ![j] = [frames[j] EXCEPT !.defers = d]]
        BY <3>1
      <4>2. frames[k] \in FrameOf(prog)
        BY <3>2, ElementOfSeq
      <4>. HIDE DEF j
      <4>3. CASE k = j
        <5>1. frames'[k] = [frames[k] EXCEPT !.defers = d]
          BY <3>2, <4>1, <4>3
        <5>. QED  BY <4>2, <5>1 DEF FrameOf
      <4>4. CASE k # j
        BY <3>2, <4>1, <4>4
      <4>. QED  BY <4>3, <4>4
    <3>. QED  BY <3>2, <3>3, <3>4
  <2>. QED  BY <2>1, <2>2, <2>3 DEF VisitComm, VisitRecvOk, VisitReturn
<1>5. CASE UNCHANGED <<tree, leaf>>
  BY <1>1, <1>2, <1>3, <1>4, <1>5, SameOrdered
<1>6. CASE \E k \in {"skip", "send", "recv"} : \E x \in ArgOf(prog) : AddNode(k, x)
  <2>1. PICK k \in {"skip", "send", "recv"} : \E x \in ArgOf(prog) : AddNode(k, x)
    BY <1>6
  <2>2. k \in Kind \ {"label", "goto"}
    BY DEF Kind, CommKind
  <2>3. /\ OrderedTree(tree', root', visited', types')
        /\ CasesUnlabelled(prog, tree', selNode') /\ Spine(tree', root', leaf', RestPlaces)
    BY <1>1, <2>1, <2>2, LeafOrdered
  <2>. QED  BY <1>1, <1>2, <1>3, <1>4, <2>3, OrderedIdle
<1>. QED  BY <1>5, <1>6, CommNode

\* visitJump, and visitIf on its branches.
LEMMA JumpOrdered == ASSUME IInv, Fresh, Ordered, VisitJump PROVE Ordered'
<1>. DEFINE x == Succ(1)
<1>1. /\ Running /\ Top.do = "ins" /\ Cur.op = "jump" /\ work' = <<x>> \o Rest
      /\ UNCHANGED <<prog, frames, root, types, role, tree, leaf, visited, selNode, ifparent>>
  BY DEF VisitJump, OnIns, Doing
<1>2. ~Waits(prog, x) /\ ~IsOpen(x)
  BY <1>1, SuccIdle, SuccessorNotOpen
<1>. HIDE DEF x
<1>3. work' \in GoesOn(x, x)
  <2>1. ~(Top.i < Len(prog[Top.fn][Top.b].ins))
    <3>1. Top.i = Len(prog[Top.fn][Top.b].ins) /\ Len(prog[Top.fn][Top.b].ins) \in Nat
      BY <1>1, CurEnds, AtInstruction
    <3>. QED  BY <3>1
  <2>. QED  BY <1>1, <2>1 DEF Rest, GoesOn
<1>4. \A k \in 1..Len(frames') : IsPair(frames'[k].role)
  BY <1>1 DEF Ordered
<1>. QED  BY <1>1, <1>2, <1>3, <1>4, SameOrdered

\* The parents of the open ifs are those of the ifs that are open below the top, and
\* that of the top.
LEMMA ParentsBelow ==
    ASSUME IInv, Running
    PROVE  /\ ifparent \in Seq(1..Len(tree)) /\ Len(ifparent) \in Nat
           /\ Cardinality(Open(Pop)) \in Nat
           /\ Len(ifparent) = OpenWith(Top)
<1>1. ifparent \in Seq(1..Len(tree)) /\ Len(ifparent) \in Nat
  BY LenProperties DEF IInv
<1>. QED  BY <1>1, Popped DEF OpenWith

LEMMA IfOrdered == ASSUME IInv, Fresh, Ordered, VisitIf PROVE Ordered'
<1>. DEFINE x == Succ(1)
            y == Then("else", 0)
<1>1. /\ Running /\ Top.do = "ins" /\ Cur.op \in {"if", "ifrecv"}
      /\ ifparent' = Append(ifparent, leaf) /\ AddNode("skip", NoArg)
      /\ work' = <<x, y>> \o Pop
      /\ UNCHANGED <<prog, frames, root, types, role, visited, selNode>>
  BY DEF VisitIf, OnIns, Doing
<1>2. ~Waits(prog, x) /\ ~IsOpen(x) /\ ~Waits(prog, y)
  BY <1>1, SuccIdle, SuccessorNotOpen, ThenIdle
<1>3. IsOpen(y) /\ ~IsOpen(Top)
  BY <1>1, AtTop DEF Then, IsOpen
<1>. HIDE DEF x, y
<1>4. NoArg \in ArgOf(prog) /\ "skip" \in Kind \ {"label", "goto"}
  BY ArgsOf DEF Kind
<1>5. /\ OrderedTree(tree', root', visited', types')
      /\ CasesUnlabelled(prog, tree', selNode')
      /\ Spine(tree', root', leaf', RestPlaces) /\ Lowest(tree', root', leaf', leaf, RestPlaces)
  BY <1>1, <1>4, LeafOrdered
<1>6. /\ Len(ifparent) \in Nat /\ Cardinality(Open(Pop)) = Len(ifparent)
      /\ OpenWith(y) = Len(ifparent) + 1
  BY <1>1, <1>3, ParentsBelow DEF OpenWith
<1>7. /\ ifparent'[Len(ifparent) + 1] = leaf
      /\ \A i \in 1..Len(ifparent) : ifparent'[i] = ifparent[i]
  <2>1. ifparent \in Seq(1..Len(tree)) /\ leaf \in 1..Len(tree)
    BY DEF IInv
  <2>. QED  BY <1>1, <2>1, AppendProperties
<1>8. Stays(prog, Pop, selNode, ifparent, selNode', ifparent')
  BY <1>1, <1>6, <1>7 DEF Stays
<1>9. leaf = Place(prog, selNode', ifparent', y, OpenWith(y)) /\ leaf \in Nat
  <2>1. leaf = Place(prog, selNode', ifparent', y, OpenWith(y))
    BY <1>2, <1>3, <1>6, <1>7 DEF Place
  <2>2. leaf \in 1..Len(tree)
    BY DEF IInv
  <2>. QED  BY <2>1, <2>2
<1>10. work' \in GoesOn(x, y)
  BY <1>1 DEF GoesOn
<1>11. \A k \in 1..Len(frames') : IsPair(frames'[k].role)
  BY <1>1 DEF Ordered
<1>. QED  BY <1>1, <1>2, <1>5, <1>8, <1>9, <1>10, <1>11, OrderedOn

LEMMA ElseOrdered == ASSUME IInv, Fresh, Ordered, VisitElse PROVE Ordered'
<1>. DEFINE m == ElseParent
            x == Succ(2)
            y == Then("endif", 0)
<1>1. /\ Running /\ Top.do = "else" /\ AddNodeAt(m, "skip", NoArg)
      /\ work' = <<x, y>> \o Pop
      /\ UNCHANGED <<prog, frames, root, types, role, visited, selNode, ifparent>>
  BY DEF VisitElse, Doing
<1>2. ~Waits(prog, x) /\ ~IsOpen(x) /\ ~Waits(prog, y)
  BY <1>1, CurOfBranch, SuccIdle, SuccessorNotOpen, ThenIdle
<1>3. IsOpen(y) /\ IsOpen(Top)
  BY <1>1, AtTop DEF Then, IsOpen
<1>. HIDE DEF x, y
<1>4. NoArg \in ArgOf(prog) /\ "skip" \in Kind \ {"label", "goto"}
  BY ArgsOf DEF Kind
<1>5. Lowest(tree, root, leaf, m, RestPlaces)
  BY <1>1, <1>3, Beneath DEF ElseParent
<1>6. /\ OpenWith(y) = Len(ifparent) /\ ifparent[OpenWith(y)] = m
  BY <1>1, <1>3, ParentsBelow DEF OpenWith, ElseParent, Last
<1>. HIDE DEF m
<1>7. /\ OrderedTree(tree', root', visited', types')
      /\ CasesUnlabelled(prog, tree', selNode')
      /\ Spine(tree', root', leaf', RestPlaces) /\ Lowest(tree', root', leaf', m, RestPlaces)
  BY <1>1, <1>4, <1>5, BackOrdered
<1>8. Stays(prog, Pop, selNode, ifparent, selNode', ifparent')
  BY <1>1, StaysSame
<1>9. m = Place(prog, selNode', ifparent', y, OpenWith(y)) /\ m \in Nat
  <2>1. m = Place(prog, selNode', ifparent', y, OpenWith(y))
    BY <1>1, <1>2, <1>3, <1>6 DEF Place
  <2>2. m \in 1..Len(tree)
    BY <1>5 DEF Lowest
  <2>. QED  BY <2>1, <2>2
<1>10. work' \in GoesOn(x, y)
  BY <1>1 DEF GoesOn
<1>11. \A k \in 1..Len(frames') : IsPair(frames'[k].role)
  BY <1>1 DEF Ordered
<1>. QED  BY <1>1, <1>2, <1>7, <1>8, <1>9, <1>10, <1>11, OrderedOn

LEMMA EndIfOrdered == ASSUME IInv, Fresh, Ordered, EndIf PROVE Ordered'
<1>. DEFINE x == Item("defers", 0, 0, 0, 0, 0)
            b == 0
<1>1. /\ Running /\ Top.do = "endif" /\ work' = Pop /\ ifparent' = Front(ifparent)
      /\ UNCHANGED <<prog, frames, root, types, role, tree, leaf, visited, selNode>>
  BY DEF EndIf, Doing
<1>2. ~Waits(prog, x) /\ ~IsOpen(x)
  BY DEF Waits, Armed, IsOpen, Item
<1>. HIDE DEF x
<1>3. /\ OrderedTree(tree', root', visited', types')
      /\ CasesUnlabelled(prog, tree', selNode')
  BY <1>1 DEF Ordered
<1>4. Spine(tree', root', leaf', RestPlaces)
  BY <1>1, Beneath
<1>5. Stays(prog, Pop, selNode, ifparent, selNode', ifparent')
  <2>1. /\ ifparent \in Seq(1..Len(tree)) /\ Len(ifparent) = Cardinality(Open(Pop)) + 1
        /\ Cardinality(Open(Pop)) \in Nat
    BY <1>1, ParentsBelow DEF OpenWith, IsOpen
  <2>2. ifparent' = SubSeq(ifparent, 1, Len(ifparent) - 1)
    BY <1>1 DEF Front
  <2>3. \A i \in 1..Cardinality(Open(Pop)) : ifparent'[i] = ifparent[i]
    BY <2>1, <2>2
  <2>. QED  BY <1>1, <2>3 DEF Stays
<1>6. b = Place(prog, selNode', ifparent', x, OpenWith(x)) /\ b \in Nat /\ b = 0
  BY <1>2 DEF Place
<1>. HIDE DEF b
<1>7. work' \in GoesOn(x, x)
  BY <1>1 DEF GoesOn
<1>8. \A k \in 1..Len(frames') : IsPair(frames'[k].role)
  BY <1>1 DEF Ordered
<1>. QED  BY <1>1, <1>2, <1>3, <1>4, <1>5, <1>6, <1>7, <1>8, OrderedOn

\* The tests of ok.
LEMMA IfRecvOrdered == ASSUME IInv, Fresh, Ordered, VisitIfRecv PROVE Ordered'
<1>. DEFINE x == Succ(1)
            y == Then("stop", leaf)
<1>1. /\ Running /\ Top.do = "ins" /\ Cur.op = "ifrecv" /\ AddNode("recv", Cur.x)
      /\ work' = <<x, y>> \o Pop /\ Cur.x \in recvTest
      /\ UNCHANGED <<prog, frames, root, types, role, visited, selNode, ifparent>>
  BY DEF VisitIfRecv, OnIns, Doing
<1>2. ~Waits(prog, x) /\ ~IsOpen(x)
  BY <1>1, SuccIdle, SuccessorNotOpen
<1>3. y.do = "stop" /\ y.at = leaf
  BY <1>1, AtTop DEF Then
<1>. HIDE DEF x, y
<1>4. Cur.x \in ArgOf(prog) /\ "recv" \in Kind \ {"label", "goto"}
  BY <1>1, ArgsOf DEF Kind, CommKind
<1>5. /\ OrderedTree(tree', root', visited', types')
      /\ CasesUnlabelled(prog, tree', selNode')
      /\ Spine(tree', root', leaf', RestPlaces) /\ Lowest(tree', root', leaf', leaf, RestPlaces)
  BY <1>1, <1>4, LeafOrdered
<1>6. Stays(prog, Pop, selNode, ifparent, selNode', ifparent')
  BY <1>1, StaysSame
<1>7. leaf = Place(prog, selNode', ifparent', y, OpenWith(y)) /\ leaf \in Nat
  <2>1. leaf = Place(prog, selNode', ifparent', y, OpenWith(y))
    BY <1>3 DEF Place, Waits, From
  <2>2. leaf \in 1..Len(tree)
    BY DEF IInv
  <2>. QED  BY <2>1, <2>2
<1>8. work' \in GoesOn(x, y)
  BY <1>1 DEF GoesOn
<1>9. \A k \in 1..Len(frames') : IsPair(frames'[k].role)
  BY <1>1 DEF Ordered
<1>. QED  BY <1>1, <1>2, <1>5, <1>6, <1>7, <1>8, <1>9, OrderedOn

LEMMA StopOrdered == ASSUME IInv, Fresh, Ordered, VisitStop PROVE Ordered'
<1>. DEFINE m == Top.at
            x == Succ(2)
<1>1. /\ Running /\ Top.do = "stop" /\ AddNodeAt(m, "stop", Cur.x)
      /\ work' = <<x>> \o Pop
      /\ UNCHANGED <<prog, frames, root, types, role, visited, selNode, ifparent>>
  BY DEF VisitStop, Doing
<1>2. Cur.op = "ifrecv" /\ Waits(prog, Top) /\ From(prog, selNode, Top) = m
  BY <1>1, CurOfBranch DEF Waits, From
<1>3. ~Waits(prog, x) /\ ~IsOpen(x)
  BY <1>1, <1>2, SuccIdle, SuccessorNotOpen
<1>4. Cur.x \in ArgOf(prog) /\ "stop" \in Kind \ {"label", "goto"}
  <2>1. Top \in Items
    BY <1>1, AtTop
  <2>2. Cur.x \in chans
    BY <1>1, <2>1 DEF Items, ItemsOf, Cur
  <2>. QED  BY <2>2, ArgsOf DEF Kind, CommKind
<1>5. Lowest(tree, root, leaf, m, RestPlaces)
  BY <1>1, <1>2, Beneath
<1>. HIDE DEF m, x
<1>6. /\ OrderedTree(tree', root', visited', types')
      /\ CasesUnlabelled(prog, tree', selNode') /\ Spine(tree', root', leaf', RestPlaces)
  BY <1>1, <1>4, <1>5, BackOrdered
<1>7. work' \in GoesOn(x, x)
  BY <1>1 DEF GoesOn
<1>8. \A k \in 1..Len(frames') : IsPair(frames'[k].role)
  BY <1>1 DEF Ordered
<1>. QED  BY <1>1, <1>3, <1>6, <1>7, <1>8, OrderedIdle

\* A run that stops where it is.
LEMMA HaltOrdered ==
    ASSUME Ordered, UNCHANGED <<prog, frames, role, root, types, tree, leaf, visited, selNode,
                                ifparent, work>>,
           pc' # "done" => pc # "done"
    PROVE  Ordered'
BY DEF Ordered

LEMMA CallOrdered ==
    ASSUME IInv, Running, Fresh, Ordered, NEW i, NEW y, ~Waits(prog, y), ~IsOpen(y),
           NEW rest \in {Pop, <<y>> \o Pop},
           CallCommon(i, rest), i.op = "call" => i.x \in DOMAIN prog,
           UNCHANGED <<prog, role, root, visited, types, ifparent, selNode>>
    PROVE  Ordered'
<1>1. CASE i.op = "close" /\ i.x \in chans
  <2>1. AddNode("end", i.x) /\ work' = rest /\ frames' = frames
    BY <1>1 DEF CallCommon
  <2>2. "end" \in Kind \ {"label", "goto"} /\ i.x \in ArgOf(prog)
    BY <1>1, ArgsOf DEF Kind, CommKind
  <2>3. /\ OrderedTree(tree', root', visited', types')
        /\ CasesUnlabelled(prog, tree', selNode') /\ Spine(tree', root', leaf', RestPlaces)
    BY <2>1, <2>2, LeafOrdered
  <2>4. work' \in GoesOn(y, y)
    BY <2>1 DEF GoesOn
  <2>5. \A k \in 1..Len(frames') : IsPair(frames'[k].role)
    BY <2>1 DEF Ordered
  <2>. QED  BY <2>3, <2>4, <2>5, OrderedIdle
<1>2. CASE i.op = "close" /\ i.x \notin chans
  <2>1. UNCHANGED <<work, tree, leaf, frames>> /\ pc # "done"
    BY <1>2 DEF CallCommon, Running
  <2>. QED  BY <2>1, HaltOrdered
<1>3. CASE i.op = "call"
  <2>. DEFINE k == Len(frames) + 1
              f == i.x
              fr == Frame(f, Top.fr, role)
  <2>1. /\ work' = (IF IsRecursive(frames', k) THEN << >> ELSE VisitFunc(k, f)) \o rest
        /\ frames' = Append(frames, fr) /\ UNCHANGED <<tree, leaf>> /\ f \in DOMAIN prog
    BY <1>3 DEF CallCommon
  <2>2. IsPair(fr.role)
    BY DEF Frame, Ordered
  <2>. HIDE DEF k, f, fr
  <2>3. \A j \in 1..Len(frames') : IsPair(frames'[j].role)
    BY <2>1, <2>2, PairsAdded
  <2>4. CASE IsRecursive(frames', k) \/ prog[f] = << >>
    <3>1. work' = << >> \o rest
      BY <2>1, <2>4 DEF VisitFunc
    <3>2. rest \in Seq(Items \cup {y})
      <4>1. Pop \in Seq(Items \cup {y}) /\ y \in Items \cup {y}
        BY AtTop, SeqMonotonic
      <4>2. <<y>> \o Pop \in Seq(Items \cup {y})
        BY <4>1, OneBefore
      <4>. QED  BY <4>1, <4>2
    <3>3. work' = rest
      BY <3>1, <3>2, ConcatEmptySeq
    <3>4. work' \in GoesOn(y, y)
      BY <3>3 DEF GoesOn
    <3>. QED  BY <2>1, <2>3, <3>4, SameOrdered
  <2>5. CASE ~(IsRecursive(frames', k) \/ prog[f] = << >>)
    <3>. DEFINE x == VisitOf(k, f, 1)
    <3>1. work' = <<x>> \o rest
      BY <2>1, <2>5 DEF VisitFunc
    <3>2. ~Waits(prog, x) /\ ~IsOpen(x)
      BY <2>1, <2>5, AtTop, EntryNotArmed DEF IsOpen, VisitOf, Item
    <3>. HIDE DEF x
    <3>3. work' \in GoesOn(x, y) \/ work' \in GoesOn(x, x)
      BY <3>1 DEF GoesOn
    <3>. QED  BY <2>1, <2>3, <3>2, <3>3, SameOrdered
  <2>. QED  BY <2>4, <2>5
<1>. QED  BY <1>1, <1>2, <1>3 DEF CallCommon

LEMMA CallInsOrdered == ASSUME IInv, Fresh, Ordered, VisitCall PROVE Ordered'
<1>1. /\ Running /\ Top.do = "ins" /\ Cur.op \in {"call", "close"} /\ CallCommon(Cur, Rest)
      /\ UNCHANGED <<prog, role, root, visited, types, ifparent, selNode>>
  BY DEF VisitCall, OnIns, Doing
<1>2. Cur.op = "call" => Cur.x \in DOMAIN prog
  BY <1>1, AtInstruction DEF IsInstruction
<1>3. PICK y : ~Waits(prog, y) /\ ~IsOpen(y) /\ Rest \in {Pop, <<y>> \o Pop}
  BY <1>1, RestIdle
<1>. QED  BY <1>1, <1>2, <1>3, CallOrdered

LEMMA RunDefersOrdered == ASSUME IInv, Fresh, Ordered, VisitRunDefers PROVE Ordered'
<1>. DEFINE x == [Top EXCEPT !.do = "defers", !.i = Len(frames[Top.fr].defers)]
<1>1. /\ Running /\ Top.do = "ins" /\ Cur.op = "rundefers" /\ work' = <<x>> \o Rest
      /\ UNCHANGED <<prog, frames, role, root, visited, types, tree, leaf, ifparent, selNode>>
  BY DEF VisitRunDefers, OnIns, Doing
<1>2. PICK y : ~Waits(prog, y) /\ ~IsOpen(y) /\ Rest \in {Pop, <<y>> \o Pop}
  BY <1>1, RestIdle
<1>3. x.do = "defers"
  BY <1>1, AtTop
<1>. HIDE DEF x
<1>4. ~Waits(prog, x) /\ ~IsOpen(x)
  BY <1>3 DEF Waits, Armed, IsOpen
<1>5. work' \in GoesOn(x, y) \/ work' \in GoesOn(x, x)
  BY <1>1, <1>2 DEF GoesOn
<1>6. \A k \in 1..Len(frames') : IsPair(frames'[k].role)
  BY <1>1 DEF Ordered
<1>. QED  BY <1>1, <1>2, <1>4, <1>5, <1>6, SameOrdered

LEMMA RunDeferOrdered == ASSUME IInv, Fresh, Ordered, RunDefer PROVE Ordered'
<1>. DEFINE y == [Top EXCEPT !.i = @ - 1]
            call == DeferAt(Top.fr, Top.i)
<1>1. /\ Running /\ Top.do = "defers"
      /\ UNCHANGED <<prog, role, root, visited, types, ifparent, selNode>>
  BY DEF RunDefer, Doing
<1>2. ~Waits(prog, y) /\ ~IsOpen(y)
  <2>1. y.do = "defers"
    BY <1>1, AtTop
  <2>. HIDE DEF y
  <2>. QED  BY <2>1 DEF Waits, Armed, IsOpen
<1>3. CASE Top.i = 0
  <2>1. work' = Pop /\ UNCHANGED <<frames, tree, leaf>>
    BY <1>3 DEF RunDefer
  <2>. HIDE DEF y
  <2>2. work' \in GoesOn(y, y)
    BY <2>1 DEF GoesOn
  <2>3. \A k \in 1..Len(frames') : IsPair(frames'[k].role)
    BY <2>1 DEF Ordered
  <2>. QED  BY <1>1, <1>2, <2>1, <2>2, <2>3, SameOrdered
<1>4. CASE Top.i # 0
  <2>1. CallCommon(call, <<y>> \o Pop)
    BY <1>4 DEF RunDefer
  <2>2. call \in DeferrableCalls(prog)
    <3>1. /\ Top.fr \in 1..Len(frames) /\ Top.i \in Nat
          /\ Top.i <= Len(frames[Top.fr].defers)
      <4>1. Top \in ItemsOf(prog, frames, tree, chans, selNode)
        BY <1>1, AtTop DEF Items
      <4>2. Top.i <= Len(frames[Top.fr].defers)
        BY <1>1, <4>1 DEF ItemsOf
      <4>. QED  BY <1>1, <4>2, AtTop
    <3>2. frames[Top.fr] \in FrameOf(prog)
      BY <3>1, ElementOfSeq DEF IInv, AreFrames
    <3>3. /\ frames[Top.fr].defers \in Seq(DeferrableCalls(prog))
          /\ Len(frames[Top.fr].defers) \in Nat
      BY <3>2, LenProperties DEF FrameOf
    <3>4. Top.i \in 1..Len(frames[Top.fr].defers)
      BY <1>4, <3>1, <3>3
    <3>. QED  BY <3>3, <3>4, ElementOfSeq DEF DeferAt
  <2>3. call.op = "call" => call.x \in DOMAIN prog
    <3>1. CASE \E g \in DOMAIN prog : call = Call(g)
      BY <3>1 DEF Call, Ins
    <3>2. CASE \E c \in Chan : call = Close(c)
      BY <3>2 DEF Close, Ins
    <3>. QED  BY <2>2, <3>1, <3>2 DEF DeferrableCalls
  <2>. HIDE DEF y, call
  <2>. QED  BY <1>1, <1>2, <2>1, <2>3, CallOrdered
<1>. QED  BY <1>3, <1>4

\* The cases from case k of a select on have no labels, when case k is tested.
LEMMA CaseOrdered ==
    ASSUME IInv, Running, Fresh, Ordered, Waits(prog, Top), NEW m, m = From(prog, selNode, Top),
           NEW k \in 1..CountOf(tree, m), k > 1 \/ ~IsLabel(tree, tree[m].kids[k]),
           \A j \in k..CountOf(tree, m) : tree[tree[m].kids[j]].kids = << >>
    PROVE  /\ Spine(tree, root, tree[m].kids[k], RestPlaces)
           /\ Lowest(tree, root, tree[m].kids[k], m, RestPlaces)
<1>1. /\ RestPlaces \in Seq(Nat) /\ Spine(tree, root, leaf, RestPlaces)
      /\ Lowest(tree, root, leaf, m, RestPlaces)
  BY Beneath
<1>2. IsNodes(tree) /\ FirstOnly(tree) /\ m \in 1..Len(tree) /\ CountOf(tree, m) \in Nat
  <2>1. IsNodes(tree) /\ FirstOnly(tree) /\ m \in 1..Len(tree)
    BY <1>1, TreeNodes DEF IInv, Ordered, OrderedTree, Lowest
  <2>. QED  BY <2>1 DEF IsNodes
<1>3. ASSUME NEW j \in k..CountOf(tree, m)
      PROVE  ~IsLabel(tree, tree[m].kids[j]) /\ CountOf(tree, tree[m].kids[j]) = 0
  <2>1. j \in 1..CountOf(tree, m) /\ (j = k \/ j # 1)
    BY <1>2
  <2>2. ~IsLabel(tree, tree[m].kids[j])
    BY <1>2, <2>1 DEF FirstOnly
  <2>. QED  BY <2>2, EmptySeq DEF CountOf
<1>. QED  BY <1>1, <1>2, <1>3, SpineCase

LEMMA IfSelOrdered == ASSUME IInv, Fresh, Ordered, VisitIfSel PROVE Ordered'
<1>. DEFINE y == Then("selelse", 0)
            x == Succ(1)
            m == selNode[Cur.x].parent
            n == Cur.n
<1>1. /\ Running /\ Top.do = "ins" /\ Cur.op = "ifsel" /\ leaf' = tree[m].kids[n + 1]
      /\ work' = <<x, y>> \o Pop
      /\ UNCHANGED <<prog, frames, role, root, visited, types, tree, ifparent, selNode>>
  BY DEF VisitIfSel, OnIns, Doing, CaseOf
<1>2. Test(prog, Top) = Cur /\ Top.i = Len(prog[Top.fn][Top.b].ins)
  BY <1>1, CurEnds
<1>3. /\ Waits(prog, Top) /\ From(prog, selNode, Top) = m
      /\ Later(prog, tree, selNode, Top) =
            {tree[m].kids[k] : k \in {j \in 1..CountOf(tree, m) : j > n + 0}}
  BY <1>1, <1>2 DEF Waits, Armed, From, Later
<1>4. n \in Nat /\ m \in 1..Len(tree) /\ CountOf(tree, m) \in Nat /\ n < CountOf(tree, m)
  <2>1. n \in Nat /\ m \in 1..Len(tree) /\ n < CountOf(tree, m)
    BY <1>1, SelectKnown
  <2>2. tree[m] \in NodeOf(prog)
    BY <2>1, ElementOfSeq DEF IInv, IsTree
  <2>3. CountOf(tree, m) \in Nat
    BY <2>2, LenProperties DEF NodeOf, CountOf
  <2>. QED  BY <2>1, <2>3
<1>5. y.do = "selelse" /\ y.fn = Top.fn /\ y.b = Top.b
  BY <1>1, AtTop DEF Then
<1>6. Test(prog, y) = Cur /\ ~IsOpen(y)
  BY <1>2, <1>5 DEF Test, IsOpen
<1>7. ~Waits(prog, x) /\ ~IsOpen(x)
  <2>1. 1 \in 1..Len(prog[Top.fn][Top.b].succs)
    <3>1. Len(prog[Top.fn][Top.b].succs) = 2
      BY <1>1, CurEnds
    <3>. QED  BY <3>1
  <2>2. ~Armed(prog, Succ(1))
    BY <1>1, <2>1, SuccArmed
  <2>. QED  BY <2>2, SuccessorNotOpen DEF Waits, Succ, VisitOf, Item
<1>8. ~IsLabel(tree, tree[m].kids[n + 1])
  <2>. DEFINE f == Top.fn
              b == Top.b
              i == Top.i
  <2>1. /\ f \in DOMAIN prog /\ b \in 1..Len(prog[f]) /\ i \in 1..Len(prog[f][b].ins)
        /\ Cur = prog[f][b].ins[i]
    BY <1>1, AtTop, AtInstruction DEF Cur
  <2>. HIDE DEF f, b, i
  <2>2. Cur.n \in TestedCases(prog, Cur.x)
    BY <1>1, <2>1, CaseTested
  <2>3. Cur.x \in DOMAIN selNode /\ CasesUnlabelled(prog, tree, selNode)
    BY <1>1, SelectKnown DEF Ordered
  <2>. QED  BY <2>2, <2>3 DEF CasesUnlabelled
<1>9. From(prog, selNode, y) = m /\ Waits(prog, y)
  BY <1>5, <1>6 DEF From, Waits
<1>. HIDE DEF y, x, m, n
<1>10. \A c \in Later(prog, tree, selNode, Top) : tree[c].kids = << >>
  BY <1>1, <1>3, PopFresh DEF Clear
<1>. DEFINE k == n + 1
<1>11. /\ k \in 1..CountOf(tree, m)
       /\ \A j \in k..CountOf(tree, m) : j \in 1..CountOf(tree, m) /\ j > n + 0
  BY <1>4
<1>12. ~IsLabel(tree, tree[m].kids[k]) /\ leaf' = tree[m].kids[k]
  BY <1>1, <1>8
<1>. HIDE DEF k
<1>13. \A j \in k..CountOf(tree, m) : tree[tree[m].kids[j]].kids = << >>
  BY <1>3, <1>10, <1>11
<1>14. Spine(tree, root, leaf', RestPlaces) /\ Lowest(tree, root, leaf', m, RestPlaces)
  BY <1>1, <1>3, <1>11, <1>12, <1>13, CaseOrdered
<1>15. OrderedTree(tree', root', visited', types') /\ CasesUnlabelled(prog, tree', selNode')
  BY <1>1 DEF Ordered
<1>16. Stays(prog, Pop, selNode, ifparent, selNode', ifparent')
  BY <1>1, StaysSame
<1>17. m = Place(prog, selNode', ifparent', y, OpenWith(y)) /\ m \in Nat
  <2>1. m = Place(prog, selNode', ifparent', y, OpenWith(y))
    BY <1>1, <1>9 DEF Place
  <2>. QED  BY <1>4, <2>1
<1>18. work' \in GoesOn(x, y)
  BY <1>1 DEF GoesOn
<1>19. \A j \in 1..Len(frames') : IsPair(frames'[j].role)
  BY <1>1 DEF Ordered
<1>. QED  BY <1>1, <1>7, <1>14, <1>15, <1>16, <1>17, <1>18, <1>19, OrderedOn

LEMMA SelElseOrdered == ASSUME IInv, Fresh, Ordered, VisitSelElse PROVE Ordered'
<1>. DEFINE y == Succ(2)
            x == Item("defers", 0, 0, 0, 0, 0)
            m == selNode[Cur.x].parent
            n == Cur.n
<1>1. /\ Running /\ Top.do = "selelse" /\ leaf' = ElseLeaf(Cur.x, n)
      /\ work' = <<y>> \o Pop
      /\ UNCHANGED <<prog, frames, role, root, visited, types, tree, ifparent, selNode>>
  BY DEF VisitSelElse, Doing
<1>2. Cur.op = "ifsel" /\ Test(prog, Top) = Cur /\ 2 \in 1..Len(prog[Top.fn][Top.b].succs)
  <2>1. Cur.op = "ifsel"
    BY <1>1, CurOfBranch
  <2>2. Test(prog, Top) = Cur /\ Len(prog[Top.fn][Top.b].succs) = 2
    BY <1>1, <2>1, CurEnds
  <2>. QED  BY <2>1, <2>2
<1>3. /\ Waits(prog, Top) /\ From(prog, selNode, Top) = m
      /\ Later(prog, tree, selNode, Top) =
            {tree[m].kids[k] : k \in {j \in 1..CountOf(tree, m) : j > n + 1}}
  BY <1>1, <1>2 DEF Waits, From, Later
<1>4. n \in Nat /\ m \in 1..Len(tree) /\ CountOf(tree, m) \in Nat
  <2>1. n \in Nat /\ m \in 1..Len(tree)
    BY <1>1, <1>2, SelectKnown
  <2>2. tree[m] \in NodeOf(prog)
    BY <2>1, ElementOfSeq DEF IInv, IsTree
  <2>3. CountOf(tree, m) \in Nat
    BY <2>2, LenProperties DEF NodeOf, CountOf
  <2>. QED  BY <2>1, <2>3
<1>5. leaf' = leaf \/ (CountOf(tree, m) > n + 1 /\ leaf' = tree[m].kids[(n + 1) + 1])
  BY <1>1 DEF ElseLeaf, CaseOf, CountOf
<1>6. Waits(prog, y) => From(prog, selNode, y) = m
  <2>1. ASSUME Armed(prog, y) PROVE Test(prog, y).x = Cur.x
    BY <1>1, <1>2, <2>1, SuccArmed
  <2>2. y.do = "block"
    BY DEF Succ, VisitOf, Item
  <2>. HIDE DEF y
  <2>. QED  BY <2>1, <2>2 DEF From, Waits
<1>7. ~IsOpen(y) /\ ~Waits(prog, x) /\ ~IsOpen(x)
  BY SuccessorNotOpen DEF Waits, Armed, IsOpen, Item
<1>. HIDE DEF y, x, m, n
<1>8. Spine(tree, root, leaf', RestPlaces) /\ Lowest(tree, root, leaf', m, RestPlaces)
  <2>1. CASE leaf' = leaf
    BY <1>1, <1>3, <2>1, Beneath
  <2>2. CASE CountOf(tree, m) > n + 1 /\ leaf' = tree[m].kids[(n + 1) + 1]
    <3>. DEFINE k == (n + 1) + 1
    <3>1. /\ k \in 1..CountOf(tree, m) /\ k > 1
          /\ \A j \in k..CountOf(tree, m) : j \in 1..CountOf(tree, m) /\ j > n + 1
      BY <1>4, <2>2
    <3>2. leaf' = tree[m].kids[k]
      BY <2>2
    <3>. HIDE DEF k
    <3>3. \A c \in Later(prog, tree, selNode, Top) : tree[c].kids = << >>
      BY <1>1, <1>3, PopFresh DEF Clear
    <3>4. \A j \in k..CountOf(tree, m) : tree[tree[m].kids[j]].kids = << >>
      BY <1>3, <3>1, <3>3
    <3>. QED  BY <1>1, <1>3, <3>1, <3>2, <3>4, CaseOrdered
  <2>. QED  BY <1>5, <2>1, <2>2
<1>9. OrderedTree(tree', root', visited', types') /\ CasesUnlabelled(prog, tree', selNode')
  BY <1>1 DEF Ordered
<1>10. Stays(prog, Pop, selNode, ifparent, selNode', ifparent')
  BY <1>1, StaysSame
<1>. DEFINE b == Place(prog, selNode', ifparent', y, OpenWith(y))
<1>11. b = m \/ b = 0
  BY <1>1, <1>6, <1>7 DEF Place
<1>12. b \in Nat /\ (b = 0 \/ Lowest(tree', root', leaf', b, RestPlaces))
  BY <1>1, <1>4, <1>8, <1>11
<1>13. work' \in GoesOn(x, y)
  BY <1>1 DEF GoesOn
<1>14. \A j \in 1..Len(frames') : IsPair(frames'[j].role)
  BY <1>1 DEF Ordered
<1>15. b = Place(prog, selNode', ifparent', y, OpenWith(y))
  OBVIOUS
<1>. HIDE DEF b
<1>16. /\ UNCHANGED <<prog, root, types, role>> /\ Spine(tree', root', leaf', RestPlaces)
  BY <1>1, <1>8
<1>. QED  BY <1>1, <1>7, <1>9, <1>10, <1>12, <1>13, <1>14, <1>15, <1>16, OrderedOn

\* A label where its block is entered first, and a goto where it is entered again.
LEMMA GotoOrdered ==
    ASSUME IInv, Running, Fresh, Ordered, NEW f \in DOMAIN prog, NEW b \in Nat,
           <<f, b>> \in visited, AddNode("goto", BlockLabel(f, b)),
           UNCHANGED <<root, types, visited, selNode>>
    PROVE  /\ OrderedTree(tree', root', visited', types')
           /\ CasesUnlabelled(prog, tree', selNode') /\ Spine(tree', root', leaf', RestPlaces)
<1>. DEFINE ns == <<Leaf("goto", BlockLabel(f, b))>>
<1>1. RestPlaces \in Seq(Nat) /\ Spine(tree, root, leaf, RestPlaces)
  BY Beneath
<1>2. /\ IsNodes(tree) /\ root \in 1..Len(tree) /\ leaf \in 1..Len(tree) /\ pc # "done"
      /\ AreSelects(prog, tree, selNode) /\ CasesUnlabelled(prog, tree, selNode)
      /\ FirstOnly(tree) /\ LabelsOf(tree, root, visited) /\ GotosAfter(tree, root)
      /\ Len(tree) \in Nat
  BY TreeNodes DEF IInv, Ordered, OrderedTree, Running, IsNodes
<1>3. Adds(tree, tree', leaf, ns) /\ leaf' = Len(tree) + 1
  <2>1. "goto" \in Kind /\ BlockLabel(f, b) \in ArgOf(prog)
    BY ArgsOf DEF Kind
  <2>. QED  BY <1>2, <2>1, AddedHere DEF AddNode
<1>4. /\ Len(ns) = 1 /\ ns[1].arg = BlockLabel(f, b)
      /\ \A i \in 1..Len(ns) : i = 1 /\ ns[i].kind = "goto"
  BY DEF Leaf
<1>. HIDE DEF ns
<1>5. leaf \in root..Len(tree)
  <2>1. Within(tree, root, leaf)
    BY <1>1 DEF Spine
  <2>. QED  BY <1>2, <2>1, WithinUp
<1>6. FirstOnly(tree') /\ LabelsOf(tree', root, visited)
  BY <1>2, <1>3, <1>4, FirstGrown, LabelsGrown
<1>7. GotosAfter(tree', root)
  <2>1. PICK l \in root..Len(tree) : IsLabel(tree, l) /\ tree[l].arg = BlockLabel(f, b)
    <3>. DEFINE x == <<f, b>>
    <3>1. x \in visited /\ BlockLabel(x[1], x[2]) = BlockLabel(f, b)
      OBVIOUS
    <3>. HIDE DEF x
    <3>. QED  BY <1>2, <3>1 DEF LabelsOf
  <2>2. Earlier(tree, l, leaf)
    BY <1>1, <2>1 DEF Spine
  <2>3. \A i \in 1..Len(ns) : ns[i].kind = "goto" =>
              \E q \in root..Len(tree) : 
                 IsLabel(tree, q) /\ tree[q].arg = ns[i].arg /\ Earlier(tree, q, leaf)
    BY <1>4, <2>1, <2>2
  <2>. QED  BY <1>2, <1>3, <2>3, GotosGrown
<1>8. OrderedTree(tree', root', visited', types')
  BY <1>2, <1>3, <1>5, <1>6, <1>7, TreeOrdered
<1>9. CasesUnlabelled(prog, tree', selNode')
  BY <1>2, <1>3, CasesGrown
<1>10. GrownBy(tree, tree', leaf, 1) /\ Labels(tree, tree', 1)
  BY <1>3, <1>4 DEF Adds, Labels
<1>11. Spine(tree', root, Len(tree) + 1, RestPlaces)
  <2>1. 1 \in Nat /\ 1 # 0
    OBVIOUS
  <2>. QED  BY <1>1, <1>2, <1>10, <2>1, SpineGrown
<1>. QED  BY <1>3, <1>8, <1>9, <1>11

LEMMA LabelOrdered ==
    ASSUME IInv, Running, Fresh, Ordered, NEW f \in DOMAIN prog, NEW b \in Nat,
           <<f, b>> \notin visited, AddNode("label", BlockLabel(f, b)),
           visited' = visited \cup {<<f, b>>}, UNCHANGED <<root, types, selNode>>
    PROVE  /\ OrderedTree(tree', root', visited', types')
           /\ CasesUnlabelled(prog, tree', selNode') /\ Spine(tree', root', leaf', RestPlaces)
<1>. DEFINE ns == <<Leaf("label", BlockLabel(f, b))>>
<1>1. RestPlaces \in Seq(Nat) /\ Spine(tree, root, leaf, RestPlaces)
  BY Beneath
<1>2. /\ IsNodes(tree) /\ root \in 1..Len(tree) /\ leaf \in 1..Len(tree) /\ pc # "done"
      /\ AreSelects(prog, tree, selNode) /\ CasesUnlabelled(prog, tree, selNode)
      /\ FirstOnly(tree) /\ LabelsOf(tree, root, visited) /\ GotosAfter(tree, root)
      /\ Len(tree) \in Nat
  BY TreeNodes DEF IInv, Ordered, OrderedTree, Running, IsNodes
<1>3. Adds(tree, tree', leaf, ns) /\ leaf' = Len(tree) + 1
  <2>1. "label" \in Kind /\ BlockLabel(f, b) \in ArgOf(prog)
    BY ArgsOf DEF Kind
  <2>. QED  BY <1>2, <2>1, AddedHere DEF AddNode
<1>4. Len(ns) = 1 /\ \A i \in 1..Len(ns) : ns[i].kind = "label"
  BY DEF Leaf
<1>5. leaf \in root..Len(tree)
  <2>1. Within(tree, root, leaf)
    BY <1>1 DEF Spine
  <2>. QED  BY <1>2, <2>1, WithinUp
<1>6. LabelsOf(tree', root, visited')
  BY <1>2, <1>3, LabelAdded
<1>. HIDE DEF ns
<1>7. FirstOnly(tree')
  <2>1. CountOf(tree, leaf) = 0
    BY EmptySeq DEF Fresh, Sound, CountOf
  <2>. QED  BY <1>2, <1>3, <1>4, <2>1, FirstGrown
<1>8. GotosAfter(tree', root)
  <2>1. \A i \in 1..Len(ns) : ns[i].kind # "goto"
    BY <1>4
  <2>. QED  BY <1>2, <1>3, <2>1, GotosGrown
<1>9. OrderedTree(tree', root', visited', types')
  BY <1>2, <1>3, <1>5, <1>6, <1>7, <1>8, TreeOrdered
<1>10. CasesUnlabelled(prog, tree', selNode')
  BY <1>2, <1>3, CasesGrown
<1>11. GrownBy(tree, tree', leaf, 1) /\ Labels(tree, tree', 1)
  BY <1>3, <1>4 DEF Adds, Labels
<1>12. Spine(tree', root, Len(tree) + 1, RestPlaces)
  <2>1. 1 \in Nat /\ 1 # 0
    OBVIOUS
  <2>. QED  BY <1>1, <1>2, <1>11, <2>1, SpineGrown
<1>. QED  BY <1>3, <1>9, <1>10, <1>12

LEMMA BlockOrdered == ASSUME IInv, Fresh, Ordered, VisitBlock PROVE Ordered'
<1>. DEFINE y == Item("ins", Top.fr, Top.fn, Top.b, 1, 0)
            x == Item("defers", 0, 0, 0, 0, 0)
            f == Top.fn
            b == Top.b
<1>1. Running /\ Top.do = "block"
      /\ UNCHANGED <<prog, frames, role, root, types, ifparent, selNode>>
  BY DEF VisitBlock, Doing
<1>2. f \in DOMAIN prog /\ b \in Nat
  BY <1>1, AtTop
<1>3. y.do = "ins" /\ y.fn = Top.fn /\ y.b = Top.b /\ ~IsOpen(y)
  BY DEF Item, IsOpen
<1>4. Armed(prog, y) => Armed(prog, Top) /\ ~Joined(prog, Top.fn, Top.b)
  BY <1>1, StartArmed
<1>5. ~Waits(prog, x) /\ ~IsOpen(x)
  BY DEF Waits, Armed, IsOpen, Item
<1>. HIDE DEF x
<1>6. \A j \in 1..Len(frames') : IsPair(frames'[j].role)
  BY <1>1 DEF Ordered
<1>7. CASE Joined(prog, Top.fn, Top.b)
  <2>1. ~Waits(prog, y)
    BY <1>3, <1>4, <1>7 DEF Waits
  <2>2. /\ OrderedTree(tree', root', visited', types')
        /\ CasesUnlabelled(prog, tree', selNode') /\ Spine(tree', root', leaf', RestPlaces)
        /\ work' \in {Pop, <<y>> \o Pop}
    <3>1. CASE <<f, b>> \in visited
      <4>1. AddNode("goto", BlockLabel(f, b)) /\ work' = Pop /\ visited' = visited
        BY <1>7, <3>1 DEF VisitBlock, Joined
      <4>. HIDE DEF f, b, y
      <4>. QED  BY <1>1, <1>2, <3>1, <4>1, GotoOrdered
    <3>2. CASE <<f, b>> \notin visited
      <4>1. /\ AddNode("label", BlockLabel(f, b)) /\ work' = <<y>> \o Pop
            /\ visited' = visited \cup {<<f, b>>}
        BY <1>7, <3>2 DEF VisitBlock, Joined, Labelled
      <4>. HIDE DEF f, b, y
      <4>. QED  BY <1>1, <1>2, <3>2, <4>1, LabelOrdered
    <3>. QED  BY <3>1, <3>2
  <2>. HIDE DEF f, b, y
  <2>3. work' \in GoesOn(x, y)
    BY <2>2 DEF GoesOn
  <2>. QED  BY <1>1, <1>3, <1>5, <1>6, <2>1, <2>2, <2>3, OrderedIdle
<1>8. CASE ~Joined(prog, Top.fn, Top.b)
  <2>1. work' = <<y>> \o Pop /\ UNCHANGED <<tree, leaf, visited>>
    BY <1>8 DEF VisitBlock, Joined
  <2>2. Waits(prog, y) => /\ Waits(prog, Top) /\ From(prog, selNode, y) = From(prog, selNode, Top)
    BY <1>1, <1>3, <1>4 DEF Waits, Test, From
  <2>. HIDE DEF y, f, b
  <2>. DEFINE a == Place(prog, selNode', ifparent', y, OpenWith(y))
  <2>3. a \in Nat /\ (a = 0 \/ Lowest(tree', root', leaf', a, RestPlaces))
    <3>1. CASE Waits(prog, y)
      <4>1. a = From(prog, selNode, Top) /\ Lowest(tree, root, leaf, a, RestPlaces)
        BY <1>1, <2>2, <3>1, Beneath DEF Place
      <4>. HIDE DEF a
      <4>2. a \in 1..Len(tree)
        BY <4>1 DEF Lowest
      <4>. QED  BY <1>1, <2>1, <4>1, <4>2
    <3>2. CASE ~Waits(prog, y)
      BY <1>3, <3>2 DEF Place
    <3>. QED  BY <3>1, <3>2
  <2>4. a = Place(prog, selNode', ifparent', y, OpenWith(y))
    OBVIOUS
  <2>. HIDE DEF a
  <2>5. /\ OrderedTree(tree', root', visited', types')
        /\ CasesUnlabelled(prog, tree', selNode') /\ Spine(tree', root', leaf', RestPlaces)
    BY <1>1, <2>1, Beneath DEF Ordered
  <2>6. Stays(prog, Pop, selNode, ifparent, selNode', ifparent')
    BY <1>1, StaysSame
  <2>7. work' \in GoesOn(x, y)
    BY <2>1 DEF GoesOn
  <2>. QED  BY <1>1, <1>5, <1>6, <2>3, <2>4, <2>5, <2>6, <2>7, OrderedOn
<1>. QED  BY <1>7, <1>8

LEMMA NothingGrown ==
    ASSUME NEW p, NEW t, NEW cs, IsTree(p, t, cs), NEW n \in 1..Len(t), NEW ns, ns = << >>
    PROVE  GrownTree(t, n, ns) = t
<1>1. t \in Seq(NodeOf(p)) /\ t[n] \in NodeOf(p) /\ DOMAIN t = 1..Len(t)
  BY ElementOfSeq, LenProperties DEF IsTree
<1>. DEFINE more == [i \in 1..Len(ns) |-> Len(t) + i]
<1>2. more = << >>
  BY EmptySeq
<1>. HIDE DEF more
<1>3. t[n].kids \o more = t[n].kids
  <2>1. t[n].kids \in Seq(Nat)
    BY <1>1 DEF NodeOf
  <2>. QED  BY <1>2, <2>1, ConcatEmptySeq
<1>4. [t[n] EXCEPT !.kids = t[n].kids] = t[n]
  BY <1>1 DEF NodeOf
<1>5. [t EXCEPT ![n].kids = @ \o more] = [t EXCEPT ![n] = [t[n] EXCEPT !.kids = t[n].kids \o more]]
  OBVIOUS
<1>6. [t EXCEPT ![n].kids = @ \o more] = t
  BY <1>1, <1>3, <1>4, <1>5
<1>7. t \o ns = t
  BY <1>1, ConcatEmptySeq
<1>8. GrownTree(t, n, ns) = [t EXCEPT ![n].kids = @ \o more] \o ns
  BY DEF GrownTree, more
<1>. QED  BY <1>6, <1>7, <1>8

LEMMA SelectOrdered == ASSUME IInv, Once, Fresh, Ordered, VisitSelect PROVE Ordered'
<1>. DEFINE k == NodesOf(Cur)
            ns == CaseNodes(Cur)
            y == [Top EXCEPT !.i = @ + 1]
            x == Item("defers", 0, 0, 0, 0, 0)
<1>1. /\ Running /\ Top.do = "ins" /\ Cur.op = "select"
      /\ UNCHANGED <<prog, frames, role, root, visited, types, ifparent>>
  BY DEF VisitSelect, OnIns, Doing
<1>2. CASE \E c \in 1..Len(Cur.args) : Cur.args[c].x \notin chans
  <2>1. UNCHANGED <<work, tree, leaf, selNode>> /\ pc # "done"
    BY <1>1, <1>2 DEF VisitSelect, Running
  <2>. QED  BY <1>1, <2>1, HaltOrdered
<1>3. CASE \A c \in 1..Len(Cur.args) : Cur.args[c].x \in chans
  <2>1. /\ k \in Nat /\ Len(tree) \in Nat /\ tree' = GrownTree(tree, leaf, ns)
        /\ leaf' = (IF k = 0 THEN leaf ELSE Len(tree) + k) /\ work' = Rest
        /\ selNode' = [z \in DOMAIN selNode \cup {Cur.x} |->
                         IF z = Cur.x THEN [parent |-> leaf, blocking |-> Blocking(Cur)]
                         ELSE selNode[z]]
    BY <1>3, NodesOfCases
  <2>2. /\ ns \in Seq(NodeOf(prog)) /\ Len(ns) = k /\ AreNew(ns, chans)
        /\ \A j \in 1..Len(ns) : ns[j].kind \notin {"label", "goto"}
    BY <1>1, <1>3, CasesAreNodes
  <2>3. \A n \in TestedCases(prog, Cur.x) : n \in Nat /\ n < k
    BY <1>1, AtInstruction DEF IsInstruction
  <2>. HIDE DEF k, ns
  <2>4. /\ IsNodes(tree) /\ root \in 1..Len(tree) /\ leaf \in 1..Len(tree) /\ pc # "done"
        /\ AreSelects(prog, tree, selNode) /\ CasesUnlabelled(prog, tree, selNode)
        /\ IsTree(prog, tree, chans)
    BY <1>1, TreeNodes DEF IInv, Ordered, Running
  <2>5. RestPlaces \in Seq(Nat) /\ Spine(tree, root, leaf, RestPlaces)
    BY <1>1, Beneath
  <2>6. Adds(tree, tree', leaf, ns)
    BY <2>1, <2>2, <2>4, TreeAdds
  <2>7. leaf \in root..Len(tree)
    <3>1. Within(tree, root, leaf)
      BY <2>5 DEF Spine
    <3>. QED  BY <2>4, <3>1, WithinUp
  <2>8. OrderedTree(tree', root', visited', types')
    BY <1>1, <2>2, <2>4, <2>6, <2>7, NodesOrdered
  <2>9. CasesUnlabelled(prog, tree', selNode')
    <3>1. CasesUnlabelled(prog, tree', selNode)
      BY <2>4, <2>6, CasesGrown
    <3>2. ASSUME NEW n \in TestedCases(prog, Cur.x)
          PROVE  ~IsLabel(tree', tree'[leaf].kids[n + 1])
      <4>1. n \in Nat /\ n + 1 \in 1..Len(ns)
        BY <2>1, <2>2, <2>3
      <4>2. CountOf(tree, leaf) = 0
        BY EmptySeq DEF Fresh, Sound, CountOf
      <4>. DEFINE j == n + 1
      <4>3. j \in 1..Len(ns) /\ CountOf(tree, leaf) + j = j
        BY <4>1, <4>2
      <4>. HIDE DEF j
      <4>4. tree'[leaf].kids[j] = Len(tree) + j
        BY <2>6, <4>3 DEF Adds, GrownBy
      <4>5. tree'[Len(tree) + j].kind = ns[j].kind
        BY <2>6, <4>3 DEF Adds
      <4>6. ns[j].kind # "label"
        BY <2>2, <4>3
      <4>7. ~IsLabel(tree', tree'[leaf].kids[j])
        BY <4>4, <4>5, <4>6 DEF IsLabel
      <4>. QED  BY <4>7 DEF j
    <3>3. ASSUME NEW z \in DOMAIN selNode', NEW n \in TestedCases(prog, z)
          PROVE  ~IsLabel(tree', tree'[selNode'[z].parent].kids[n + 1])
      <4>1. CASE z = Cur.x
        <5>1. selNode'[z].parent = leaf
          BY <2>1, <4>1
        <5>. QED  BY <3>2, <4>1, <5>1
      <4>2. CASE z # Cur.x
        <5>1. z \in DOMAIN selNode /\ selNode'[z] = selNode[z]
          BY <2>1, <4>2
        <5>. QED  BY <3>1, <5>1 DEF CasesUnlabelled
      <4>. QED  BY <4>1, <4>2
    <3>. QED  BY <3>3 DEF CasesUnlabelled
  <2>10. Spine(tree', root', leaf', RestPlaces) /\ Lowest(tree', root', leaf', leaf, RestPlaces)
    <3>1. CASE k = 0
      <4>1. ns = << >>
        BY <2>2, <3>1, EmptySeq
      <4>2. tree' = tree /\ leaf' = leaf
        BY <2>1, <2>4, <3>1, <4>1, NothingGrown
      <4>3. Within(tree, leaf, leaf) /\ LabelsAhead(tree, root, leaf)
        BY <2>5, WithinItself DEF Spine, LabelsAhead
      <4>4. Lowest(tree, root, leaf, leaf, RestPlaces)
        BY <2>4, <2>5, <4>3 DEF Lowest, Spine
      <4>. QED  BY <1>1, <2>5, <4>2, <4>4
    <3>2. CASE k # 0
      <4>1. GrownBy(tree, tree', leaf, k) /\ Labels(tree, tree', k)
        <5>1. GrownBy(tree, tree', leaf, k)
          BY <2>2, <2>6 DEF Adds
        <5>2. \A i \in 1..k : tree'[Len(tree) + i].kind = ns[i].kind /\ ns[i].kind # "label"
          BY <2>2, <2>6 DEF Adds
        <5>3. \A n \in 1..Len(tree) : tree'[n].kind = tree[n].kind
          BY <2>6 DEF Adds
        <5>. QED  BY <5>1, <5>2, <5>3 DEF Labels, IsLabel
      <4>2. leaf' = Len(tree) + k
        BY <2>1, <3>2
      <4>. QED  BY <1>1, <2>1, <2>4, <2>5, <3>2, <4>1, <4>2, SpineGrown
    <3>. QED  BY <3>1, <3>2
  <2>11. Stays(prog, Pop, selNode, ifparent, selNode', ifparent')
    <3>1. \A z \in DOMAIN selNode : z # Cur.x => selNode'[z] = selNode[z]
      BY <2>1
    <3>2. ASSUME NEW j \in 1..Len(Pop), Waits(prog, Pop[j])
          PROVE  From(prog, selNode', Pop[j]) = From(prog, selNode, Pop[j])
      BY <1>1, <3>1, <3>2, SelectKept
    <3>. QED  BY <1>1, <3>2 DEF Stays
  <2>12. \A j \in 1..Len(frames') : IsPair(frames'[j].role)
    BY <1>1 DEF Ordered
  <2>13. ~Waits(prog, x) /\ ~IsOpen(x)
    BY DEF Waits, Armed, IsOpen, Item
  <2>14. y.do = "ins" /\ y.fn = Top.fn /\ y.b = Top.b
    BY <1>1, AtTop
  <2>. HIDE DEF x
  <2>15. \E z : \E b \in Nat :
            /\ b = Place(prog, selNode', ifparent', z, OpenWith(z))
            /\ b = 0 \/ Lowest(tree', root', leaf', b, RestPlaces)
            /\ work' \in GoesOn(x, z)
    <3>1. CASE ~(Top.i < Len(prog[Top.fn][Top.b].ins))
      <4>1. work' = Pop
        BY <2>1, <3>1 DEF Rest
      <4>2. Place(prog, selNode', ifparent', x, OpenWith(x)) = 0 /\ 0 \in Nat
        BY <2>13 DEF Place
      <4>3. work' \in GoesOn(x, x)
        BY <4>1 DEF GoesOn
      <4>. QED  BY <4>2, <4>3
    <3>2. CASE Top.i < Len(prog[Top.fn][Top.b].ins)
      <4>1. work' = <<y>> \o Pop
        BY <2>1, <3>2 DEF Rest
      <4>2. Armed(prog, y) => Test(prog, Top).x = Cur.x
        BY <1>1, <3>2, NextArmed
      <4>. HIDE DEF y
      <4>3. ~IsOpen(y) /\ (Waits(prog, y) => From(prog, selNode', y) = leaf)
        <5>1. Test(prog, y) = Test(prog, Top) /\ selNode'[Cur.x].parent = leaf
          BY <2>1, <2>14 DEF Test
        <5>. QED  BY <2>14, <4>2, <5>1 DEF IsOpen, Waits, From
      <4>. DEFINE b == Place(prog, selNode', ifparent', y, OpenWith(y))
      <4>4. b = 0 \/ b = leaf
        BY <4>3 DEF Place
      <4>5. b \in Nat
        <5>. HIDE DEF b
        <5>. QED  BY <2>4, <4>4
      <4>6. b = 0 \/ Lowest(tree', root', leaf', b, RestPlaces)
        <5>. HIDE DEF b
        <5>. QED  BY <2>10, <4>4
      <4>7. work' \in GoesOn(x, y)
        BY <4>1 DEF GoesOn
      <4>. QED  BY <4>5, <4>6, <4>7
    <3>. QED  BY <3>1, <3>2
  <2>16. PICK z : \E b \in Nat :
            /\ b = Place(prog, selNode', ifparent', z, OpenWith(z))
            /\ b = 0 \/ Lowest(tree', root', leaf', b, RestPlaces)
            /\ work' \in GoesOn(x, z)
    BY <2>15
  <2>. HIDE DEF y
  <2>. QED  BY <1>1, <2>8, <2>9, <2>10, <2>11, <2>12, <2>13, <2>16, OrderedOn
<1>. QED  BY <1>2, <1>3

\* A root that is the last node.
LEMMA RootLast ==
    ASSUME NEW u, NEW m \in 1..Len(u), Len(u) \in Nat, m = Len(u), IsLabel(u, m),
           CountOf(u, m) = 0, IsPair(u[m].arg),
           \A n \in 1..(m-1) : \A j \in 1..CountOf(u, n) : u[n].kids[j] \in 1..(m-1)
    PROVE  /\ Rooted(u, m) /\ LabelsOf(u, m, {}) /\ GotosAfter(u, m)
           /\ Within(u, m, m) /\ \A l \in m..Len(u) : IsLabel(u, l) => Earlier(u, l, m)
<1>1. \A n \in m..Len(u) : n = m
  OBVIOUS
<1>2. Within(u, m, m) /\ Earlier(u, m, m)
  BY WithinItself DEF Earlier
<1>3. Rooted(u, m)
  BY <1>1, <1>2 DEF Rooted
<1>4. LabelsOf(u, m, {})
  <2>1. \A l \in (m+1)..Len(u) : FALSE
    OBVIOUS
  <2>. QED  BY <1>1, <2>1 DEF LabelsOf
<1>5. ~IsGoto(u, m)
  BY DEF IsGoto, IsLabel
<1>. QED  BY <1>1, <1>2, <1>3, <1>4, <1>5 DEF GotosAfter

\* A function that is visited on its own goes back to nothing.
LEMMA FunctionSpine ==
    ASSUME IInv, NEW fr, NEW f \in DOMAIN prog, NEW sel, NEW ip, NEW t, NEW rt, NEW lf,
           rt \in 1..Len(t), lf \in 1..Len(t), Within(t, rt, lf),
           \A l \in rt..Len(t) : IsLabel(t, l) => Earlier(t, l, lf)
    PROVE  Spine(t, rt, lf, Places(prog, sel, ip, VisitFunc(fr, f)))
<1>. DEFINE v == VisitFunc(fr, f)
            ps == Places(prog, sel, ip, v)
            x == VisitOf(fr, f, 1)
<1>1. CASE prog[f] = << >>
  <2>1. Len(v) = 0
    BY <1>1 DEF VisitFunc
  <2>2. Len(ps) = 0
    BY <2>1 DEF Places
  <2>. HIDE DEF ps
  <2>3. Spine(t, rt, lf, ps)
    BY <2>2 DEF Spine
  <2>. QED  BY <2>3 DEF ps
<1>2. CASE prog[f] # << >>
  <2>1. Len(v) = 1 /\ v[1] = x
    BY <1>2 DEF VisitFunc
  <2>2. ~Waits(prog, x) /\ ~IsOpen(x)
    BY <1>2, EntryNotArmed DEF IInv, IsOpen, VisitOf, Item
  <2>. HIDE DEF v, x
  <2>3. Len(ps) = 1 /\ \A j \in 1..1 : ps[j] = 0
    BY <2>1, <2>2 DEF Places, Place
  <2>. HIDE DEF ps
  <2>4. Spine(t, rt, lf, ps)
    BY <2>3 DEF Spine
  <2>. QED  BY <2>4 DEF ps, v
<1>. QED  BY <1>1, <1>2

\* The tree of the role that ends is complete.
LEMMA TypeMatched ==
    ASSUME IInv, Ordered, SetType
    PROVE  /\ \A r \in DOMAIN types' : types'[r] \in 1..Len(tree) /\ Matched(tree, types'[r])
<1>1. /\ IsNodes(tree) /\ Rooted(tree, root) /\ LabelsOf(tree, root, visited)
      /\ GotosAfter(tree, root) /\ root \in 1..Len(tree)
  BY TreeNodes DEF IInv, Ordered, OrderedTree
<1>2. Matched(tree, root)
  <2>1. \A n : Within(tree, root, n) => n \in root..Len(tree) /\ n \in 1..Len(tree)
    <3>1. SUFFICES ASSUME NEW n, Within(tree, root, n)
                   PROVE  n \in root..Len(tree) /\ n \in 1..Len(tree)
      OBVIOUS
    <3>2. n \in root..Len(tree)
      BY <1>1, <3>1, WithinUp
    <3>. QED  BY <1>1, <3>2 DEF IsNodes
  <2>2. \A l \in root..Len(tree) : Within(tree, root, l) /\ l \in 1..Len(tree)
    BY <1>1, <2>1 DEF Rooted
  <2>3. ASSUME NEW l \in 1..Len(tree), NEW m \in 1..Len(tree), Within(tree, root, l),
               Within(tree, root, m), IsLabel(tree, l), IsLabel(tree, m), tree[l].arg = tree[m].arg
        PROVE  l = m
    BY <1>1, <2>1, <2>3 DEF LabelsOf
  <2>4. ASSUME NEW n \in 1..Len(tree), Within(tree, root, n), IsGoto(tree, n)
        PROVE  \E l \in 1..Len(tree) :
                  Within(tree, root, l) /\ IsLabel(tree, l) /\ tree[l].arg = tree[n].arg
                     /\ Earlier(tree, l, n)
    BY <1>1, <2>1, <2>2, <2>4 DEF GotosAfter
  <2>. QED  BY <2>3, <2>4 DEF Matched
<1>3. ASSUME NEW r \in DOMAIN types'
      PROVE  types'[r] \in 1..Len(tree) /\ Matched(tree, types'[r])
  <2>1. types'[r] = IF r = role THEN root ELSE types[r]
    BY DEF SetType
  <2>2. r = role \/ r \in DOMAIN types
    BY DEF SetType
  <2>. QED  BY <1>1, <1>2, <2>1, <2>2 DEF Ordered, OrderedTree, IInv
<1>. QED  BY <1>3

LEMMA GortnOrdered == ASSUME IInv, Ordered, NextGortn PROVE Ordered'
<1>. DEFINE q == Head(queue)
            k == Len(tree)
            m == k + 1
            x == Leaf("label", frames[q].role)
<1>1. /\ queue # << >> /\ work' = VisitFunc(q, frames[q].fn) /\ leaf' = m /\ root' = m
      /\ tree' = Append(tree, x) /\ role' = frames[q].role /\ visited' = {} /\ SetType
      /\ UNCHANGED <<prog, frames, ifparent, selNode>>
  BY DEF NextGortn, NoneLabelled
<1>2. q \in 1..Len(frames) /\ frames[q].fn \in DOMAIN prog
  <2>1. queue \in Seq(Called(prog, frames))
    BY DEF IInv
  <2>2. q \in Called(prog, frames)
    BY <1>1, <2>1, HeadTailProperties
  <2>. QED  BY <2>2 DEF Called
<1>3. IsPair(frames[q].role) /\ \A j \in 1..Len(frames') : IsPair(frames'[j].role)
  BY <1>1, <1>2 DEF Ordered
<1>4. x.kids = << >> /\ x.kind = "label" /\ x.arg = frames[q].role
  BY DEF Leaf
<1>. HIDE DEF x
<1>5. IsNodes(tree) /\ FirstOnly(tree) /\ IsTree(prog, tree, chans) /\ k \in Nat
  BY TreeNodes DEF IInv, Ordered, OrderedTree, IsNodes
<1>6. Len(tree') = m /\ tree'[m] = x /\ \A n \in 1..k : tree'[n] = tree[n]
  <2>1. tree \in Seq(NodeOf(prog) \cup {x}) /\ x \in NodeOf(prog) \cup {x}
    BY <1>5, SeqMonotonic DEF IsTree
  <2>. QED  BY <1>1, <2>1, LenProperties, AppendProperties
<1>7. /\ \A n \in 1..k : CountOf(tree', n) = CountOf(tree, n)
      /\ \A n \in 1..k : \A j \in 1..CountOf(tree, n) : tree[n].kids[j] \in 1..k
      /\ CountOf(tree', m) = 0
  <2>1. \A n \in 1..k : \A j \in 1..CountOf(tree, n) : tree[n].kids[j] \in (n+1)..k
    BY <1>5 DEF IsNodes
  <2>2. \A n \in 1..k : \A j \in 1..CountOf(tree, n) : tree[n].kids[j] \in 1..k
    BY <1>5, <2>1
  <2>. QED  BY <1>4, <1>6, <2>2, EmptySeq DEF CountOf
<1>8. Alike(tree, tree', k)
  <2>1. 1..k \subseteq 1..Len(tree')
    BY <1>5, <1>6
  <2>. QED  BY <1>6, <1>7, <2>1 DEF Alike
<1>9. /\ m \in 1..Len(tree') /\ Len(tree') \in Nat /\ m - 1 = k
      /\ \A n \in 1..Len(tree') : n \in 1..k \/ n = m
  BY <1>5, <1>6
<1>. HIDE DEF k, m
<1>10. /\ Rooted(tree', m) /\ LabelsOf(tree', m, {}) /\ GotosAfter(tree', m)
       /\ Within(tree', m, m) /\ \A l \in m..Len(tree') : IsLabel(tree', l) => Earlier(tree', l, m)
  <2>1. \A n \in 1..(m-1) : \A j \in 1..CountOf(tree', n) : tree'[n].kids[j] \in 1..(m-1)
    BY <1>6, <1>7, <1>9
  <2>2. IsLabel(tree', m) /\ IsPair(tree'[m].arg)
    BY <1>3, <1>4, <1>6 DEF IsLabel
  <2>. QED  BY <1>6, <1>7, <1>9, <2>1, <2>2, RootLast
<1>11. FirstOnly(tree')
  <2>1. ASSUME NEW n \in 1..Len(tree'), NEW j \in 1..CountOf(tree', n),
               IsLabel(tree', tree'[n].kids[j])
        PROVE  j = 1
    <3>1. n \in 1..k
      BY <1>7, <1>9
    <3>2. /\ j \in 1..CountOf(tree, n) /\ tree'[n].kids[j] = tree[n].kids[j]
          /\ tree[n].kids[j] \in 1..k
      BY <1>6, <1>7, <3>1
    <3>3. IsLabel(tree, tree[n].kids[j])
      BY <1>6, <2>1, <3>2 DEF IsLabel
    <3>. QED  BY <1>5, <3>1, <3>2, <3>3 DEF FirstOnly, k
  <2>. QED  BY <2>1 DEF FirstOnly
<1>12. \A r \in DOMAIN types' : types'[r] \in 1..k /\ Matched(tree, types'[r])
  BY <1>1, TypeMatched DEF k
<1>13. \A r \in DOMAIN types' : types'[r] < m /\ Matched(tree', types'[r])
  <2>1. \A r \in DOMAIN types' : Matched(tree', types'[r])
    BY <1>5, <1>8, <1>12, MatchedAlike
  <2>. QED  BY <1>5, <1>12, <2>1 DEF m
<1>14. CasesUnlabelled(prog, tree', selNode')
  <2>1. ASSUME NEW z \in DOMAIN selNode, NEW n \in TestedCases(prog, z)
        PROVE  ~IsLabel(tree', tree'[selNode[z].parent].kids[n + 1])
    <3>. DEFINE a == selNode[z].parent
    <3>1. a \in 1..k /\ n \in Nat /\ n < CountOf(tree, a)
      BY DEF IInv, AreSelects, CountOf, k
    <3>2. ~IsLabel(tree, tree[a].kids[n + 1])
      BY DEF Ordered, CasesUnlabelled
    <3>. HIDE DEF a
    <3>3. n + 1 \in 1..CountOf(tree, a)
      <4>1. CountOf(tree, a) \in Nat
        BY <1>5, <3>1 DEF IsNodes, k
      <4>. QED  BY <3>1, <4>1
    <3>4. tree[a].kids[n + 1] \in 1..k /\ tree'[a] = tree[a]
      BY <1>6, <1>7, <3>1, <3>3
    <3>5. ~IsLabel(tree', tree'[a].kids[n + 1])
      BY <1>6, <3>2, <3>4 DEF IsLabel
    <3>. QED  BY <3>5 DEF a
  <2>. QED  BY <1>1, <2>1 DEF CasesUnlabelled
<1>15. Spine(tree', root', leaf', Places(prog, selNode', ifparent', work'))
  BY <1>1, <1>2, <1>9, <1>10, FunctionSpine
<1>16. OrderedTree(tree', root', visited', types')
  BY <1>1, <1>10, <1>11, <1>13 DEF OrderedTree
<1>. QED  BY <1>1, <1>3, <1>13, <1>14, <1>15, <1>16 DEF Ordered

LEMMA RunOrdered ==
    ASSUME IInv, Ordered, RunInit \/ RunMain \/ NextGortn \/ EndRun
    PROVE  Ordered'
<1>1. /\ root \in 1..Len(tree) /\ leaf \in 1..Len(tree) /\ Within(tree, root, leaf)
      /\ \A l \in root..Len(tree) : IsLabel(tree, l) => Earlier(tree, l, leaf)
  BY DEF Ordered, Spine
<1>2. CASE RunInit
  <2>1. /\ work' = VisitFunc(Toplevel, "init") /\ "init" \in DOMAIN prog /\ pc = "start"
        /\ UNCHANGED <<prog, frames, role, root, types, tree, leaf, visited, ifparent, selNode>>
    BY <1>2 DEF RunInit, IInv, IsProgram
  <2>2. Spine(tree', root', leaf', Places(prog, selNode', ifparent', work'))
    BY <1>1, <2>1, FunctionSpine
  <2>. QED  BY <2>1, <2>2 DEF Ordered
<1>3. CASE RunMain
  <2>1. /\ pc = "init"
        /\ UNCHANGED <<prog, frames, role, root, types, tree, leaf, visited, ifparent, selNode>>
    BY <1>3 DEF RunMain
  <2>2. CASE "main" \in DOMAIN prog
    <3>1. work' = VisitFunc(Toplevel, "main")
      BY <1>3, <2>2 DEF RunMain
    <3>2. Spine(tree', root', leaf', Places(prog, selNode', ifparent', work'))
      BY <1>1, <2>1, <2>2, <3>1, FunctionSpine
    <3>. QED  BY <2>1, <3>2 DEF Ordered
  <2>3. CASE "main" \notin DOMAIN prog
    <3>1. work' = work
      BY <1>3, <2>3 DEF RunMain
    <3>. QED  BY <2>1, <3>1, HaltOrdered
  <2>. QED  BY <2>2, <2>3
<1>4. CASE NextGortn
  BY <1>4, GortnOrdered
<1>5. CASE EndRun
  <2>1. /\ SetType /\ pc' = "done"
        /\ UNCHANGED <<prog, frames, role, root, tree, leaf, visited, ifparent, selNode, work>>
    BY <1>5 DEF EndRun
  <2>2. \A r \in DOMAIN types' : Matched(tree, types'[r])
    BY <2>1, TypeMatched
  <2>3. OrderedTree(tree', root', visited', types')
    BY <2>1, <2>2 DEF Ordered, OrderedTree
  <2>. QED  BY <2>1, <2>3 DEF Ordered
<1>. QED  BY <1>2, <1>3, <1>4, <1>5

LEMMA StillOrdered ==
    ASSUME Ordered, Overflow \/ Terminated \/ UNCHANGED vars
    PROVE  Ordered'
<1>1. UNCHANGED <<prog, frames, role, root, types, tree, leaf, visited, selNode, ifparent, work>>
  BY DEF Overflow, Terminated, vars
<1>2. pc' # "done" => pc # "done"
  BY DEF Overflow, Terminated, vars
<1>. QED  BY <1>1, <1>2, HaltOrdered

\* The tree of main is its label at first.
LEMMA StartOrdered == ASSUME Init PROVE Ordered
<1>1. /\ root = 1 /\ leaf = 1 /\ visited = {} /\ types = << >> /\ selNode = << >>
      /\ tree = <<Leaf("label", Main)>> /\ role = Main /\ work = << >>
      /\ frames = <<Frame("", NoFrame, Main)>>
  BY DEF Init
<1>2. Len(tree) = 1 /\ tree[1].kids = << >> /\ tree[1].kind = "label" /\ tree[1].arg = Main
  BY <1>1 DEF Leaf
<1>3. CountOf(tree, 1) = 0 /\ IsPair(Main) /\ IsLabel(tree, 1)
  BY <1>2 DEF CountOf, IsPair, Main, IsLabel
<1>4. /\ Rooted(tree, 1) /\ LabelsOf(tree, 1, {}) /\ GotosAfter(tree, 1)
      /\ Within(tree, 1, 1) /\ \A l \in 1..Len(tree) : IsLabel(tree, l) => Earlier(tree, l, 1)
  <2>. DEFINE m == 1
  <2>1. /\ m \in 1..Len(tree) /\ Len(tree) \in Nat /\ m = Len(tree) /\ IsLabel(tree, m)
        /\ CountOf(tree, m) = 0 /\ IsPair(tree[m].arg)
        /\ \A n \in 1..(m-1) : \A j \in 1..CountOf(tree, n) : tree[n].kids[j] \in 1..(m-1)
    BY <1>2, <1>3
  <2>. HIDE DEF m
  <2>2. /\ Rooted(tree, m) /\ LabelsOf(tree, m, {}) /\ GotosAfter(tree, m)
        /\ Within(tree, m, m) /\ \A l \in m..Len(tree) : IsLabel(tree, l) => Earlier(tree, l, m)
    BY <2>1, RootLast
  <2>. QED  BY <2>2 DEF m
<1>5. FirstOnly(tree)
  BY <1>2, <1>3 DEF FirstOnly
<1>6. DOMAIN types = {} /\ DOMAIN selNode = {} /\ DOMAIN work = {} /\ Len(work) = 0
  <2>1. DOMAIN << >> = {} /\ Len(<< >>) = 0
    BY EmptySeq
  <2>. QED  BY <1>1, <2>1
<1>7. OrderedTree(tree, root, visited, types) /\ CasesUnlabelled(prog, tree, selNode)
  BY <1>1, <1>4, <1>5, <1>6 DEF OrderedTree, CasesUnlabelled
<1>8. Spine(tree, root, leaf, Places(prog, selNode, ifparent, work))
  <2>. DEFINE ps == Places(prog, selNode, ifparent, work)
  <2>1. Len(ps) = 0
    BY <1>6 DEF Places
  <2>. HIDE DEF ps
  <2>2. /\ root \in 1..Len(tree) /\ leaf \in 1..Len(tree) /\ Within(tree, root, leaf)
        /\ \A l \in root..Len(tree) : IsLabel(tree, l) => Earlier(tree, l, leaf)
    <3>1. root = 1 /\ leaf = 1
      BY <1>1
    <3>2. 1 \in 1..Len(tree)
      BY <1>2
    <3>. QED  BY <1>4, <3>1, <3>2
  <2>3. Spine(tree, root, leaf, ps)
    BY <2>1, <2>2 DEF Spine
  <2>. QED  BY <2>3 DEF ps
<1>9. IsPair(role) /\ \A k \in 1..Len(frames) : IsPair(frames[k].role)
  <2>. DEFINE m == Frame("", NoFrame, Main)
  <2>1. m.role = Main
    BY DEF Frame
  <2>. HIDE DEF m
  <2>2. Len(frames) = 1 /\ frames[1] = m
    BY <1>1 DEF m
  <2>3. \A k \in 1..Len(frames) : frames[k].role = Main
    BY <2>1, <2>2
  <2>. QED  BY <1>1, <1>3, <2>3
<1>. QED  BY <1>1, <1>6, <1>7, <1>8, <1>9 DEF Ordered

\* No step appends a goto before its label, or a label twice.
LEMMA OrderedStep == ASSUME IInv, Once, Fresh, Ordered, [Next]_vars PROVE Ordered'
<1>1. CASE Next
  BY <1>1, RunOrdered, BlockOrdered, CommOrdered, SelectOrdered, JumpOrdered, IfOrdered,
     ElseOrdered, EndIfOrdered, IfRecvOrdered, StopOrdered, IfSelOrdered, SelElseOrdered,
     CallInsOrdered, RunDefersOrdered, RunDeferOrdered, StillOrdered DEF Next
<1>. QED  BY <1>1, StillOrdered

\* Under is what is below a node.
LEMMA UnderWithin ==
    ASSUME IsTree(prog, tree, chans), NEW r \in 1..Len(tree)
    PROVE  \A n : n \in Under(r) <=> n \in 1..Len(tree) /\ Within(tree, r, n)
<1>. DEFINE N == DOMAIN tree
            step == [m \in N |-> Kids(m)]
            P == {r}
<1>1. N = 1..Len(tree) /\ IsFiniteSet(N) /\ Len(tree) \in Nat
  <2>1. tree \in Seq(NodeOf(prog))
    BY DEF IsTree
  <2>2. N = 1..Len(tree) /\ Len(tree) \in Nat
    BY <2>1, LenProperties
  <2>. QED  BY <2>2, FS_Interval
<1>2. ASSUME NEW m \in N
      PROVE  step[m] = {tree[m].kids[j] : j \in 1..CountOf(tree, m)}
  <2>1. tree \in Seq(NodeOf(prog)) /\ tree[m] \in NodeOf(prog)
    BY <1>1, ElementOfSeq DEF IsTree
  <2>2. tree[m].kids \in Seq(Nat)
    BY <2>1 DEF NodeOf
  <2>3. DOMAIN tree[m].kids = 1..CountOf(tree, m)
    BY <2>2, LenProperties DEF CountOf
  <2>. QED  BY <2>3 DEF Kids, Range
<1>3. step \in [N -> SUBSET N]
  <2>1. IsNodes(tree)
    BY TreeNodes
  <2>2. \A m \in N : \A j \in 1..CountOf(tree, m) : tree[m].kids[j] \in N
    <3>1. \A m \in N : \A j \in 1..CountOf(tree, m) : tree[m].kids[j] \in (m+1)..Len(tree)
      BY <1>1, <2>1 DEF IsNodes
    <3>. QED  BY <1>1, <3>1
  <2>3. \A m \in N : step[m] \subseteq N
    BY <1>2, <2>2
  <2>. QED  BY <2>3
<1>4. Under(r) = Closure(step, P)
  BY DEF Under
<1>5. P \in SUBSET N
  BY <1>1
<1>. HIDE DEF step, N, P
<1>6. /\ Closure(step, P) \subseteq N /\ P \subseteq Closure(step, P)
      /\ \A n \in Closure(step, P) : step[n] \subseteq Closure(step, P)
  BY <1>1, <1>3, <1>5, ClosureClosed
<1>7. ASSUME NEW n, n \in Closure(step, P) PROVE Within(tree, r, n)
  <2>1. SUFFICES ASSUME NEW S \in SUBSET (1..Len(tree)), r \in S, HoldsKids(tree, S)
                 PROVE  n \in S
    BY DEF Within
  <2>2. \A m \in S \cap N : step[m] \subseteq S
    BY <1>2, <2>1 DEF HoldsKids
  <2>3. P \subseteq S
    BY <2>1 DEF P
  <2>4. Closure(step, P) \subseteq S
    BY <1>1, <1>3, <1>5, <2>2, <2>3, ClosureWithin
  <2>. QED  BY <1>7, <2>4
<1>8. ASSUME NEW n, Within(tree, r, n) PROVE n \in Closure(step, P)
  <2>1. r \in Closure(step, P)
    BY <1>6 DEF P
  <2>2. HoldsKids(tree, Closure(step, P))
    BY <1>2, <1>6 DEF HoldsKids
  <2>. QED  BY <1>1, <1>6, <1>8, <2>1, <2>2 DEF Within
<1>. QED  BY <1>1, <1>4, <1>6, <1>7, <1>8

\* Earlier is Precedes.
LEMMA EarlierPrecedes ==
    ASSUME IsTree(prog, tree, chans), NEW l \in 1..Len(tree), NEW n \in 1..Len(tree),
           Earlier(tree, l, n)
    PROVE  Precedes(l, n)
<1>1. CASE Within(tree, l, n)
  <2>1. n \in Under(l)
    BY <1>1, UnderWithin
  <2>. QED  BY <2>1 DEF Precedes
<1>2. ASSUME NEW q \in 1..Len(tree), NEW j \in 1..CountOf(tree, q), NEW k \in 1..CountOf(tree, q),
             j < k, Within(tree, tree[q].kids[j], l), Within(tree, tree[q].kids[k], n)
      PROVE  Precedes(l, n)
  <2>1. tree \in Seq(NodeOf(prog)) /\ tree[q] \in NodeOf(prog) /\ DOMAIN tree = 1..Len(tree)
    BY ElementOfSeq, LenProperties DEF IsTree
  <2>2. tree[q].kids \in Seq(Nat)
    BY <2>1 DEF NodeOf
  <2>3. DOMAIN tree[q].kids = 1..CountOf(tree, q)
    BY <2>2, LenProperties DEF CountOf
  <2>4. tree[q].kids[j] \in 1..Len(tree) /\ tree[q].kids[k] \in 1..Len(tree)
    <3>1. tree[q].kids[j] \in (q+1)..Len(tree) /\ tree[q].kids[k] \in (q+1)..Len(tree)
      BY <1>2, TreeNodes DEF IsNodes
    <3>. QED  BY <3>1
  <2>5. l \in Under(tree[q].kids[j]) /\ n \in Under(tree[q].kids[k])
    BY <1>2, <2>4, UnderWithin
  <2>. QED  BY <1>2, <2>1, <2>3, <2>5 DEF Precedes
<1>. QED  BY <1>1, <1>2 DEF Earlier

\* When a run is over the trees of all roles are complete.
LEMMA OrderedLabels == ASSUME IInv, Ordered PROVE LabelBeforeGoto
<1>1. IsTree(prog, tree, chans)
  BY DEF IInv
<1>2. SUFFICES ASSUME NEW r \in DOMAIN types
               PROVE  LET labels == {n \in Under(types[r]) : tree[n].kind = "label"} IN
                      /\ \A m, n \in labels : tree[m].arg = tree[n].arg => m = n
                      /\ \A n \in Under(types[r]) : tree[n].kind = "goto" =>
                            \E m \in labels : tree[m].arg = tree[n].arg /\ Precedes(m, n)
  BY DEF LabelBeforeGoto
<1>3. types[r] \in 1..Len(tree) /\ Matched(tree, types[r])
  BY DEF IInv, Ordered, OrderedTree
<1>4. \A n : n \in Under(types[r]) <=> n \in 1..Len(tree) /\ Within(tree, types[r], n)
  BY <1>1, <1>3, UnderWithin
<1>5. ASSUME NEW n \in Under(types[r]), tree[n].kind = "goto"
      PROVE  \E m \in Under(types[r]) :
                tree[m].kind = "label" /\ tree[m].arg = tree[n].arg /\ Precedes(m, n)
  <2>1. PICK m \in 1..Len(tree) : Within(tree, types[r], m) /\ IsLabel(tree, m)
                                  /\ tree[m].arg = tree[n].arg /\ Earlier(tree, m, n)
    BY <1>3, <1>4, <1>5 DEF Matched, IsGoto
  <2>2. Precedes(m, n)
    BY <1>1, <1>4, <2>1, EarlierPrecedes
  <2>. QED  BY <1>4, <2>1, <2>2 DEF IsLabel
<1>6. ASSUME NEW m \in Under(types[r]), NEW n \in Under(types[r]), tree[m].kind = "label",
             tree[n].kind = "label", tree[m].arg = tree[n].arg
      PROVE  m = n
  BY <1>3, <1>4, <1>6 DEF Matched, IsLabel
<1>. QED  BY <1>5, <1>6

\* Every goto that visitBlock appends comes, in the tree of its role, after the label of
\* its name, and a label occurs there once, in every run of a program whose calls are
\* inlined at most once: NewCFSMs never follows a goto to a state it has not made.
THEOREM LabelsOrdered == Spec => [](Inlinable => LabelBeforeGoto)
<1>. DEFINE FInv == Inlinable => Once /\ Fresh /\ Ordered
<1>1. Init => FInv
  BY StartOnce, StartFresh, StartOrdered
<1>2. IInv /\ FInv /\ [Next]_vars => FInv'
  <2>1. SUFFICES ASSUME IInv, FInv, [Next]_vars, Inlinable' PROVE Once' /\ Fresh' /\ Ordered'
    OBVIOUS
  <2>2. prog' = prog
    BY <2>1, ProgramKept
  <2>3. Inlinable
    BY <2>1, <2>2 DEF Inlinable, Endless
  <2>. QED  BY <2>1, <2>3, OnceStep, FreshStep, OrderedStep
<1>3. IInv /\ FInv => (Inlinable => LabelBeforeGoto)
  BY OrderedLabels
<1>. HIDE DEF FInv
<1>. QED  BY <1>1, <1>2, <1>3, Inductive, PTL DEF Spec
=============================================================================
