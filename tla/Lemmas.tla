------------------------------- MODULE Lemmas ------------------------------
(***************************************************************************)
(* Facts that several proofs need.                                         *)
(*                                                                         *)
(* Induction without an operator parameter: a nonempty set of naturals has *)
(* a least element, and a greatest one if it is bounded.  To show P(n) of  *)
(* every n, take the least element of {n \in Nat : ~P(n)}.                 *)
(*                                                                         *)
(* Stacks: the work left to a recursive function is a sequence, its top    *)
(* first, and a step replaces the top by a few others.                     *)
(*                                                                         *)
(* Graphs: what Closure is, and when the words of one graph are words of   *)
(* another (module Closures).                                              *)
(***************************************************************************)
EXTENDS Integers, Sequences, FiniteSets, Closures, SequenceTheorems,
        FiniteSetTheorems, WellFoundedInduction, TLAPS

\* A natural is ordered like the set of the naturals below it, and strict
\* inclusion of finite sets is well founded.
THEOREM LeastElement ==
    ASSUME NEW T, T \subseteq Nat, T # {}
    PROVE  \E x \in T : \A y \in T : x <= y
<1>. DEFINE Below(x) == 0..(x-1)
            U == {Below(x) : x \in T}
<1>1. IsWellFoundedOn(StrictSubsetOrdering(Nat), FiniteSubsetsOf(Nat))
  BY FS_StrictSubsetOrderingWellFounded
<1>2. U \subseteq FiniteSubsetsOf(Nat) /\ U # {}
  <2>1. ASSUME NEW x \in T PROVE IsFiniteSet(Below(x)) /\ Below(x) \subseteq Nat
    BY FS_Interval
  <2>. QED  BY <2>1 DEF FiniteSubsetsOf
<1>3. PICK u \in U : \A v \in U : <<v, u>> \notin StrictSubsetOrdering(Nat)
  BY <1>1, <1>2, WFMin
<1>4. PICK x \in T : u = Below(x)
  OBVIOUS
<1>5. ASSUME NEW y \in T, y < x PROVE FALSE
  <2>1. Below(y) \in U /\ Below(y) \subseteq Nat /\ u \subseteq Nat
    BY <1>4
  <2>2. Below(y) \subseteq Below(x) /\ y \in Below(x) /\ y \notin Below(y)
    BY <1>5
  <2>. HIDE DEF Below, U
  <2>3. <<Below(y), u>> \in StrictSubsetOrdering(Nat)
    BY <2>1, <2>2, <1>4 DEF StrictSubsetOrdering
  <2>. QED  BY <2>1, <2>3, <1>3
<1>. QED  BY <1>5

\* The greatest element of a set is the one least far from its bound.
THEOREM GreatestElement ==
    ASSUME NEW n \in Nat, NEW T, T \subseteq 0..n, T # {}
    PROVE  \E x \in T : \A y \in T : y <= x
<1>. DEFINE D == {n - y : y \in T}
<1>1. D \subseteq Nat /\ D # {}
  <2>1. ASSUME NEW y \in T PROVE n - y \in Nat
    <3>1. y \in 0..n
      OBVIOUS
    <3>. QED  BY <3>1
  <2>. QED  BY <2>1
<1>. HIDE DEF D
<1>2. PICK d \in D : \A e \in D : d <= e
  BY <1>1, LeastElement
<1>3. PICK x \in T : d = n - x
  BY DEF D
<1>4. ASSUME NEW y \in T PROVE y <= x
  <2>1. n - y \in D /\ x \in 0..n /\ y \in 0..n
    BY DEF D
  <2>. QED  BY <2>1, <1>2, <1>3
<1>. QED  BY <1>4

-----------------------------------------------------------------------------
(* Stacks. *)

\* One item put on a stack.
LEMMA OneBefore ==
    ASSUME NEW S, NEW x \in S, NEW s \in Seq(S)
    PROVE  <<x>> \o s \in Seq(S)
<1>1. <<x>> \in Seq(S)
  OBVIOUS
<1>. QED  BY <1>1, ConcatProperties

\* The top is first, the rest one further.
LEMMA BeforeAt ==
    ASSUME NEW S, NEW x \in S, NEW s \in Seq(S), NEW v, v = <<x>> \o s
    PROVE  /\ Len(s) \in Nat /\ Len(v) = Len(s) + 1 /\ v[1] = x
           /\ \A j \in 1..Len(s) : v[j + 1] = s[j]
<1>1. <<x>> \in Seq(S) /\ Len(<<x>>) = 1 /\ Len(s) \in Nat
  BY LenProperties
<1>2. \A j \in 1..(1 + Len(s)) : v[j] = IF j <= 1 THEN <<x>>[j] ELSE s[j - 1]
  BY <1>1, ConcatProperties
<1>3. Len(v) = 1 + Len(s)
  BY <1>1, ConcatProperties
<1>4. v[1] = x
  BY <1>1, <1>2
<1>5. ASSUME NEW j \in 1..Len(s) PROVE v[j + 1] = s[j]
  <2>1. j + 1 \in 1..(1 + Len(s)) /\ ~(j + 1 <= 1) /\ (j + 1) - 1 = j
    BY <1>1
  <2>. QED  BY <1>2, <2>1
<1>. QED  BY <1>1, <1>3, <1>4, <1>5

\* Places in a stack when something is put on top.
LEMMA Shifted ==
    ASSUME NEW n \in Nat, NEW T, T \subseteq 1..n
    PROVE  /\ Cardinality(T) \in Nat /\ IsFiniteSet({j + 1 : j \in T})
           /\ Cardinality({j + 1 : j \in T}) = Cardinality(T)
           /\ Cardinality({j + 1 : j \in T} \cup {1}) = Cardinality(T) + 1
<1>. DEFINE U == {j + 1 : j \in T}
            f == [j \in T |-> j + 1]
<1>1. IsFiniteSet(T) /\ Cardinality(T) \in Nat
  <2>1. IsFiniteSet(1..n)
    BY FS_Interval
  <2>2. IsFiniteSet(T)
    BY <2>1, FS_Subset
  <2>. QED  BY <2>2, FS_CardinalityType
<1>2. f \in Bijection(T, U)
  <2>1. f \in [T -> U]
    OBVIOUS
  <2>2. \A i, j \in T : f[i] = f[j] => i = j
    OBVIOUS
  <2>3. \A k \in U : \E j \in T : f[j] = k
    OBVIOUS
  <2>. QED  BY <2>1, <2>2, <2>3 DEF Bijection, Injection, Surjection, IsInjective
<1>3. Cardinality(U) = Cardinality(T) /\ IsFiniteSet(U)
  BY <1>1, <1>2, FS_Bijection DEF ExistsBijection
<1>4. 1 \notin U
  OBVIOUS
<1>. HIDE DEF U
<1>5. Cardinality(U \cup {1}) = Cardinality(U) + 1
  BY <1>3, <1>4, FS_AddElement
<1>. QED  BY <1>1, <1>3, <1>5 DEF U

\* A stack is its top before the rest.
LEMMA HeadBefore ==
    ASSUME NEW S, NEW s \in Seq(S), s # << >>
    PROVE  s[1] \in S /\ Tail(s) \in Seq(S) /\ s = <<s[1]>> \o Tail(s)
<1>1. Len(s) \in Nat /\ Len(s) # 0 /\ s[1] \in S
  <2>1. Len(s) \in Nat \ {0}
    BY EmptySeq
  <2>. QED  BY <2>1, ElementOfSeq
<1>2. Tail(s) \in Seq(S) /\ Len(Tail(s)) = Len(s) - 1
      /\ \A i \in 1..Len(Tail(s)) : Tail(s)[i] = s[i + 1]
  BY HeadTailProperties
<1>. DEFINE v == <<s[1]>> \o Tail(s)
<1>3. <<s[1]>> \in Seq(S) /\ Len(<<s[1]>>) = 1
  BY <1>1
<1>4. v \in Seq(S) /\ Len(v) = Len(s)
  <2>1. v \in Seq(S) /\ Len(v) = 1 + Len(Tail(s))
    BY <1>2, <1>3, ConcatProperties
  <2>. HIDE DEF v
  <2>. QED  BY <1>1, <1>2, <2>1
<1>5. ASSUME NEW i \in 1..Len(s) PROVE v[i] = s[i]
  <2>1. i \in 1..(1 + Len(Tail(s)))
    BY <1>1, <1>2
  <2>2. v[i] = IF i <= 1 THEN <<s[1]>>[i] ELSE Tail(s)[i - 1]
    BY <1>2, <1>3, <2>1, ConcatProperties
  <2>. HIDE DEF v
  <2>3. CASE i = 1
    BY <2>2, <2>3
  <2>4. CASE i # 1
    <3>1. i - 1 \in 1..Len(Tail(s)) /\ ~(i <= 1) /\ (i - 1) + 1 = i
      BY <1>1, <1>2, <2>4
    <3>. QED  BY <1>2, <2>2, <3>1
  <2>. QED  BY <2>3, <2>4
<1>. HIDE DEF v
<1>6. s = v
  BY <1>4, <1>5, SeqEqual
<1>. QED  BY <1>1, <1>2, <1>6 DEF v

\* Two on top are one on top of one on top.
LEMMA TwoBefore ==
    ASSUME NEW S, NEW x \in S, NEW y \in S, NEW s \in Seq(S)
    PROVE  <<x, y>> \o s = <<x>> \o (<<y>> \o s) /\ <<x, y>> \o s \in Seq(S)
<1>1. <<x>> \in Seq(S) /\ <<y>> \in Seq(S)
  OBVIOUS
<1>2. Append(<<x>>, y) = <<x>> \o <<y>>
  BY <1>1, AppendIsConcat
<1>3. Append(<<x>>, y) = <<x, y>>
  <2>. DEFINE one == Append(<<x>>, y)
              two == <<x, y>>
  <2>1. one \in Seq(S) /\ Len(one) = 2 /\ one[1] = x /\ one[2] = y
    BY <1>1, AppendProperties
  <2>2. two \in Seq(S) /\ Len(two) = 2 /\ two[1] = x /\ two[2] = y
    OBVIOUS
  <2>. HIDE DEF one, two
  <2>3. \A i \in 1..2 : one[i] = two[i]
    BY <2>1, <2>2
  <2>4. one = two
    BY <2>1, <2>2, <2>3, SeqEqual
  <2>. QED  BY <2>4 DEF one, two
<1>4. <<x>> \o (<<y>> \o s) = (<<x>> \o <<y>>) \o s
  BY <1>1, ConcatAssociative
<1>5. <<x>> \o (<<y>> \o s) \in Seq(S)
  BY OneBefore
<1>. QED  BY <1>2, <1>3, <1>4, <1>5
-----------------------------------------------------------------------------
(* What is reached in a finite graph.                                      *)

\* The levels of Closure, down to level k.
IsLevels(f, step, P, k) ==
    f = [d \in 0..k |-> IF d = 0 THEN P ELSE Onward(step, f[d-1])]

\* The recursive definition of the levels has a solution.
LEMMA LevelsExist ==
    ASSUME NEW step, NEW P, NEW K \in Nat
    PROVE  \E f : IsLevels(f, step, P, K)
<1>. DEFINE G(L) == Onward(step, L)
            Is(f, k) == f = [d \in 0..k |-> IF d = 0 THEN P ELSE G(f[d-1])]
            Bad == {k \in Nat : ~\E f : Is(f, k)}
<1>1. ASSUME NEW f, NEW k \in Nat, Is(f, k) PROVE \E g : Is(g, k + 1)
  <2>. DEFINE g == [d \in 0..(k+1) |-> IF d \in 0..k THEN f[d] ELSE G(f[k])]
  <2>1. \A d \in 0..k : f[d] = IF d = 0 THEN P ELSE G(f[d-1])
    <3>. HIDE DEF G
    <3>. QED  BY <1>1
  <2>2. ASSUME NEW d \in 0..(k+1) PROVE g[d] = IF d = 0 THEN P ELSE G(g[d-1])
    <3>. HIDE DEF G
    <3>1. CASE d = 0
      BY <2>1, <3>1
    <3>2. CASE d # 0 /\ d \in 0..k
      <4>1. d - 1 \in 0..k
        BY <3>2
      <4>2. g[d] = f[d] /\ g[d-1] = f[d-1]
        BY <3>2, <4>1
      <4>. QED  BY <2>1, <3>2, <4>2
    <3>3. CASE d = k + 1
      <4>1. g[d] = G(f[k]) /\ g[k] = f[k] /\ d # 0 /\ d - 1 = k
        BY <3>3
      <4>. QED  BY <4>1
    <3>. QED  BY <3>1, <3>2, <3>3
  <2>3. Is(g, k + 1)
    BY <2>2
  <2>. QED  BY <2>3
<1>2. \E f : Is(f, 0)
  <2>. DEFINE f == [d \in 0..0 |-> P]
  <2>1. Is(f, 0)
    OBVIOUS
  <2>. QED  BY <2>1
<1>. HIDE DEF Is
<1>3. Bad = {}
  <2>1. SUFFICES ASSUME Bad # {} PROVE FALSE
    OBVIOUS
  <2>2. PICK k \in Bad : \A j \in Bad : k <= j
    BY <2>1, LeastElement
  <2>3. k # 0 /\ k - 1 \in Nat
    BY <1>2, <2>2
  <2>4. \E f : Is(f, k - 1)
    BY <2>2, <2>3
  <2>5. \E f : Is(f, (k - 1) + 1)
    BY <1>1, <2>3, <2>4
  <2>. QED  BY <2>2, <2>3, <2>5
<1>. QED  BY <1>3 DEF Is, IsLevels

\* The closure is the last of as many levels as there are nodes, and each level has
\* what the one before has and leads to.
LEMMA ClosureLevels ==
    ASSUME NEW N, IsFiniteSet(N), NEW step \in [N -> SUBSET N], NEW P \in SUBSET N
    PROVE  \E level : /\ Closure(step, P) = level[Cardinality(N)]
                      /\ level[0] = P
                      /\ \A d \in 1..Cardinality(N) : level[d] = Onward(step, level[d-1])
<1>. DEFINE K == Cardinality(N)
            level == CHOOSE f : IsLevels(f, step, P, K)
<1>1. K \in Nat /\ DOMAIN step = N
  BY FS_CardinalityType
<1>2. \E f : IsLevels(f, step, P, K)
  <2>. HIDE DEF K
  <2>. QED  BY <1>1, LevelsExist
<1>3. IsLevels(level, step, P, K)
  BY <1>2, Zenon
<1>4. Closure(step, P) = level[K]
  BY <1>1 DEF Closure, IsLevels
<1>. HIDE DEF K, level
<1>5. \A d \in 0..K : level[d] = IF d = 0 THEN P ELSE Onward(step, level[d-1])
  BY <1>3, Zenon DEF IsLevels
<1>6. level[0] = P
  <2>1. 0 \in 0..K
    BY <1>1
  <2>. QED  BY <1>5, <2>1
<1>7. ASSUME NEW d \in 1..K
      PROVE  level[d] = Onward(step, level[d-1])
  <2>1. d \in 0..K /\ d # 0
    BY <1>1
  <2>. QED  BY <1>5, <2>1
<1>. QED  BY <1>4, <1>6, <1>7 DEF K

\* A set that holds the start, and what each of its elements leads to, holds the
\* closure.
LEMMA ClosureWithin ==
    ASSUME NEW N, IsFiniteSet(N), NEW step \in [N -> SUBSET N], NEW P \in SUBSET N,
           NEW S, P \subseteq S, \A n \in S \cap N : step[n] \subseteq S
    PROVE  Closure(step, P) \subseteq S
<1>. DEFINE K == Cardinality(N)
<1>1. K \in Nat
  BY FS_CardinalityType
<1>2. PICK level : /\ Closure(step, P) = level[K]
                   /\ level[0] = P
                   /\ \A d \in 1..K : level[d] = Onward(step, level[d-1])
  BY ClosureLevels
<1>. DEFINE Out == {d \in 0..K : ~(level[d] \subseteq S \cap N)}
<1>. HIDE DEF K
<1>3. Out = {}
  <2>1. SUFFICES ASSUME Out # {} PROVE FALSE
    OBVIOUS
  <2>2. PICK d \in Out : \A e \in Out : d <= e
    <3>1. Out \subseteq Nat
      BY <1>1
    <3>. HIDE DEF Out
    <3>. QED  BY <2>1, <3>1, LeastElement
  <2>3. d # 0 /\ d \in 1..K /\ d - 1 \in 0..K
    BY <1>1, <1>2, <2>2
  <2>4. level[d-1] \subseteq S \cap N
    BY <1>1, <2>2, <2>3
  <2>5. level[d] = level[d-1] \cup UNION {step[n] : n \in level[d-1]}
    BY <1>2, <2>3 DEF Onward
  <2>. QED  BY <2>2, <2>4, <2>5
<1>. QED  BY <1>1, <1>2, <1>3

\* The closure holds the start and what each of its elements leads to: it grows
\* at each level until it is closed, and cannot grow beyond the nodes.
LEMMA ClosureClosed ==
    ASSUME NEW N, IsFiniteSet(N), NEW step \in [N -> SUBSET N], NEW P \in SUBSET N
    PROVE  /\ Closure(step, P) \subseteq N
           /\ P \subseteq Closure(step, P)
           /\ \A n \in Closure(step, P) : step[n] \subseteq Closure(step, P)
<1>. DEFINE K == Cardinality(N)
<1>1. K \in Nat
  BY FS_CardinalityType
<1>2. PICK level : /\ Closure(step, P) = level[K]
                   /\ level[0] = P
                   /\ \A d \in 1..K : level[d] = Onward(step, level[d-1])
  BY ClosureLevels
<1>. DEFINE Closed(R) == \A n \in R : step[n] \subseteq R
            Good(d) == /\ level[d] \subseteq N /\ P \subseteq level[d]
                       /\ Closed(level[d]) \/ Cardinality(level[d]) >= d
            Bad == {d \in 0..K : ~Good(d)}
<1>. HIDE DEF K
<1>3. Bad = {}
  <2>1. SUFFICES ASSUME Bad # {} PROVE FALSE
    OBVIOUS
  <2>2. PICK d \in Bad : \A e \in Bad : d <= e
    <3>1. Bad \subseteq Nat
      BY <1>1
    <3>. HIDE DEF Bad
    <3>. QED  BY <2>1, <3>1, LeastElement
  <2>3. CASE d = 0
    <3>1. IsFiniteSet(level[0])
      BY <1>2, FS_Subset
    <3>2. Cardinality(level[0]) \in Nat
      BY <3>1, FS_CardinalityType
    <3>3. Good(0)
      BY <1>2, <3>2
    <3>. QED  BY <2>2, <2>3, <3>3
  <2>4. CASE d # 0
    <3>1. d \in 1..K /\ d - 1 \in 0..K /\ d \in Nat
      BY <1>1, <2>4
    <3>2. Good(d-1)
      <4>. HIDE DEF Good
      <4>. QED  BY <2>2, <3>1
    <3>. DEFINE L == level[d-1]
                M == level[d]
    <3>3. M = L \cup UNION {step[n] : n \in L}
      BY <1>2, <3>1 DEF Onward
    <3>4. L \subseteq N /\ P \subseteq L /\ (Closed(L) \/ Cardinality(L) >= d - 1)
      BY <3>2
    <3>. HIDE DEF L, M
    <3>5. M \subseteq N /\ P \subseteq M /\ L \subseteq M
      BY <3>3, <3>4
    <3>6. CASE Closed(L)
      <4>1. M = L
        BY <3>3, <3>6
      <4>2. Closed(M)
        BY <3>6, <4>1
      <4>. QED  BY <2>2, <3>5, <4>2 DEF M
    <3>7. CASE ~Closed(L)
      <4>1. M # L
        BY <3>3, <3>7
      <4>2. IsFiniteSet(M)
        BY <3>5, FS_Subset
      <4>3. IsFiniteSet(L) /\ Cardinality(L) <= Cardinality(M)
            /\ (Cardinality(L) = Cardinality(M) => L = M)
        BY <3>5, <4>2, FS_Subset
      <4>4. Cardinality(L) \in Nat /\ Cardinality(M) \in Nat
        BY <4>2, <4>3, FS_CardinalityType
      <4>5. Cardinality(M) >= d
        BY <3>1, <3>4, <3>7, <4>1, <4>3, <4>4
      <4>. QED  BY <2>2, <3>5, <4>5 DEF M
    <3>. QED  BY <3>6, <3>7
  <2>. QED  BY <2>3, <2>4
<1>4. Good(K)
  <2>. HIDE DEF Good
  <2>. QED  BY <1>1, <1>3
<1>5. Closed(level[K])
  <2>1. CASE Cardinality(level[K]) >= K
    <3>1. IsFiniteSet(level[K]) /\ Cardinality(level[K]) <= Cardinality(N)
          /\ (Cardinality(level[K]) = Cardinality(N) => level[K] = N)
      BY <1>4, FS_Subset
    <3>2. Cardinality(level[K]) \in Nat
      BY <3>1, FS_CardinalityType
    <3>3. level[K] = N
      BY <1>1, <2>1, <3>1, <3>2 DEF K
    <3>. QED  BY <3>3
  <2>. QED  BY <1>4, <2>1
<1>. QED  BY <1>2, <1>4, <1>5

-----------------------------------------------------------------------------
(* The words of a graph.                                                   *)

\* The paths of Words, of k edges.
IsRuns(f, E, q, k) ==
    f = [i \in 0..k |-> IF i = 0 THEN {<< << >>, q>>} ELSE Longer(E, f[i-1])]

\* Their recursive definition has a solution.
LEMMA RunsExist ==
    ASSUME NEW E, NEW q, NEW K \in Nat
    PROVE  \E f : IsRuns(f, E, q, K)
<1>. DEFINE G(L) == Longer(E, L)
            P == {<< << >>, q>>}
            Is(f, k) == f = [d \in 0..k |-> IF d = 0 THEN P ELSE G(f[d-1])]
            Bad == {k \in Nat : ~\E f : Is(f, k)}
<1>1. ASSUME NEW f, NEW k \in Nat, Is(f, k) PROVE \E g : Is(g, k + 1)
  <2>. DEFINE g == [d \in 0..(k+1) |-> IF d \in 0..k THEN f[d] ELSE G(f[k])]
  <2>. HIDE DEF G, P
  <2>1. \A d \in 0..k : f[d] = IF d = 0 THEN P ELSE G(f[d-1])
    BY <1>1
  <2>2. ASSUME NEW d \in 0..(k+1) PROVE g[d] = IF d = 0 THEN P ELSE G(g[d-1])
    <3>1. CASE d = 0
      BY <2>1, <3>1
    <3>2. CASE d # 0 /\ d \in 0..k
      <4>1. d - 1 \in 0..k
        BY <3>2
      <4>2. g[d] = f[d] /\ g[d-1] = f[d-1]
        BY <3>2, <4>1
      <4>. QED  BY <2>1, <3>2, <4>2
    <3>3. CASE d = k + 1
      <4>1. g[d] = G(f[k]) /\ g[k] = f[k] /\ d # 0 /\ d - 1 = k
        BY <3>3
      <4>. QED  BY <4>1
    <3>. QED  BY <3>1, <3>2, <3>3
  <2>3. Is(g, k + 1)
    BY <2>2
  <2>. QED  BY <2>3
<1>2. \E f : Is(f, 0)
  <2>. DEFINE f == [d \in 0..0 |-> P]
  <2>1. Is(f, 0)
    OBVIOUS
  <2>. QED  BY <2>1
<1>. HIDE DEF Is
<1>3. Bad = {}
  <2>1. SUFFICES ASSUME Bad # {} PROVE FALSE
    OBVIOUS
  <2>2. PICK k \in Bad : \A j \in Bad : k <= j
    BY <2>1, LeastElement
  <2>3. k # 0 /\ k - 1 \in Nat
    BY <1>2, <2>2
  <2>4. \E f : Is(f, k - 1)
    BY <2>2, <2>3
  <2>5. \E f : Is(f, (k - 1) + 1)
    BY <1>1, <2>3, <2>4
  <2>. QED  BY <2>2, <2>3, <2>5
<1>. QED  BY <1>3 DEF Is, IsRuns

\* The words are those of paths, each one edge longer than another.
LEMMA WordsRuns ==
    ASSUME NEW E, NEW q, NEW d \in Nat
    PROVE  \E runs : /\ Words(E, q, d) = {x[1] : x \in UNION {runs[i] : i \in 0..d}}
                     /\ runs[0] = {<< << >>, q>>}
                     /\ \A i \in 1..d : runs[i] = Longer(E, runs[i-1])
<1>. DEFINE runs == CHOOSE f : IsRuns(f, E, q, d)
            P == {<< << >>, q>>}
<1>1. \E f : IsRuns(f, E, q, d)
  BY RunsExist
<1>2. IsRuns(runs, E, q, d)
  BY <1>1, Zenon
<1>3. Words(E, q, d) = {x[1] : x \in UNION {runs[i] : i \in 0..d}}
  BY DEF Words, IsRuns
<1>4. \A i \in 0..d : runs[i] = IF i = 0 THEN P ELSE Longer(E, runs[i-1])
  <2>. HIDE DEF runs
  <2>. QED  BY <1>2, Zenon DEF IsRuns
<1>. HIDE DEF runs, P
<1>5. runs[0] = P
  <2>1. 0 \in 0..d
    OBVIOUS
  <2>. QED  BY <1>4, <2>1
<1>6. ASSUME NEW i \in 1..d PROVE runs[i] = Longer(E, runs[i-1])
  <2>1. i \in 0..d /\ i # 0
    OBVIOUS
  <2>. QED  BY <1>4, <2>1
<1>. QED  BY <1>3, <1>5, <1>6 DEF P

\* A path goes on over the edges at its end.
LEMMA LongerHas ==
    ASSUME NEW E, NEW X, NEW x \in X, NEW e \in E, e[1] = x[2]
    PROVE  <<Append(x[1], e[2]), e[3]>> \in Longer(E, X)
<1>. DEFINE Ends == {<<Append(x[1], f[2]), f[3]>> : f \in {f \in E : f[1] = x[2]}}
<1>1. <<Append(x[1], e[2]), e[3]>> \in Ends
  OBVIOUS
<1>2. Ends \subseteq Longer(E, X)
  BY Zenon DEF Longer
<1>. HIDE DEF Ends
<1>. QED  BY <1>1, <1>2

\* A graph that simulates another has its words.
LEMMA WordsSimulated ==
    ASSUME NEW E, NEW F, NEW p, NEW q, NEW d \in Nat, NEW S, <<p, q>> \in S,
           \A e \in E : \A b : <<e[1], b>> \in S =>
              \E f \in F : f[1] = b /\ f[2] = e[2] /\ <<e[3], f[3]>> \in S
    PROVE  Words(E, p, d) \subseteq Words(F, q, d)
<1>1. PICK re : /\ Words(E, p, d) = {x[1] : x \in UNION {re[i] : i \in 0..d}}
                /\ re[0] = {<< << >>, p>>}
                /\ \A i \in 1..d : re[i] = Longer(E, re[i-1])
  BY WordsRuns
<1>2. PICK rf : /\ Words(F, q, d) = {x[1] : x \in UNION {rf[i] : i \in 0..d}}
                /\ rf[0] = {<< << >>, q>>}
                /\ \A i \in 1..d : rf[i] = Longer(F, rf[i-1])
  BY WordsRuns
<1>. DEFINE Follows(x, i) == \E y \in rf[i] : y[1] = x[1] /\ <<x[2], y[2]>> \in S
            Bad == {i \in 0..d : ~\A x \in re[i] : Follows(x, i)}
<1>3. Bad = {}
  <2>1. SUFFICES ASSUME Bad # {} PROVE FALSE
    OBVIOUS
  <2>2. PICK i \in Bad : \A j \in Bad : i <= j
    <3>1. Bad \subseteq Nat
      OBVIOUS
    <3>. HIDE DEF Bad
    <3>. QED  BY <2>1, <3>1, LeastElement
  <2>3. PICK x \in re[i] : ~Follows(x, i)
    OBVIOUS
  <2>4. CASE i = 0
    <3>1. x = << << >>, p>>
      BY <1>1, <2>3, <2>4
    <3>2. << << >>, q>> \in rf[0]
      BY <1>2
    <3>. QED  BY <2>3, <2>4, <3>1, <3>2
  <2>5. CASE i # 0
    <3>1. i \in 1..d /\ i - 1 \in 0..d
      BY <2>5
    <3>0. x \in Longer(E, re[i-1])
      BY <1>1, <2>3, <3>1
    <3>2. PICK w \in re[i-1] : \E e \in E : e[1] = w[2] /\ x = <<Append(w[1], e[2]), e[3]>>
      BY <3>0 DEF Longer
    <3>3. PICK e \in E : e[1] = w[2] /\ x = <<Append(w[1], e[2]), e[3]>>
      BY <3>2
    <3>7. Follows(w, i-1)
      <4>1. i - 1 \notin Bad
        <5>. HIDE DEF Bad
        <5>1. i \in Int /\ ~(i <= i - 1)
          BY <3>1
        <5>. QED  BY <2>2, <5>1
      <4>. HIDE DEF Follows
      <4>. QED  BY <3>1, <4>1
    <3>4. PICK y \in rf[i-1] : y[1] = w[1] /\ <<w[2], y[2]>> \in S
      BY <3>7
    <3>5. PICK f \in F : f[1] = y[2] /\ f[2] = e[2] /\ <<e[3], f[3]>> \in S
      BY <3>3, <3>4
    <3>. DEFINE z == <<Append(y[1], f[2]), f[3]>>
    <3>6. z \in rf[i]
      <4>1. z \in Longer(F, rf[i-1])
        BY <3>4, <3>5, LongerHas
      <4>2. rf[i] = Longer(F, rf[i-1])
        BY <1>2, <3>1
      <4>. HIDE DEF z
      <4>. QED  BY <4>1, <4>2
    <3>8. z[1] = x[1] /\ <<x[2], z[2]>> \in S
      BY <3>3, <3>4, <3>5
    <3>. QED  BY <2>3, <3>6, <3>8
  <2>. QED  BY <2>4, <2>5
<1>4. ASSUME NEW v \in Words(E, p, d) PROVE v \in Words(F, q, d)
  <2>0. PICK i \in 0..d : \E x \in re[i] : v = x[1]
    BY <1>1
  <2>1. PICK x \in re[i] : v = x[1]
    BY <2>0
  <2>2. PICK y \in rf[i] : y[1] = x[1]
    BY <1>3
  <2>. QED  BY <1>2, <2>1, <2>2
<1>. QED  BY <1>4
=============================================================================
