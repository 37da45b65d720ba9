----------------------------- MODULE MigoProofs -----------------------------
(***************************************************************************)
(* Invariants of the MiGo inference for every set of programs and every    *)
(* bound of memory: the types, and that statements put away are restored   *)
(* where they belong.  The inductive invariant is IInv of Migo; one lemma  *)
(* for each action, after those on sequences, on the definitions and the   *)
(* loops, and on what is put away for a stack of work.                     *)
(***************************************************************************)
EXTENDS Migo, Lemmas

(* Sequences. *)

\* A sequence is a function on its indices.
LEMMA Tabled ==
    ASSUME NEW s, IsSeq(s)
    PROVE  s \in Seq({s[i] : i \in 1..Len(s)}) /\ DOMAIN s = 1..Len(s) /\ Len(s) \in Nat
<1>. DEFINE T == {s[i] : i \in 1..Len(s)}
<1>1. s = [i \in 1..Len(s) |-> s[i]] /\ Len(s) \in Nat
  BY DEF IsSeq
<1>2. s \in [1..Len(s) -> T] /\ DOMAIN s = 1..Len(s)
  BY <1>1
<1>. HIDE DEF T
<1>3. s \in Seq(T)
  BY <1>1, <1>2, SeqDef, Zenon
<1>. QED  BY <1>1, <1>2, <1>3 DEF T

\* A sequence over a set is one, and its elements are of the set.
LEMMA IsSeqOf ==
    ASSUME NEW S, NEW s \in Seq(S)
    PROVE  IsSeq(s) /\ \A i \in 1..Len(s) : s[i] \in S
<1>1. s \in [1..Len(s) -> S] /\ Len(s) \in Nat
  BY LenProperties
<1>. QED  BY <1>1 DEF IsSeq

\* Append lengthens a sequence by one and keeps the rest.
LEMMA Appended ==
    ASSUME NEW s, IsSeq(s), NEW x
    PROVE  /\ IsSeq(Append(s, x)) /\ Len(Append(s, x)) = Len(s) + 1
           /\ Append(s, x)[Len(s) + 1] = x
           /\ \A i \in 1..Len(s) : Append(s, x)[i] = s[i]
<1>. DEFINE T == {s[i] : i \in 1..Len(s)}
            U == T \cup {x}
<1>1. s \in Seq(T) /\ T \subseteq U /\ x \in U
  BY Tabled
<1>. HIDE DEF T, U
<1>2. s \in Seq(U)
  BY <1>1
<1>3. /\ Append(s, x) \in Seq(U) /\ Len(Append(s, x)) = Len(s) + 1
      /\ Append(s, x)[Len(s) + 1] = x
      /\ \A i \in 1..Len(s) : Append(s, x)[i] = s[i]
  BY <1>1, <1>2, AppendProperties
<1>. QED  BY <1>3, IsSeqOf

\* Front shortens a sequence by one.
LEMMA Fronted ==
    ASSUME NEW s, IsSeq(s), Len(s) # 0
    PROVE  IsSeq(Front(s)) /\ Len(Front(s)) = Len(s) - 1
<1>. DEFINE T == {s[i] : i \in 1..Len(s)}
<1>1. s \in Seq(T) /\ Len(s) \in Nat
  BY Tabled
<1>. HIDE DEF T
<1>2. SubSeq(s, 1, Len(s) - 1) \in Seq(T) /\ Len(SubSeq(s, 1, Len(s) - 1)) = Len(s) - 1
  BY <1>1, SubSeqProperties
<1>. QED  BY <1>2, IsSeqOf DEF Front

Put(s, d, x) == [s EXCEPT ![d] = x]

\* Put changes one element.
LEMMA Replaced ==
    ASSUME NEW s, IsSeq(s), NEW d \in 1..Len(s), NEW x
    PROVE  /\ IsSeq(Put(s, d, x)) /\ Len(Put(s, d, x)) = Len(s) /\ Put(s, d, x)[d] = x
           /\ \A i \in 1..Len(s) : i # d => Put(s, d, x)[i] = s[i]
<1>. DEFINE T == {s[i] : i \in 1..Len(s)} \cup {x}
            t == Put(s, d, x)
<1>1. s = [i \in 1..Len(s) |-> s[i]] /\ DOMAIN s = 1..Len(s) /\ Len(s) \in Nat
  BY Tabled DEF IsSeq
<1>2. t \in [1..Len(s) -> T]
  BY <1>1 DEF Put
<1>3. t[d] = x /\ \A i \in 1..Len(s) : i # d => t[i] = s[i]
  BY <1>1 DEF Put
<1>. HIDE DEF T, t
<1>4. t \in Seq(T)
  <2>1. Len(s) \in Nat
    BY <1>1
  <2>. QED  BY <1>2, <2>1, SeqDef
<1>5. Len(t) = Len(s)
  BY <1>1, <1>2, <1>4, LenProperties
<1>. QED  BY <1>3, <1>4, <1>5, IsSeqOf DEF t

-----------------------------------------------------------------------------
(* What is put away. *)

\* Max of a nonempty set of indices is in it and bounds it.
LEMMA MaxOf ==
    ASSUME NEW n \in Nat, NEW T, T \subseteq 1..n, T # {}
    PROVE  Max(T) \in T /\ \A y \in T : y <= Max(T)
<1>1. PICK x \in T : \A y \in T : y <= x
  <2>1. T \subseteq 0..n
    OBVIOUS
  <2>. QED  BY <2>1, GreatestElement
<1>2. \A y \in T : x >= y
  BY <1>1
<1>. QED  BY <1>2 DEF Max

\* The definitions of the frames K when x is on top, and when it is done.
Sets(x, fs, gs, K) ==
    \A k \in K : gs[k].def = IF x.do = "back" /\ x.fr = k THEN x.at ELSE fs[k].def

\* Items of the frames K.
OfFrames(S, K) == \A w \in S : w.fr \in K

\* The definition of an item does not depend on what was put on top.
LEMMA DefBelow ==
    ASSUME NEW S, NEW K, OfFrames(S, K), NEW x \in S, NEW s \in Seq(S),
           NEW fs, NEW gs, Sets(x, fs, gs, K), NEW j \in 1..Len(s)
    PROVE  DefAt(<<x>> \o s, fs, j + 1) = DefAt(s, gs, j)
<1>. DEFINE v == <<x>> \o s
            B == {i \in 1..(j-1) : s[i].do = "back" /\ s[i].fr = s[j].fr}
            C == {i \in 1..((j+1)-1) : v[i].do = "back" /\ v[i].fr = v[j+1].fr}
<1>1. /\ Len(s) \in Nat /\ Len(v) = Len(s) + 1 /\ v[1] = x
      /\ \A k \in 1..Len(s) : v[k + 1] = s[k]
  BY BeforeAt
<1>2. v[j + 1] = s[j] /\ s[j].fr \in K
  BY <1>1, ElementOfSeq DEF OfFrames
<1>. HIDE DEF v
<1>3. ASSUME NEW i \in B PROVE i + 1 \in C /\ v[i + 1] = s[i]
  BY <1>1, <1>2
<1>4. ASSUME NEW i \in C, i # 1 PROVE i - 1 \in B /\ v[i] = s[i - 1]
  <2>1. i - 1 \in 1..(j - 1) /\ i - 1 \in 1..Len(s) /\ (i - 1) + 1 = i
    BY <1>1, <1>4
  <2>2. v[i] = s[i - 1]
    BY <1>1, <2>1
  <2>. QED  BY <1>2, <2>1, <2>2
<1>5. DefAt(s, gs, j) = IF B = {} THEN gs[s[j].fr].def ELSE s[Max(B)].at
  BY DEF DefAt
<1>6. DefAt(v, fs, j + 1) = IF C = {} THEN fs[s[j].fr].def ELSE v[Max(C)].at
  BY <1>2 DEF DefAt
<1>7. B \subseteq 1..Len(s) /\ C \subseteq 1..Len(s)
  BY <1>1
<1>8. 1 \in C <=> x.do = "back" /\ x.fr = s[j].fr
  BY <1>1, <1>2
<1>9. \A i \in C : i \in Nat
  OBVIOUS
<1>. HIDE DEF B, C
<1>10. CASE B # {}
  <2>1. Max(B) \in B /\ \A y \in B : y <= Max(B)
    BY <1>1, <1>7, <1>10, MaxOf
  <2>2. C # {} /\ Max(B) + 1 \in C
    BY <1>3, <2>1
  <2>3. Max(C) \in C /\ \A y \in C : y <= Max(C)
    BY <1>1, <1>7, <2>2, MaxOf
  <2>4. Max(C) # 1 /\ Max(B) \in Nat /\ Max(C) \in Nat
    <3>1. Max(B) \in 1..Len(s) /\ Max(C) \in 1..Len(s) /\ Max(B) + 1 <= Max(C)
      BY <1>7, <2>1, <2>2, <2>3
    <3>. QED  BY <1>1, <3>1
  <2>5. Max(C) - 1 \in B /\ v[Max(C)] = s[Max(C) - 1]
    BY <1>4, <2>3, <2>4
  <2>6. Max(C) - 1 = Max(B)
    BY <2>1, <2>2, <2>3, <2>4, <2>5
  <2>. QED  BY <1>5, <1>6, <1>10, <2>2, <2>5, <2>6 DEF v
<1>11. CASE B = {} /\ C # {}
  <2>1. C = {1}
    BY <1>4, <1>11
  <2>2. Max(C) = 1
    <3>1. Max(C) \in C
      BY <1>1, <1>7, <1>11, MaxOf
    <3>. QED  BY <2>1, <3>1
  <2>3. x.do = "back" /\ x.fr = s[j].fr
    BY <1>8, <2>1
  <2>4. gs[s[j].fr].def = x.at
    BY <1>2, <2>3 DEF Sets
  <2>. QED  BY <1>1, <1>5, <1>6, <1>11, <2>2, <2>4 DEF v
<1>12. CASE B = {} /\ C = {}
  <2>1. gs[s[j].fr].def = fs[s[j].fr].def
    BY <1>2, <1>8, <1>12 DEF Sets
  <2>. QED  BY <1>5, <1>6, <1>12, <2>1 DEF v
<1>. QED  BY <1>10, <1>11, <1>12

\* The definitions of items are those of frames or put down in the items.
LEMMA DefsMade ==
    ASSUME NEW S, NEW K, OfFrames(S, K), NEW s \in Seq(S), NEW fs, NEW D,
           \A k \in K : fs[k].def \in D, \A w \in S : w.do = "back" => w.at \in D,
           NEW j \in 1..Len(s)
    PROVE  DefAt(s, fs, j) \in D
<1>. DEFINE B == {i \in 1..(j-1) : s[i].do = "back" /\ s[i].fr = s[j].fr}
<1>1. Len(s) \in Nat /\ s[j].fr \in K
  BY ElementOfSeq, LenProperties DEF OfFrames
<1>2. DefAt(s, fs, j) = IF B = {} THEN fs[s[j].fr].def ELSE s[Max(B)].at
  BY DEF DefAt
<1>3. ASSUME NEW i \in B PROVE s[i].at \in D
  <2>1. i \in 1..Len(s) /\ s[i].do = "back"
    BY <1>1
  <2>2. s[i] \in S
    BY <2>1, ElementOfSeq
  <2>. QED  BY <2>1, <2>2
<1>4. B \subseteq 1..Len(s)
  BY <1>1
<1>. HIDE DEF B
<1>5. B # {} => Max(B) \in B
  BY <1>1, <1>4, MaxOf
<1>. QED  BY <1>1, <1>2, <1>3, <1>5

\* The same frames have the same definitions.
LEMMA SameDefs ==
    ASSUME NEW S, NEW K, OfFrames(S, K), NEW s \in Seq(S), NEW fs, NEW gs,
           \A k \in K : gs[k].def = fs[k].def, NEW d
    PROVE  PutAwayFor(s, gs, d) = PutAwayFor(s, fs, d)
<1>1. ASSUME NEW j \in 1..Len(s) PROVE DefAt(s, gs, j) = DefAt(s, fs, j)
  <2>1. s[j].fr \in K
    BY ElementOfSeq DEF OfFrames
  <2>. QED  BY <2>1 DEF DefAt
<1>2. \A kinds : OpenFor(s, gs, kinds, d) = OpenFor(s, fs, kinds, d)
  BY <1>1 DEF OpenFor
<1>. QED  BY <1>2 DEF PutAwayFor

\* What is put away for x.
Branches == {"else", "endif", "case", "default"}
Weight(x) == CASE x.do = "endif" -> 2 [] x.do \in Branches \ {"endif"} -> 1 [] OTHER -> 0

\* One item on top adds at most itself to those that are open.
LEMMA OpenPushed ==
    ASSUME NEW S, NEW K, OfFrames(S, K), NEW x \in S, NEW s \in Seq(S),
           NEW fs, NEW gs, Sets(x, fs, gs, K), NEW d, NEW kinds
    PROVE  /\ Cardinality(OpenFor(s, gs, kinds, d)) \in Nat
           /\ Cardinality(OpenFor(<<x>> \o s, fs, kinds, d)) =
                 Cardinality(OpenFor(s, gs, kinds, d))
                 + (IF x.do \in kinds /\ fs[x.fr].def = d THEN 1 ELSE 0)
<1>. DEFINE v == <<x>> \o s
            T == OpenFor(s, gs, kinds, d)
            U == {j + 1 : j \in T}
<1>1. /\ Len(s) \in Nat /\ Len(v) = Len(s) + 1 /\ v[1] = x
      /\ \A k \in 1..Len(s) : v[k + 1] = s[k]
  BY BeforeAt
<1>2. \A j \in 1..Len(s) : DefAt(v, fs, j + 1) = DefAt(s, gs, j)
  BY DefBelow
<1>. HIDE DEF v
<1>3. DefAt(v, fs, 1) = fs[x.fr].def
  <2>1. {i \in 1..(1-1) : v[i].do = "back" /\ v[i].fr = v[1].fr} = {}
    OBVIOUS
  <2>. QED  BY <1>1, <2>1 DEF DefAt
<1>4. OpenFor(v, fs, kinds, d) =
         IF x.do \in kinds /\ fs[x.fr].def = d THEN U \cup {1} ELSE U
  <2>1. 1 \in OpenFor(v, fs, kinds, d) <=> x.do \in kinds /\ fs[x.fr].def = d
    BY <1>1, <1>3 DEF OpenFor
  <2>2. ASSUME NEW k \in OpenFor(v, fs, kinds, d), k # 1 PROVE k \in U
    <3>1. k - 1 \in 1..Len(s) /\ k = (k - 1) + 1
      BY <1>1, <2>2 DEF OpenFor
    <3>2. v[k] = s[k - 1] /\ DefAt(v, fs, k) = DefAt(s, gs, k - 1)
      BY <1>1, <1>2, <3>1
    <3>3. k - 1 \in T
      BY <2>2, <3>1, <3>2 DEF OpenFor
    <3>. QED  BY <3>1, <3>3
  <2>3. ASSUME NEW j \in T PROVE j + 1 \in OpenFor(v, fs, kinds, d)
    <3>1. j \in 1..Len(s)
      BY DEF OpenFor
    <3>2. v[j + 1] = s[j] /\ DefAt(v, fs, j + 1) = DefAt(s, gs, j) /\ j + 1 \in 1..Len(v)
      BY <1>1, <1>2, <3>1
    <3>. QED  BY <3>2 DEF OpenFor
  <2>4. 1 \notin U
    BY DEF OpenFor
  <2>. HIDE DEF T
  <2>. QED  BY <2>1, <2>2, <2>3, <2>4
<1>5. T \subseteq 1..Len(s)
  BY DEF OpenFor
<1>. HIDE DEF T
<1>6. /\ Cardinality(T) \in Nat /\ Cardinality(U) = Cardinality(T)
      /\ Cardinality(U \cup {1}) = Cardinality(T) + 1
  BY <1>1, <1>5, Shifted
<1>. HIDE DEF U
<1>. QED  BY <1>4, <1>6 DEF v, T

\* One item on top adds its weight to what is put away for the definition of its
\* frame.
LEMMA CountPushed ==
    ASSUME NEW S, NEW K, OfFrames(S, K), NEW x \in S, NEW s \in Seq(S),
           NEW fs, NEW gs, Sets(x, fs, gs, K), NEW d
    PROVE  /\ PutAwayFor(s, gs, d) \in Nat
           /\ PutAwayFor(<<x>> \o s, fs, d) =
                 PutAwayFor(s, gs, d) + (IF fs[x.fr].def = d THEN Weight(x) ELSE 0)
<1>. DEFINE m == Cardinality(OpenFor(s, gs, Branches, d))
            n == Cardinality(OpenFor(s, gs, {"endif"}, d))
            v == <<x>> \o s
<1>1. /\ m \in Nat
      /\ Cardinality(OpenFor(v, fs, Branches, d)) =
            m + (IF x.do \in Branches /\ fs[x.fr].def = d THEN 1 ELSE 0)
  BY OpenPushed
<1>2. /\ n \in Nat
      /\ Cardinality(OpenFor(v, fs, {"endif"}, d)) =
            n + (IF x.do \in {"endif"} /\ fs[x.fr].def = d THEN 1 ELSE 0)
  BY OpenPushed
<1>. HIDE DEF m, n, v
<1>3. PutAwayFor(s, gs, d) = m + n
  BY DEF PutAwayFor, m, n, Branches
<1>4. PutAwayFor(v, fs, d) =
        Cardinality(OpenFor(v, fs, Branches, d)) + Cardinality(OpenFor(v, fs, {"endif"}, d))
  BY DEF PutAwayFor, Branches
<1>. QED  BY <1>1, <1>2, <1>3, <1>4 DEF Weight, Branches, v

\* The definitions ds have as many lists put away as the work s asks for, and n more
\* for d.
Owing(s, fs, ds, d, n) ==
    \A k \in 1..Len(ds) : Len(ds[k].stack) = PutAwayFor(s, fs, k) + (IF k = d THEN n ELSE 0)
Matched(s, fs, ds) == \A k \in 1..Len(ds) : Len(ds[k].stack) = PutAwayFor(s, fs, k)

\* What a definition is owed, an item of that weight on top asks for.
LEMMA PushMatched ==
    ASSUME NEW S, NEW K, OfFrames(S, K), NEW x \in S, NEW s \in Seq(S),
           NEW fs, NEW gs, Sets(x, fs, gs, K), NEW ds,
           Owing(s, gs, ds, fs[x.fr].def, Weight(x))
    PROVE  Matched(<<x>> \o s, fs, ds)
<1>1. ASSUME NEW k \in 1..Len(ds)
      PROVE  Len(ds[k].stack) = PutAwayFor(<<x>> \o s, fs, k)
  <2>1. /\ PutAwayFor(s, gs, k) \in Nat
        /\ PutAwayFor(<<x>> \o s, fs, k) =
             PutAwayFor(s, gs, k) + (IF fs[x.fr].def = k THEN Weight(x) ELSE 0)
    BY CountPushed
  <2>. QED  BY <2>1 DEF Owing
<1>. QED  BY <1>1 DEF Matched

\* Without the item on top, the definition of its frame is owed its weight.
LEMMA PopMatched ==
    ASSUME NEW S, NEW K, OfFrames(S, K), NEW x \in S, NEW s \in Seq(S),
           NEW fs, NEW gs, Sets(x, fs, gs, K), NEW ds, Matched(<<x>> \o s, fs, ds)
    PROVE  Owing(s, gs, ds, fs[x.fr].def, Weight(x))
<1>1. ASSUME NEW k \in 1..Len(ds)
      PROVE  Len(ds[k].stack) = PutAwayFor(s, gs, k) + (IF k = fs[x.fr].def THEN Weight(x) ELSE 0)
  <2>1. /\ PutAwayFor(s, gs, k) \in Nat
        /\ PutAwayFor(<<x>> \o s, fs, k) =
             PutAwayFor(s, gs, k) + (IF fs[x.fr].def = k THEN Weight(x) ELSE 0)
    BY CountPushed
  <2>. QED  BY <2>1 DEF Matched
<1>. QED  BY <1>1 DEF Owing

\* What is put away is a number.
LEMMA CountIsNat ==
    ASSUME NEW S, NEW K, OfFrames(S, K), NEW s \in Seq(S), NEW fs, NEW d
    PROVE  PutAwayFor(s, fs, d) \in Nat
<1>1. Len(s) \in Nat
  BY LenProperties
<1>2. ASSUME NEW kinds PROVE Cardinality(OpenFor(s, fs, kinds, d)) \in Nat
  <2>1. OpenFor(s, fs, kinds, d) \subseteq 1..Len(s)
    BY DEF OpenFor
  <2>. QED  BY <1>1, <2>1, Shifted
<1>. QED  BY <1>2 DEF PutAwayFor

\* When nothing is owed, everything matches.
LEMMA NothingOwed ==
    ASSUME NEW S, NEW K, OfFrames(S, K), NEW s \in Seq(S), NEW fs, NEW ds, NEW d
    PROVE  Owing(s, fs, ds, d, 0) <=> Matched(s, fs, ds)
<1>1. \A k \in 1..Len(ds) : PutAwayFor(s, fs, k) \in Nat
  BY CountIsNat
<1>. QED  BY <1>1 DEF Owing, Matched

\* Only the definitions of the frames matter to what is put away.
LEMMA SameDefsMatched ==
    ASSUME NEW S, NEW K, OfFrames(S, K), NEW s \in Seq(S), NEW fs, NEW gs,
           \A k \in K : gs[k].def = fs[k].def, NEW ds, Matched(s, fs, ds)
    PROVE  Matched(s, gs, ds)
<1>1. \A k \in 1..Len(ds) : PutAwayFor(s, gs, k) = PutAwayFor(s, fs, k)
  BY SameDefs
<1>. QED  BY <1>1 DEF Matched

\* A stack with nothing on it asks for nothing.
LEMMA NothingPutAway ==
    ASSUME NEW fs, NEW d
    PROVE  PutAwayFor(<< >>, fs, d) = 0
<1>1. \A kinds : OpenFor(<< >>, fs, kinds, d) = {}
  BY DEF OpenFor
<1>2. \A kinds : Cardinality(OpenFor(<< >>, fs, kinds, d)) = 0
  BY <1>1, FS_EmptySet, Zenon
<1>. QED  BY <1>2 DEF PutAwayFor

-----------------------------------------------------------------------------
(* Definitions. *)

\* Of the definitions ds, the stack of d has become n longer.
Stacked(ds, es, d, n) ==
    /\ AreDefs(es) /\ Len(es) = Len(ds)
    /\ \A k \in 1..Len(ds) : Len(es[k].stack) = Len(ds[k].stack) + (IF k = d THEN n ELSE 0)

\* The lists put away of a definition are a sequence.
LEMMA StackLength ==
    ASSUME NEW ds, AreDefs(ds), NEW d \in 1..Len(ds)
    PROVE  /\ Len(ds[d].stack) \in Nat /\ IsSeq(ds[d].stack) /\ Len(ds) \in Nat
           /\ ds[d] = [name |-> ds[d].name, stmts |-> ds[d].stmts, stack |-> ds[d].stack]
BY DEF AreDefs, IsDef, IsSeq

\* A definition replaced by one with n lists more put away.
LEMMA DefChanged ==
    ASSUME NEW ds, AreDefs(ds), NEW d \in 1..Len(ds), NEW n \in Int,
           NEW e, IsDef(e), Len(e.stack) = Len(ds[d].stack) + n
    PROVE  Stacked(ds, Put(ds, d, e), d, n)
<1>. DEFINE es == Put(ds, d, e)
<1>1. IsSeq(ds)
  BY DEF AreDefs
<1>2. IsSeq(es) /\ Len(es) = Len(ds) /\ es[d] = e /\ \A k \in 1..Len(ds) : k # d => es[k] = ds[k]
  BY <1>1, Replaced
<1>. HIDE DEF es
<1>3. AreDefs(es)
  BY <1>2 DEF AreDefs
<1>4. \A k \in 1..Len(ds) : Len(ds[k].stack) \in Nat
  BY StackLength
<1>5. ASSUME NEW k \in 1..Len(ds)
      PROVE  Len(es[k].stack) = Len(ds[k].stack) + (IF k = d THEN n ELSE 0)
  <2>1. CASE k = d
    BY <1>2, <2>1
  <2>2. CASE k # d
    BY <1>2, <1>4, <2>2
  <2>. QED  BY <2>1, <2>2
<1>6. Stacked(ds, es, d, n)
  BY <1>2, <1>3, <1>5 DEF Stacked
<1>. QED  BY <1>6 DEF es

\* New statements of a definition put nothing away.
LEMMA StmtsSet ==
    ASSUME NEW ds, AreDefs(ds), NEW d \in 1..Len(ds), NEW ss
    PROVE  Stacked(ds, [ds EXCEPT ![d].stmts = ss], d, 0)
<1>. DEFINE e == [name |-> ds[d].name, stmts |-> ss, stack |-> ds[d].stack]
<1>1. /\ Len(ds[d].stack) \in Nat /\ IsSeq(ds[d].stack)
      /\ ds[d] = [name |-> ds[d].name, stmts |-> ds[d].stmts, stack |-> ds[d].stack]
  BY StackLength
<1>2. IsDef(e) /\ Len(e.stack) = Len(ds[d].stack) + 0
  BY <1>1 DEF IsDef
<1>3. [ds EXCEPT ![d].stmts = ss] = Put(ds, d, e)
  <2>1. [ds[d] EXCEPT !.stmts = ss] = e
    BY <1>1
  <2>. HIDE DEF e
  <2>. QED  BY <2>1 DEF Put
<1>. HIDE DEF e
<1>4. Stacked(ds, Put(ds, d, e), d, 0)
  BY <1>2, DefChanged
<1>. QED  BY <1>3, <1>4, Zenon

Rewritten(ds, d, ss, st) == [ds EXCEPT ![d].stmts = ss, ![d].stack = st]

\* New statements, and n lists more put away.
LEMMA BothSet ==
    ASSUME NEW ds, AreDefs(ds), NEW d \in 1..Len(ds), NEW ss, NEW st, IsSeq(st),
           NEW n \in Int, Len(st) = Len(ds[d].stack) + n
    PROVE  Stacked(ds, Rewritten(ds, d, ss, st), d, n)
<1>. DEFINE e == [name |-> ds[d].name, stmts |-> ss, stack |-> st]
<1>1. ds[d] = [name |-> ds[d].name, stmts |-> ds[d].stmts, stack |-> ds[d].stack]
  BY StackLength
<1>2. IsDef(e) /\ Len(e.stack) = Len(ds[d].stack) + n
  BY DEF IsDef
<1>3. Rewritten(ds, d, ss, st) = Put(ds, d, e)
  <2>1. [[ds[d] EXCEPT !.stmts = ss] EXCEPT !.stack = st] = e
    <3>1. [ds[d] EXCEPT !.stmts = ss] =
             [name |-> ds[d].name, stmts |-> ss, stack |-> ds[d].stack]
      BY <1>1
    <3>2. [[name |-> ds[d].name, stmts |-> ss, stack |-> ds[d].stack] EXCEPT !.stack = st] = e
      OBVIOUS
    <3>. QED  BY <3>1, <3>2, Zenon
  <2>2. IsSeq(ds) /\ DOMAIN ds = 1..Len(ds)
    BY Tabled DEF AreDefs
  <2>. HIDE DEF e
  <2>. QED  BY <2>1, <2>2 DEF Put, Rewritten
<1>. HIDE DEF e
<1>4. Stacked(ds, Put(ds, d, e), d, n)
  BY <1>2, DefChanged
<1>. QED  BY <1>3, <1>4, Zenon

\* The functions of the model.
LEMMA Lists ==
    ASSUME AreDefs(defs), NEW d \in 1..Len(defs)
    PROVE  /\ \A ss : Stacked(defs, AddStmts(d, ss), d, 0)
           /\ Stacked(defs, PutAway(d), d, 1)
           /\ Len(defs[d].stack) >= 1 => \A ss : Stacked(defs, Restored(d, ss), d, -1)
<1>1. /\ Len(defs[d].stack) \in Nat /\ IsSeq(defs[d].stack)
  BY StackLength
<1>2. \A ss : Stacked(defs, AddStmts(d, ss), d, 0)
  BY StmtsSet DEF AddStmts
<1>3. Stacked(defs, PutAway(d), d, 1)
  <2>. DEFINE st == Append(defs[d].stack, defs[d].stmts)
  <2>1. IsSeq(st) /\ Len(st) = Len(defs[d].stack) + 1
    BY <1>1, Appended
  <2>2. PutAway(d) = Rewritten(defs, d, << >>, st)
    BY StackLength DEF PutAway, Rewritten
  <2>. HIDE DEF st
  <2>3. \A ss : Stacked(defs, Rewritten(defs, d, ss, st), d, 1)
    BY <2>1, BothSet
  <2>. QED  BY <2>2, <2>3, Zenon
<1>4. ASSUME Len(defs[d].stack) >= 1, NEW ss PROVE Stacked(defs, Restored(d, ss), d, -1)
  <2>. DEFINE st == Front(defs[d].stack)
              tt == Last(defs[d].stack) \o ss
  <2>1. IsSeq(st) /\ Len(st) = Len(defs[d].stack) + (-1)
    BY <1>1, <1>4, Fronted
  <2>2. Restored(d, ss) = Rewritten(defs, d, tt, st)
    BY StackLength DEF Restored, Rewritten
  <2>. HIDE DEF st, tt
  <2>3. Stacked(defs, Rewritten(defs, d, tt, st), d, -1)
    BY <1>1, <2>1, BothSet
  <2>. QED  BY <2>2, <2>3, Zenon
<1>. QED  BY <1>2, <1>3, <1>4

\* What is put away for a definition is owed to it.
LEMMA OwedChanged ==
    ASSUME NEW S, NEW K, OfFrames(S, K), NEW s \in Seq(S), NEW fs, NEW ds, NEW es,
           NEW d, NEW n \in Int, NEW m \in Int, Owing(s, fs, ds, d, m), Stacked(ds, es, d, n)
    PROVE  Owing(s, fs, es, d, m + n)
<1>1. ASSUME NEW k \in 1..Len(es)
      PROVE  Len(es[k].stack) = PutAwayFor(s, fs, k) + (IF k = d THEN m + n ELSE 0)
  <2>1. k \in 1..Len(ds) /\ PutAwayFor(s, fs, k) \in Nat
    BY CountIsNat DEF Stacked
  <2>2. /\ Len(ds[k].stack) = PutAwayFor(s, fs, k) + (IF k = d THEN m ELSE 0)
        /\ Len(es[k].stack) = Len(ds[k].stack) + (IF k = d THEN n ELSE 0)
    BY <2>1 DEF Owing, Stacked
  <2>. QED  BY <2>1, <2>2
<1>. QED  BY <1>1 DEF Owing

\* The definitions of the frames K, and those of items S to be restored, are the first n.
DefsIn(fs, K, n) == \A k \in K : fs[k].def \in 1..n
BacksIn(S, n) == \A w \in S : w.do = "back" => w.at \in 1..n

\* A new definition has nothing put away.
LEMMA NewDefIsDef ==
    ASSUME NEW ds, AreDefs(ds), NEW name
    PROVE  LET es == Append(ds, Def(name))
           IN  /\ AreDefs(es) /\ Len(es) = Len(ds) + 1 /\ Len(ds) \in Nat
               /\ Len(es[Len(ds) + 1].stack) = 0
               /\ \A k \in 1..Len(ds) : es[k] = ds[k]
<1>. DEFINE es == Append(ds, Def(name))
<1>1. /\ IsSeq(es) /\ Len(es) = Len(ds) + 1 /\ es[Len(ds) + 1] = Def(name) /\ Len(ds) \in Nat
      /\ \A k \in 1..Len(ds) : es[k] = ds[k]
  BY Appended DEF AreDefs, IsSeq
<1>. HIDE DEF es
<1>2. IsDef(Def(name)) /\ Len(Def(name).stack) = 0
  <2>1. << >> \in Seq({})
    OBVIOUS
  <2>2. IsSeq(<< >>)
    BY <2>1, IsSeqOf
  <2>. QED  BY <2>2 DEF Def, IsDef
<1>3. AreDefs(es)
  <2>1. \A k \in 1..Len(es) : k \in 1..Len(ds) \/ k = Len(ds) + 1
    BY <1>1
  <2>. QED  BY <1>1, <1>2, <2>1 DEF AreDefs
<1>. QED  BY <1>1, <1>2, <1>3 DEF es

\* A new definition has nothing put away, and nothing asks for it.
LEMMA DefMade ==
    ASSUME NEW S, NEW K, OfFrames(S, K), NEW s \in Seq(S), NEW fs, NEW ds, NEW name,
           AreDefs(ds), Matched(s, fs, ds), DefsIn(fs, K, Len(ds)), BacksIn(S, Len(ds))
    PROVE  /\ AreDefs(Append(ds, Def(name))) /\ Len(Append(ds, Def(name))) = Len(ds) + 1
           /\ Len(ds) \in Nat /\ Matched(s, fs, Append(ds, Def(name)))
<1>. DEFINE es == Append(ds, Def(name))
<1>1. /\ AreDefs(es) /\ Len(es) = Len(ds) + 1 /\ Len(ds) \in Nat
      /\ Len(es[Len(ds) + 1].stack) = 0
      /\ \A k \in 1..Len(ds) : es[k] = ds[k]
  BY NewDefIsDef
<1>. HIDE DEF es
<1>4. PutAwayFor(s, fs, Len(ds) + 1) = 0
  <2>1. \A j \in 1..Len(s) : DefAt(s, fs, j) \in 1..Len(ds)
    <3>. DEFINE D == 1..Len(ds)
    <3>1. (\A k \in K : fs[k].def \in D) /\ (\A w \in S : w.do = "back" => w.at \in D)
      BY DEF DefsIn, BacksIn
    <3>. HIDE DEF D
    <3>2. \A j \in 1..Len(s) : DefAt(s, fs, j) \in D
      BY <3>1, DefsMade
    <3>. QED  BY <3>2 DEF D
  <2>2. \A kinds : OpenFor(s, fs, kinds, Len(ds) + 1) = {}
    BY <1>1, <2>1 DEF OpenFor
  <2>3. \A kinds : Cardinality(OpenFor(s, fs, kinds, Len(ds) + 1)) = 0
    BY <2>2, FS_EmptySet, Zenon
  <2>. QED  BY <2>3 DEF PutAwayFor
<1>5. Matched(s, fs, es)
  <2>1. \A k \in 1..Len(es) : k \in 1..Len(ds) \/ k = Len(ds) + 1
    BY <1>1
  <2>. QED  BY <1>1, <1>4, <2>1 DEF Matched
<1>. QED  BY <1>1, <1>5 DEF es


-----------------------------------------------------------------------------
(* Programs and the work that is left. *)

\* The blocks of a program have instructions.
LEMMA BlockOfProgram ==
    ASSUME NEW p, IsProgram(p), NEW f \in DOMAIN p, NEW b \in 1..Len(p[f])
    PROVE  /\ IsBlock(p, f, b) /\ Len(p[f]) \in Nat
           /\ Len(p[f][b].ins) \in Nat /\ 1 \in 1..Len(p[f][b].ins)
<1>1. IsBlock(p, f, b) /\ Len(p[f]) \in Nat
  BY DEF IsProgram
<1>2. Len(p[f][b].ins) \in Nat \ {0}
  BY <1>1 DEF IsBlock
<1>. QED  BY <1>1, <1>2

\* No frame of fs is lost or shorter in gs, no loop of ls has another frame in ms.
KeepsFrames(fs, gs) ==
    /\ Len(fs) \in Nat /\ Len(gs) \in Nat /\ Len(fs) <= Len(gs)
    /\ \A k \in 1..Len(fs) : /\ gs[k].fn = fs[k].fn
                             /\ Len(fs[k].defers) \in Nat /\ Len(gs[k].defers) \in Nat
                             /\ Len(fs[k].defers) <= Len(gs[k].defers)
KeepsParents(ls, ms) ==
    /\ Len(ls) \in Nat /\ Len(ms) \in Nat /\ Len(ls) <= Len(ms)
    /\ \A l \in 1..Len(ls) : ms[l].parent = ls[l].parent
Within(m, n) == m \in Nat /\ n \in Nat /\ m <= n

\* A frame remains one of a function of the program.
LEMMA CalledStay ==
    ASSUME NEW p, NEW fs, NEW gs, KeepsFrames(fs, gs)
    PROVE  Called(p, fs) \subseteq Called(p, gs)
BY DEF KeepsFrames, Called

\* Work remains possible when frames, loops, definitions and selects are added.
LEMMA WorkStays ==
    ASSUME NEW p, NEW fs, NEW gs, KeepsFrames(fs, gs), NEW ls, NEW ms, KeepsParents(ls, ms),
           NEW nd, NEW ne, Within(nd, ne), NEW ns, NEW nt, Within(ns, nt)
    PROVE  ItemsOf(p, fs, nd, ls, ns) \subseteq ItemsOf(p, gs, ne, ms, nt)
<1>1. SUFFICES ASSUME NEW w \in ItemsOf(p, fs, nd, ls, ns)
               PROVE  w \in ItemsOf(p, gs, ne, ms, nt)
  OBVIOUS
<1>2. w \in [do : WorkKind, fr : Called(p, fs), b : Nat, i : Nat, loop : 1..Len(ls), at : Nat]
  BY DEF ItemsOf
<1>3. w.fr \in 1..Len(fs) /\ w.loop \in 1..Len(ls) /\ w.i \in Nat /\ w.at \in Nat
  BY <1>2 DEF Called
<1>4. w \in [do : WorkKind, fr : Called(p, gs), b : Nat, i : Nat, loop : 1..Len(ms), at : Nat]
  BY <1>2, CalledStay DEF KeepsParents
<1>5. gs[w.fr].fn = fs[w.fr].fn /\ ms[w.loop].parent = ls[w.loop].parent
  BY <1>3 DEF KeepsFrames, KeepsParents
<1>6. /\ w.do = "defers" => w.i <= Len(gs[w.fr].defers)
      /\ w.do \in {"case", "default"} => w.at \in 1..nt
      /\ w.do \in {"called", "deferred"} => w.at \in 1..Len(gs)
      /\ w.do = "back" => w.at \in 1..ne
  <2>1. /\ w.do = "defers" => w.i <= Len(fs[w.fr].defers)
        /\ w.do \in {"case", "default"} => w.at \in 1..ns
        /\ w.do \in {"called", "deferred"} => w.at \in 1..Len(fs)
        /\ w.do = "back" => w.at \in 1..nd
    BY DEF ItemsOf
  <2>2. /\ Len(fs[w.fr].defers) \in Nat /\ Len(gs[w.fr].defers) \in Nat
        /\ Len(fs[w.fr].defers) <= Len(gs[w.fr].defers)
        /\ Len(fs) \in Nat /\ Len(gs) \in Nat /\ Len(fs) <= Len(gs)
    BY <1>3 DEF KeepsFrames
  <2>3. w.do = "defers" => w.i <= Len(gs[w.fr].defers)
    BY <1>3, <2>1, <2>2
  <2>4. ns \in Nat /\ nt \in Nat /\ ns <= nt /\ nd \in Nat /\ ne \in Nat /\ nd <= ne
    BY DEF Within
  <2>5. w.at \in 1..ns => w.at \in 1..nt
    BY <1>3, <2>4
  <2>6. w.at \in 1..Len(fs) => w.at \in 1..Len(gs)
    BY <1>3, <2>2
  <2>7. w.at \in 1..nd => w.at \in 1..ne
    BY <1>3, <2>4
  <2>. QED  BY <2>1, <2>3, <2>5, <2>6, <2>7, Zenon
<1>7. LET ins == p[fs[w.fr].fn][w.b].ins
      IN  /\ w.b \in 1..Len(p[fs[w.fr].fn])
          /\ ls[w.loop].parent = w.fr
          /\ w.do \notin {"block", "defers", "deferred"} => w.i \in 1..Len(ins)
          /\ w.do \in {"else", "endif", "case", "default"} => ins[w.i].op \in Branching
  BY DEF ItemsOf
<1>. QED  BY <1>4, <1>5, <1>6, <1>7, Zenon DEF ItemsOf

\* What is known of an item of work.
LEMMA FieldsOfItem ==
    ASSUME NEW p, NEW fs, NEW nd, NEW ls, NEW ns, NEW w \in ItemsOf(p, fs, nd, ls, ns)
    PROVE  /\ w \in [do : WorkKind, fr : Called(p, fs), b : Nat, i : Nat, loop : 1..Len(ls),
                     at : Nat]
           /\ w.fr \in 1..Len(fs) /\ fs[w.fr].fn \in DOMAIN p
           /\ w.b \in 1..Len(p[fs[w.fr].fn]) /\ ls[w.loop].parent = w.fr
           /\ w.do \notin {"block", "defers", "deferred"} =>
                 w.i \in 1..Len(p[fs[w.fr].fn][w.b].ins)
           /\ w.do \in {"else", "endif", "case", "default"} =>
                 p[fs[w.fr].fn][w.b].ins[w.i].op \in Branching
<1>1. w \in [do : WorkKind, fr : Called(p, fs), b : Nat, i : Nat, loop : 1..Len(ls), at : Nat]
  BY DEF ItemsOf
<1>2. w.fr \in 1..Len(fs) /\ fs[w.fr].fn \in DOMAIN p
  BY <1>1 DEF Called
<1>. QED  BY <1>1, <1>2, Zenon DEF ItemsOf

\* The frames of the work.
LEMMA ItemsOfFrames ==
    ASSUME NEW p, NEW fs, NEW nd, NEW ls, NEW ns
    PROVE  /\ OfFrames(ItemsOf(p, fs, nd, ls, ns), Called(p, fs))
           /\ \A w \in ItemsOf(p, fs, nd, ls, ns) : w.do = "back" => w.at \in 1..nd
BY DEF OfFrames, ItemsOf

\* What is known of a frame.
LEMMA FramesFields ==
    ASSUME NEW p, NEW fs, NEW nd, NEW ls, NEW ns, AreFrames(p, fs, nd, ls, ns),
           NEW k \in 1..Len(fs)
    PROVE  /\ fs \in Seq(FrameOf(p)) /\ Len(fs) \in Nat /\ fs[k] \in FrameOf(p)
           /\ Len(fs[k].defers) \in Nat /\ fs[k].def \in 1..nd
           /\ fs[k].loopstack \in Seq(LoopsOf(ls, k))
<1>1. fs \in Seq(FrameOf(p)) /\ Len(fs) \in Nat
  BY LenProperties DEF AreFrames
<1>2. fs[k] \in FrameOf(p)
  BY <1>1, ElementOfSeq
<1>3. Len(fs[k].defers) \in Nat
  BY <1>2, LenProperties DEF FrameOf
<1>. QED  BY <1>1, <1>2, <1>3 DEF AreFrames

\* The top of the work, what it refers to, and what is left below it.
LEMMA AtTop ==
    ASSUME IInv, Running
    PROVE  /\ Top \in Items /\ Pop \in Seq(Items) /\ work = <<Top>> \o Pop
           /\ IsProgram(prog) /\ IsBlock(prog, Fn, Top.b)
           /\ Top \in [do : WorkKind, fr : Called(prog, frames), b : Nat, i : Nat,
                       loop : 1..Len(loops), at : Nat]
           /\ Top.fr \in 1..Len(frames) /\ Fn \in DOMAIN prog /\ Top.b \in 1..Len(prog[Fn])
           /\ Fr \in FrameOf(prog) /\ Fr.def \in 1..Len(defs)
           /\ Len(prog[Fn][Top.b].ins) \in Nat
           /\ Top.loop \in 1..Len(loops) /\ L.parent = Top.fr /\ IsLoop(L)
           /\ Matched(work, frames, defs) /\ AreDefs(defs) /\ pc \in {"main", "gortns"}
           /\ OfFrames(Items, Called(prog, frames))
<1>1. work \in Seq(Items) /\ work # << >> /\ IsProgram(prog) /\ pc \in {"main", "gortns"}
  BY DEF IInv, Running
<1>2. Top \in Items /\ Pop \in Seq(Items) /\ work = <<Top>> \o Pop
  BY <1>1, HeadBefore DEF Top, Pop
<1>3. /\ Top \in [do : WorkKind, fr : Called(prog, frames), b : Nat, i : Nat,
                  loop : 1..Len(loops), at : Nat]
      /\ Top.fr \in 1..Len(frames) /\ Fn \in DOMAIN prog /\ Top.b \in 1..Len(prog[Fn])
      /\ L.parent = Top.fr
  BY <1>2, FieldsOfItem DEF Items, Fn, Fr, L
<1>4. IsBlock(prog, Fn, Top.b) /\ Len(prog[Fn][Top.b].ins) \in Nat
  BY <1>1, <1>3, BlockOfProgram
<1>5. Fr \in FrameOf(prog) /\ Fr.def \in 1..Len(defs)
  BY <1>3, FramesFields DEF IInv, Fr
<1>6. Top.loop \in 1..Len(loops) /\ IsLoop(L)
  BY <1>3 DEF IInv, AreLoops, L
<1>7. Matched(work, frames, defs) /\ AreDefs(defs)
  <2>1. DOMAIN defs = 1..Len(defs)
    BY Tabled DEF IInv, AreDefs
  <2>. QED  BY <2>1 DEF IInv, PutAwaysMatch, Matched
<1>8. OfFrames(Items, Called(prog, frames))
  BY ItemsOfFrames DEF Items
<1>. QED  BY <1>1, <1>2, <1>3, <1>4, <1>5, <1>6, <1>7, <1>8


\* What an instruction says of the successors of its block.
LEMMA AtInstruction ==
    ASSUME IInv, Running, Top.do \notin {"block", "defers", "deferred"}
    PROVE  /\ Top.i \in 1..Len(prog[Fn][Top.b].ins)
           /\ CalledBy(Cur) \subseteq DOMAIN prog /\ NumbersOf(Cur) \subseteq Int
           /\ Cur.op \in Branching => Len(prog[Fn][Top.b].succs) = 2
           /\ Cur.op = "jump" => Len(prog[Fn][Top.b].succs) = 1
           /\ Top.do \in Branches => Cur.op \in Branching
<1>1. Top \in Items /\ IsBlock(prog, Fn, Top.b)
  BY AtTop
<1>2. /\ Top.i \in 1..Len(prog[Fn][Top.b].ins)
      /\ Top.do \in Branches => Cur.op \in Branching
  BY <1>1, FieldsOfItem DEF Items, Fn, Fr, Cur, Branches
<1>. QED  BY <1>1, <1>2, Zenon DEF IsBlock, Cur

\* The visit of a successor.
LEMMA SuccIsWork ==
    ASSUME IInv, Running, NEW k \in 1..Len(prog[Fn][Top.b].succs)
    PROVE  Succ(k) \in Items /\ Succ(k).do = "block" /\ Succ(k).fr = Top.fr
<1>1. /\ Top \in Items /\ IsBlock(prog, Fn, Top.b) /\ Fn \in DOMAIN prog
      /\ Top \in [do : WorkKind, fr : Called(prog, frames), b : Nat, i : Nat,
                  loop : 1..Len(loops), at : Nat]
      /\ L.parent = Top.fr
  BY AtTop
<1>2. SuccOf(k) \in 1..Len(prog[Fn])
  BY <1>1, Zenon DEF IsBlock, SuccOf
<1>3. SuccOf(k) \in Nat
  BY <1>2
<1>. DEFINE w == Succ(k)
<1>4. /\ w \in [do : WorkKind, fr : Called(prog, frames), b : Nat, i : Nat,
                loop : 1..Len(loops), at : Nat]
      /\ w.do = "block" /\ w.fr = Top.fr /\ w.b = SuccOf(k) /\ w.loop = Top.loop
  BY <1>1, <1>3 DEF Succ, Item, WorkKind
<1>. HIDE DEF w
<1>5. w \in Items
  BY <1>1, <1>2, <1>4 DEF Items, ItemsOf, Fn, Fr, L
<1>. QED  BY <1>4, <1>5 DEF w

\* What is done after a visit.
LEMMA ThenIsWork ==
    ASSUME NEW p, NEW fs, NEW nd, NEW ls, NEW ns, Top \in ItemsOf(p, fs, nd, ls, ns),
           NEW do \in WorkKind \ {"defers"}, NEW at \in Nat,
           do \notin {"block", "deferred"} => Top.do \notin {"block", "defers", "deferred"},
           do \in Branches => p[fs[Top.fr].fn][Top.b].ins[Top.i].op \in Branching,
           do \in {"case", "default"} => at \in 1..ns,
           do \in {"called", "deferred"} => at \in 1..Len(fs),
           do = "back" => at \in 1..nd
    PROVE  /\ Then(do, at) \in ItemsOf(p, fs, nd, ls, ns)
           /\ Then(do, at).do = do /\ Then(do, at).fr = Top.fr
<1>1. Top \in [do : WorkKind, fr : Called(p, fs), b : Nat, i : Nat, loop : 1..Len(ls), at : Nat]
  BY FieldsOfItem
<1>2. /\ Top.b \in 1..Len(p[fs[Top.fr].fn]) /\ ls[Top.loop].parent = Top.fr
      /\ Top.do \notin {"block", "defers", "deferred"} =>
            Top.i \in 1..Len(p[fs[Top.fr].fn][Top.b].ins)
  BY FieldsOfItem
<1>. DEFINE w == Then(do, at)
<1>3. /\ w \in [do : WorkKind, fr : Called(p, fs), b : Nat, i : Nat, loop : 1..Len(ls), at : Nat]
      /\ w.do = do /\ w.fr = Top.fr /\ w.b = Top.b /\ w.i = Top.i /\ w.loop = Top.loop
      /\ w.at = at
  BY <1>1 DEF Then
<1>. HIDE DEF w
<1>4. w \in ItemsOf(p, fs, nd, ls, ns)
  BY <1>2, <1>3 DEF ItemsOf, Branches
<1>. QED  BY <1>3, <1>4 DEF w

\* So is the item that hands a definition back.
LEMMA BackIsWork ==
    ASSUME NEW p, NEW fs, NEW nd \in Nat, NEW ls, NEW ns, Top \in ItemsOf(p, fs, nd, ls, ns),
           Top.do \notin {"block", "defers", "deferred"}, NEW at \in 1..nd
    PROVE  /\ Then("back", at) \in ItemsOf(p, fs, nd, ls, ns)
           /\ Then("back", at).do = "back" /\ Then("back", at).fr = Top.fr
<1>1. "back" \in WorkKind \ {"defers"} /\ "back" \notin Branches /\ at \in Nat
  BY DEF WorkKind, Branches
<1>. QED  BY <1>1, ThenIsWork

\* After an instruction that is not the last one of its block comes the next.
LEMMA NextIsWork ==
    ASSUME NEW p, NEW fs, NEW nd, NEW ls, NEW ns, NEW w \in ItemsOf(p, fs, nd, ls, ns),
           NEW n \in Nat, n = Len(p[fs[w.fr].fn][w.b].ins), w.do = "ins", w.i # n
    PROVE  /\ [w EXCEPT !.i = @ + 1] \in ItemsOf(p, fs, nd, ls, ns)
           /\ [w EXCEPT !.i = @ + 1].do = "ins" /\ [w EXCEPT !.i = @ + 1].fr = w.fr
<1>. DEFINE v == [w EXCEPT !.i = @ + 1]
<1>1. w \in [do : WorkKind, fr : Called(p, fs), b : Nat, i : Nat, loop : 1..Len(ls), at : Nat]
  BY FieldsOfItem
<1>2. /\ w.i \in 1..n /\ w.b \in 1..Len(p[fs[w.fr].fn]) /\ ls[w.loop].parent = w.fr
  <2>. HIDE DEF v
  <2>1. /\ w.b \in 1..Len(p[fs[w.fr].fn]) /\ ls[w.loop].parent = w.fr
        /\ w.do \notin {"block", "defers", "deferred"} =>
              w.i \in 1..Len(p[fs[w.fr].fn][w.b].ins)
    BY DEF ItemsOf
  <2>2. w.do \notin {"block", "defers", "deferred"}
    OBVIOUS
  <2>. QED  BY <2>1, <2>2, Zenon
<1>3. /\ v \in [do : WorkKind, fr : Called(p, fs), b : Nat, i : Nat, loop : 1..Len(ls), at : Nat]
      /\ v.do = "ins" /\ v.fr = w.fr /\ v.b = w.b /\ v.i = w.i + 1 /\ v.loop = w.loop
  BY <1>1
<1>. HIDE DEF v
<1>4. w.i + 1 \in 1..n
  BY <1>2
<1>5. v \in ItemsOf(p, fs, nd, ls, ns)
  BY <1>2, <1>3, <1>4 DEF ItemsOf
<1>. QED  BY <1>3, <1>5 DEF v

-----------------------------------------------------------------------------
(* Steps on the top of the work. *)

\* What the top had put away is owed once it is taken off.
LEMMA TopOwes ==
    ASSUME IInv, Running, Top.do # "back"
    PROVE  Owing(Pop, frames, defs, Fr.def, Weight(Top))
<1>. DEFINE K == Called(prog, frames)
<1>1. /\ Top \in Items /\ Pop \in Seq(Items) /\ Matched(<<Top>> \o Pop, frames, defs)
      /\ OfFrames(Items, K)
  BY AtTop, Zenon
<1>2. Sets(Top, frames, frames, K)
  BY DEF Sets
<1>. HIDE DEF K
<1>3. Owing(Pop, frames, defs, frames[Top.fr].def, Weight(Top))
  BY <1>1, <1>2, PopMatched
<1>. QED  BY <1>3 DEF Fr

\* Frames may be added, but keep their definitions.
KeepsDefs(fs, gs) == \A k \in 1..Len(fs) : gs[k].def = fs[k].def

\* A step from the top to items of the same frame, with new frames or without.
LEMMA StepOn ==
    ASSUME IInv, Running, Top.do # "back",
           NEW fs, NEW ls, NEW ds, NEW ns, NEW n \in Int,
           Stacked(defs, ds, Fr.def, n), KeepsDefs(frames, fs),
           Items \subseteq ItemsOf(prog, fs, Len(ds), ls, ns)
    PROVE  /\ Pop \in Seq(ItemsOf(prog, fs, Len(ds), ls, ns))
           /\ Weight(Top) + n = 0 => Matched(Pop, fs, ds)
           /\ \A y \in ItemsOf(prog, fs, Len(ds), ls, ns) :
                 y.do # "back" /\ y.fr = Top.fr /\ Weight(y) = Weight(Top) + n =>
                    Matched(<<y>> \o Pop, fs, ds)
<1>. DEFINE S == ItemsOf(prog, fs, Len(ds), ls, ns)
            K == Called(prog, fs)
            m == Weight(Top)
<1>1. /\ Pop \in Seq(Items) /\ OfFrames(Items, Called(prog, frames))
      /\ Top.fr \in 1..Len(frames)
  BY AtTop
<1>2. Pop \in Seq(S)
  BY <1>1, SeqMonotonic
<1>3. OfFrames(S, K)
  BY ItemsOfFrames
<1>4. Owing(Pop, frames, defs, Fr.def, m)
  BY TopOwes
<1>5. m \in Int
  BY DEF Weight
<1>. HIDE DEF S, K, m
<1>6. Owing(Pop, frames, ds, Fr.def, m + n)
  BY <1>1, <1>4, <1>5, OwedChanged
<1>7. Owing(Pop, fs, ds, Fr.def, m + n)
  <2>1. \A k \in Called(prog, frames) : fs[k].def = frames[k].def
    BY DEF KeepsDefs, Called
  <2>2. \A d : PutAwayFor(Pop, fs, d) = PutAwayFor(Pop, frames, d)
    BY <1>1, <2>1, SameDefs
  <2>. QED  BY <1>6, <2>2 DEF Owing
<1>8. fs[Top.fr].def = Fr.def
  BY <1>1 DEF KeepsDefs, Fr
<1>9. m + n = 0 => Matched(Pop, fs, ds)
  <2>1. ASSUME m + n = 0 PROVE Owing(Pop, fs, ds, Fr.def, 0)
    <3>1. m + n = 0
      BY <1>5, <2>1
    <3>. QED  BY <1>7, <3>1
  <2>. QED  BY <1>2, <1>3, <2>1, NothingOwed
<1>10. ASSUME NEW y \in S, y.do # "back", y.fr = Top.fr, Weight(y) = m + n
       PROVE  Matched(<<y>> \o Pop, fs, ds)
  <2>1. Sets(y, fs, fs, K)
    BY <1>10 DEF Sets
  <2>2. Owing(Pop, fs, ds, fs[y.fr].def, Weight(y))
    BY <1>7, <1>8, <1>10
  <2>. QED  BY <1>2, <1>3, <2>1, <2>2, PushMatched
<1>. QED  BY <1>2, <1>9, <1>10 DEF S, m

\* A visit that is about to start has nothing put away.
LEMMA NothingPushed ==
    ASSUME NEW p, NEW fs, NEW ls, NEW ds, NEW ns, NEW nd,
           NEW s \in Seq(ItemsOf(p, fs, nd, ls, ns)), NEW z \in ItemsOf(p, fs, nd, ls, ns),
           z.do # "back", Weight(z) = 0, Matched(s, fs, ds)
    PROVE  Matched(<<z>> \o s, fs, ds) /\ <<z>> \o s \in Seq(ItemsOf(p, fs, nd, ls, ns))
<1>. DEFINE S == ItemsOf(p, fs, nd, ls, ns)
            K == Called(p, fs)
<1>1. OfFrames(S, K)
  BY ItemsOfFrames
<1>2. Sets(z, fs, fs, K)
  BY DEF Sets
<1>. HIDE DEF S, K
<1>3. s \in Seq(S) /\ z \in S
  BY DEF S
<1>4. Owing(s, fs, ds, fs[z.fr].def, 0)
  BY <1>1, <1>3, NothingOwed
<1>5. Matched(<<z>> \o s, fs, ds)
  BY <1>1, <1>2, <1>3, <1>4, PushMatched
<1>. QED  BY <1>3, <1>5, OneBefore DEF S


\* The work after an instruction that changed neither frames nor what is put away.
LEMMA RestIsWork ==
    ASSUME IInv, Running, Top.do = "ins", NEW fs, NEW ls, NEW ds, NEW ns,
           Stacked(defs, ds, Fr.def, 0), KeepsDefs(frames, fs), KeepsFrames(frames, fs),
           Items \subseteq ItemsOf(prog, fs, Len(ds), ls, ns)
    PROVE  Rest \in Seq(ItemsOf(prog, fs, Len(ds), ls, ns)) /\ Matched(Rest, fs, ds)
<1>. DEFINE S == ItemsOf(prog, fs, Len(ds), ls, ns)
            N == Len(prog[Fn][Top.b].ins)
            y == [Top EXCEPT !.i = @ + 1]
<1>1. /\ Top \in Items /\ N \in Nat /\ Top.fr \in 1..Len(frames)
      /\ Top \in [do : WorkKind, fr : Called(prog, frames), b : Nat, i : Nat,
                  loop : 1..Len(loops), at : Nat]
  BY AtTop
<1>2. /\ Pop \in Seq(S) /\ Weight(Top) = 0
      /\ Weight(Top) + 0 = 0 => Matched(Pop, fs, ds)
      /\ \A z \in S : z.do # "back" /\ z.fr = Top.fr /\ Weight(z) = Weight(Top) + 0 =>
                         Matched(<<z>> \o Pop, fs, ds)
  <2>1. Weight(Top) = 0
    BY DEF Weight, Branches
  <2>. HIDE DEF y, N
  <2>. QED  BY <2>1, StepOn
<1>3. Top.i \in 1..N
  BY AtInstruction
<1>4. CASE Top.i < N
  <2>1. N = Len(prog[fs[Top.fr].fn][Top.b].ins)
    BY <1>1 DEF KeepsFrames, Fn, Fr
  <2>2. Top.i # N /\ Top \in S
    BY <1>1, <1>3, <1>4
  <2>. HIDE DEF N
  <2>3. y \in S /\ y.do = "ins" /\ y.fr = Top.fr
    BY <1>1, <2>1, <2>2, NextIsWork
  <2>4. Weight(y) = Weight(Top) + 0
    BY <1>2, <2>3 DEF Weight, Branches
  <2>5. Rest = <<y>> \o Pop
    BY <1>4 DEF Rest, N
  <2>. HIDE DEF y, S
  <2>6. Matched(<<y>> \o Pop, fs, ds) /\ <<y>> \o Pop \in Seq(S)
    BY <1>2, <2>3, <2>4, OneBefore
  <2>. QED  BY <2>5, <2>6 DEF S
<1>5. CASE ~(Top.i < N)
  <2>1. Rest = Pop
    BY <1>5 DEF Rest
  <2>2. Weight(Top) + 0 = 0
    BY <1>2
  <2>. HIDE DEF S
  <2>3. Pop \in Seq(S) /\ Matched(Pop, fs, ds)
    BY <1>2, <2>2
  <2>. QED  BY <2>1, <2>3 DEF S
<1>. QED  BY <1>4, <1>5

-----------------------------------------------------------------------------
(* The invariant after a step. *)

\* Frames remain as they are when definitions, loops and selects are added.
LEMMA FramesStay ==
    ASSUME NEW p, NEW fs, NEW ls, NEW ms, KeepsParents(ls, ms),
           NEW nd, NEW ne, Within(nd, ne), NEW ns, NEW nt, Within(ns, nt),
           AreFrames(p, fs, nd, ls, ns)
    PROVE  AreFrames(p, fs, ne, ms, nt)
<1>1. ASSUME NEW k \in 1..Len(fs)
      PROVE  /\ fs[k].def \in 1..ne /\ fs[k].selects \subseteq 1..nt
             /\ fs[k].loopstack \in Seq(LoopsOf(ms, k))
  <2>1. LoopsOf(ls, k) \subseteq LoopsOf(ms, k)
    BY DEF LoopsOf, KeepsParents
  <2>2. fs[k].loopstack \in Seq(LoopsOf(ls, k))
    BY DEF AreFrames
  <2>3. fs[k].loopstack \in Seq(LoopsOf(ms, k))
    BY <2>1, <2>2, SeqMonotonic
  <2>4. fs[k].def \in 1..nd /\ fs[k].selects \subseteq 1..ns
    BY DEF AreFrames
  <2>. QED  BY <2>3, <2>4 DEF Within
<1>. QED  BY <1>1, Zenon DEF AreFrames

\* Nothing is lost when nothing changes.
LEMMA Unchanged ==
    ASSUME IInv
    PROVE  /\ KeepsFrames(frames, frames) /\ KeepsDefs(frames, frames)
           /\ KeepsParents(loops, loops) /\ Within(Len(defs), Len(defs))
           /\ Within(Len(sels), Len(sels))
           /\ \A d \in 1..Len(defs) : Stacked(defs, defs, d, 0)
<1>1. Len(frames) \in Nat /\ \A k \in 1..Len(frames) : Len(frames[k].defers) \in Nat
  <2>1. frames \in Seq(FrameOf(prog)) /\ AreFrames(prog, frames, Len(defs), loops, Len(sels))
    BY DEF IInv, AreFrames
  <2>. QED  BY <2>1, LenProperties, FramesFields
<1>2. Len(loops) \in Nat /\ Len(defs) \in Nat /\ Len(sels) \in Nat
  BY DEF IInv, AreLoops, AreDefs, IsSeq
<1>3. \A d \in 1..Len(defs) : Len(defs[d].stack) \in Nat
  BY StackLength DEF IInv
<1>. QED  BY <1>1, <1>2, <1>3 DEF KeepsFrames, KeepsDefs, KeepsParents, Within, Stacked, IInv

\* What every step of the work must leave.
LEMMA Rebuilt ==
    ASSUME IInv, prog' = prog, pc' \in {"main", "gortns", "done", "crashed", "overflow"},
           AreDefs(defs'), AreLoops(loops'), IsSeq(sels'), funcs' \in Seq(1..Len(defs')),
           AreFrames(prog, frames', Len(defs'), loops', Len(sels')),
           work' \in Seq(Items'), Matched(work', frames', defs'),
           queue' \in Seq(Called(prog, frames')), left' \in Seq(Called(prog, frames'))
    PROVE  IInv'
<1>1. PutAwaysMatch'
  <2>1. DOMAIN defs' = 1..Len(defs')
    BY Tabled DEF AreDefs
  <2>. QED  BY <2>1 DEF PutAwaysMatch, Matched
<1>2. pc' # "start"
  OBVIOUS
<1>. QED  BY <1>1, <1>2, Zenon DEF IInv

\* A step that changes no frame.
LEMMA SameFrames ==
    ASSUME IInv, UNCHANGED <<prog, frames, queue, left>>,
           pc' \in {"main", "gortns", "done", "crashed", "overflow"},
           AreDefs(defs'), Within(Len(defs), Len(defs')),
           AreLoops(loops'), KeepsParents(loops, loops'),
           IsSeq(sels'), Within(Len(sels), Len(sels')),
           funcs' \in Seq(1..Len(defs')),
           work' \in Seq(Items'), Matched(work', frames', defs')
    PROVE  IInv'
<1>1. AreFrames(prog, frames, Len(defs), loops, Len(sels))
  BY DEF IInv
<1>2. AreFrames(prog, frames, Len(defs'), loops', Len(sels'))
  BY <1>1, FramesStay
<1>3. queue \in Seq(Called(prog, frames)) /\ left \in Seq(Called(prog, frames))
  BY DEF IInv
<1>. QED  BY <1>2, <1>3, Rebuilt

\* The work of before is work after.
LEMMA ItemsStay ==
    ASSUME IInv, prog' = prog, KeepsFrames(frames, frames'), KeepsParents(loops, loops'),
           Within(Len(defs), Len(defs')), Within(Len(sels), Len(sels'))
    PROVE  /\ Items \subseteq ItemsOf(prog, frames', Len(defs'), loops', Len(sels'))
           /\ Items' = ItemsOf(prog, frames', Len(defs'), loops', Len(sels'))
<1>1. Items' = ItemsOf(prog, frames', Len(defs'), loops', Len(sels'))
  BY DEF Items
<1>. QED  BY <1>1, WorkStays DEF Items


\* A step on to nothing, to one item, and to two of which the first is a visit.
LEMMA OnTo ==
    ASSUME IInv, Running, Top.do # "back", prog' = prog,
           KeepsFrames(frames, frames'), KeepsDefs(frames, frames'),
           KeepsParents(loops, loops'), Within(Len(sels), Len(sels')),
           NEW n \in Int, Stacked(defs, defs', Fr.def, n)
    PROVE  /\ Items \subseteq Items' /\ Pop \in Seq(Items')
           /\ Weight(Top) + n = 0 => Matched(Pop, frames', defs')
           /\ \A y \in Items' : y.do # "back" /\ y.fr = Top.fr /\ Weight(y) = Weight(Top) + n =>
                 /\ <<y>> \o Pop \in Seq(Items') /\ Matched(<<y>> \o Pop, frames', defs')
                 /\ \A z \in Items' : z.do # "back" /\ Weight(z) = 0 =>
                       /\ <<z, y>> \o Pop \in Seq(Items')
                       /\ Matched(<<z, y>> \o Pop, frames', defs')
<1>1. Within(Len(defs), Len(defs'))
  BY StackLength DEF Stacked, Within, IInv, AreDefs, IsSeq
<1>2. /\ Items \subseteq ItemsOf(prog, frames', Len(defs'), loops', Len(sels'))
      /\ Items' = ItemsOf(prog, frames', Len(defs'), loops', Len(sels'))
  BY <1>1, ItemsStay
<1>. DEFINE S == ItemsOf(prog, frames', Len(defs'), loops', Len(sels'))
<1>3. /\ Pop \in Seq(S)
      /\ Weight(Top) + n = 0 => Matched(Pop, frames', defs')
      /\ \A y \in S : y.do # "back" /\ y.fr = Top.fr /\ Weight(y) = Weight(Top) + n =>
                         Matched(<<y>> \o Pop, frames', defs')
  BY <1>2, StepOn
<1>4. ASSUME NEW y \in S, y.do # "back", y.fr = Top.fr, Weight(y) = Weight(Top) + n
      PROVE  /\ <<y>> \o Pop \in Seq(S) /\ Matched(<<y>> \o Pop, frames', defs')
             /\ \A z \in S : z.do # "back" /\ Weight(z) = 0 =>
                   <<z, y>> \o Pop \in Seq(S) /\ Matched(<<z, y>> \o Pop, frames', defs')
  <2>. DEFINE s == <<y>> \o Pop
  <2>1. s \in Seq(S) /\ Matched(s, frames', defs')
    <3>. HIDE DEF S
    <3>. QED  BY <1>3, <1>4, OneBefore
  <2>2. ASSUME NEW z \in S, z.do # "back", Weight(z) = 0
        PROVE  <<z, y>> \o Pop \in Seq(S) /\ Matched(<<z, y>> \o Pop, frames', defs')
    <3>1. <<z, y>> \o Pop = <<z>> \o s
      <4>. HIDE DEF S
      <4>. QED  BY <1>3, TwoBefore
    <3>. HIDE DEF s
    <3>2. Matched(<<z>> \o s, frames', defs') /\ <<z>> \o s \in Seq(S)
      BY <2>1, <2>2, NothingPushed
    <3>. QED  BY <3>1, <3>2
  <2>. QED  BY <2>1, <2>2
<1>. HIDE DEF S
<1>5. Items' = S /\ Items \subseteq S
  BY <1>2 DEF S
<1>. QED  BY <1>3, <1>4, <1>5

\* The functions of the program remain definitions.
LEMMA FuncsStay ==
    ASSUME IInv, Within(Len(defs), Len(defs'))
    PROVE  funcs \in Seq(1..Len(defs'))
<1>1. funcs \in Seq(1..Len(defs)) /\ 1..Len(defs) \subseteq 1..Len(defs')
  BY DEF IInv, Within
<1>. QED  BY <1>1, SeqMonotonic

\* A step of the work that changes no frame and makes no definition.
LEMMA Moves ==
    ASSUME IInv, UNCHANGED <<prog, frames, funcs, queue, left>>,
           pc' \in {"main", "gortns", "done", "crashed", "overflow"},
           NEW d, NEW n \in Int, Stacked(defs, defs', d, n), AreLoops(loops'),
           KeepsParents(loops, loops'), IsSeq(sels'), Within(Len(sels), Len(sels')),
           work' \in Seq(Items'), Matched(work', frames', defs')
    PROVE  IInv'
<1>1. AreDefs(defs') /\ Within(Len(defs), Len(defs'))
  BY DEF Stacked, Within, IInv, AreDefs, IsSeq
<1>. QED  BY <1>1, FuncsStay, SameFrames

\* When nothing was put away for one definition, nothing was for any.
LEMMA StackedNowhere ==
    ASSUME NEW ds, NEW es, NEW d, Stacked(ds, es, d, 0), NEW e
    PROVE  Stacked(ds, es, e, 0)
BY DEF Stacked

\* From one instruction to the next.
LEMMA Onwards ==
    ASSUME IInv, Running, Top.do = "ins", work' = Rest,
           UNCHANGED <<prog, frames, funcs, sels, queue, left, pc>>,
           Stacked(defs, defs', Fr.def, 0), AreLoops(loops'), KeepsParents(loops, loops')
    PROVE  IInv'
<1>1. /\ KeepsFrames(frames, frames') /\ KeepsDefs(frames, frames')
      /\ Within(Len(sels), Len(sels')) /\ IsSeq(sels')
  BY Unchanged DEF IInv
<1>2. Items \subseteq Items'
  BY <1>1, OnTo
<1>3. Items' = ItemsOf(prog, frames', Len(defs'), loops', Len(sels'))
  BY DEF Items
<1>4. work' \in Seq(Items') /\ Matched(work', frames', defs')
  <2>1. /\ Rest \in Seq(ItemsOf(prog, frames', Len(defs'), loops', Len(sels')))
        /\ Matched(Rest, frames', defs')
    BY <1>1, <1>2, <1>3, RestIsWork
  <2>. QED  BY <2>1, <1>3
<1>5. pc' \in {"main", "gortns", "done", "crashed", "overflow"}
  BY AtTop
<1>. QED  BY <1>1, <1>4, <1>5, Moves


\* The end of the run, orderly or not.
LEMMA Stops ==
    ASSUME IInv, UNCHANGED <<prog, work, frames, defs, funcs, loops, sels, queue, left>>,
           pc' \in {"main", "gortns", "done", "crashed", "overflow"}
    PROVE  IInv'
<1>1. /\ KeepsParents(loops, loops') /\ Within(Len(sels), Len(sels')) /\ IsSeq(sels')
      /\ AreLoops(loops') /\ Within(Len(defs), Len(defs')) /\ AreDefs(defs')
  BY Unchanged DEF IInv
<1>2. work \in Seq(Items) /\ Items' = Items /\ funcs \in Seq(1..Len(defs))
  BY DEF IInv, Items
<1>3. Matched(work, frames, defs)
  <2>1. DOMAIN defs = 1..Len(defs)
    BY Tabled DEF IInv, AreDefs
  <2>. QED  BY <2>1 DEF IInv, PutAwaysMatch, Matched
<1>. QED  BY <1>1, <1>2, <1>3, SameFrames

\* visitReturn.
LEMMA ReturnStep == ASSUME IInv, VisitReturn PROVE IInv'
<1>1. Running /\ Top.do = "ins" /\ Fr.def \in 1..Len(defs)
  BY AtTop DEF VisitReturn, OnIns, Doing
<1>2. Stacked(defs, defs', Fr.def, 0) /\ KeepsParents(loops, loops') /\ AreLoops(loops')
  BY <1>1, Unchanged DEF VisitReturn, IInv
<1>. QED  BY <1>1, <1>2, Onwards DEF VisitReturn

\* Sends, receives, MakeChan and close; an unknown channel ends the program.
LEMMA CommStep == ASSUME IInv, VisitComm \/ CallClose PROVE IInv'
<1>1. Running /\ Top.do = "ins" /\ Fr.def \in 1..Len(defs) /\ AreDefs(defs)
  BY AtTop DEF VisitComm, CallClose, OnIns, Doing
<1>2. AddComm
  BY DEF VisitComm, CallClose
<1>3. KeepsParents(loops, loops') /\ AreLoops(loops')
  BY <1>2, Unchanged DEF AddComm, IInv
<1>4. CASE Cur.op = "make" \/ Known(Cur.x)
  <2>1. Stacked(defs, defs', Fr.def, 0)
    BY <1>1, <1>2, <1>4, Lists DEF AddComm
  <2>. QED  BY <1>1, <1>2, <1>3, <1>4, <2>1, Onwards DEF AddComm
<1>5. CASE ~(Cur.op = "make" \/ Known(Cur.x))
  BY <1>1, <1>2, <1>5, Stops DEF AddComm
<1>. QED  BY <1>4, <1>5

\* The loop of an instruction is replaced by one of the same frame.
LEMMA LoopReplaced ==
    ASSUME AreLoops(loops), NEW k \in 1..Len(loops), NEW l, IsLoop(l),
           l.parent = loops[k].parent, NEW ls, ls = Put(loops, k, l)
    PROVE  AreLoops(ls) /\ KeepsParents(loops, ls) /\ Len(ls) = Len(loops) /\ ls[k] = l
<1>1. IsSeq(loops) /\ Len(loops) \in Nat
  BY DEF AreLoops, IsSeq
<1>2. /\ IsSeq(ls) /\ Len(ls) = Len(loops) /\ ls[k] = l
      /\ \A j \in 1..Len(loops) : j # k => ls[j] = loops[j]
  BY <1>1, Replaced
<1>. QED  BY <1>1, <1>2 DEF AreLoops, KeepsParents

\* The numbers of a loop.
LEMMA FieldsOfLoop ==
    ASSUME NEW l, IsLoop(l)
    PROVE  l.index \in Int /\ l.start \in Int /\ l.step \in Int /\ l.end \in Int
BY DEF IsLoop

\* SetInit makes a loop of a loop.
LEMMA InitSet ==
    ASSUME NEW l, IsLoop(l), NEW i, i.op = "phi", NumbersOf(i) \subseteq Int
    PROVE  IsLoop(SetInit(l, i)) /\ SetInit(l, i).parent = l.parent
<1>1. i.args[1].op = "const" => i.args[1].n \in Int
  BY DEF NumbersOf
<1>. QED  BY <1>1 DEF SetInit, IsLoop

\* SetStep makes a loop of a loop.
LEMMA StepSet ==
    ASSUME NEW l, IsLoop(l), NEW i, i.op = "phi", NumbersOf(i) \subseteq Int
    PROVE  IsLoop(SetStep(l, i)) /\ SetStep(l, i).parent = l.parent
<1>1. i.args[2].op \in {"add", "sub"} => i.args[2].n \in Int
  BY DEF NumbersOf
<1>2. CASE i.args[2].op = "add"
  BY <1>1, <1>2 DEF SetStep, IsLoop
<1>3. CASE i.args[2].op = "sub"
  <2>1. -i.args[2].n \in Int
    BY <1>1, <1>3
  <2>. QED  BY <1>3, <2>1 DEF SetStep, IsLoop
<1>4. CASE i.args[2].op \notin {"add", "sub"}
  BY <1>4 DEF SetStep
<1>. QED  BY <1>2, <1>3, <1>4

\* A phi sets start and step of the loop in effect.
LEMMA PhiStep == ASSUME IInv, VisitPhi PROVE IInv'
<1>1. /\ Running /\ Top.do = "ins" /\ Fr.def \in 1..Len(defs) /\ Top.loop \in 1..Len(loops)
      /\ IsLoop(L) /\ Cur.op = "phi"
  BY AtTop DEF VisitPhi, OnIns, Doing
<1>2. NumbersOf(Cur) \subseteq Int
  BY <1>1, AtInstruction
<1>3. Stacked(defs, defs', Fr.def, 0) /\ AreLoops(loops)
  BY <1>1, Unchanged DEF VisitPhi, IInv
<1>. DEFINE l == CASE L.state = "Enter" /\ L.bound = "Unknown" -> SetStep(SetInit(L, Cur), Cur)
                   [] L.state = "Enter" /\ L.bound = "Static" /\ Cur.x = L.index_var ->
                        [L EXCEPT !.index = @ + L.step]
                   [] OTHER -> L
<1>4. IsLoop(l) /\ l.parent = L.parent
  <2>1. CASE L.state = "Enter" /\ L.bound = "Unknown"
    <3>1. IsLoop(SetInit(L, Cur)) /\ SetInit(L, Cur).parent = L.parent
      BY <1>1, <1>2, InitSet
    <3>2. l = SetStep(SetInit(L, Cur), Cur)
      BY <2>1
    <3>. HIDE DEF l
    <3>. QED  BY <1>1, <1>2, <3>1, <3>2, StepSet
  <2>2. CASE L.state = "Enter" /\ L.bound = "Static" /\ Cur.x = L.index_var
    <3>1. l = [L EXCEPT !.index = @ + L.step]
      BY <2>2
    <3>2. L.index + L.step \in Int
      BY <1>1, FieldsOfLoop
    <3>. QED  BY <1>1, <3>1, <3>2 DEF IsLoop
  <2>3. CASE /\ ~(L.state = "Enter" /\ L.bound = "Unknown")
             /\ ~(L.state = "Enter" /\ L.bound = "Static" /\ Cur.x = L.index_var)
    BY <1>1, <2>3
  <2>. QED  BY <2>1, <2>2, <2>3
<1>5. loops' = Put(loops, Top.loop, l)
  BY DEF VisitPhi, Put
<1>. HIDE DEF l
<1>6. AreLoops(loops') /\ KeepsParents(loops, loops')
  BY <1>1, <1>3, <1>4, <1>5, LoopReplaced DEF L
<1>. QED  BY <1>1, <1>3, <1>6, Onwards DEF VisitPhi

\* visitBinOp sets its bound.
LEMMA BinOpStep == ASSUME IInv, VisitBinOp PROVE IInv'
<1>1. /\ Running /\ Top.do = "ins" /\ Fr.def \in 1..Len(defs) /\ Top.loop \in 1..Len(loops)
      /\ IsLoop(L) /\ Cur.op \in CmpOps
  BY AtTop DEF VisitBinOp, OnIns, Doing
<1>2. Cur.n \in Int
  BY <1>1, AtInstruction DEF NumbersOf
<1>3. Stacked(defs, defs', Fr.def, 0) /\ AreLoops(loops)
  BY <1>1, Unchanged DEF VisitBinOp, IInv
<1>. DEFINE bound == IF Cur.args # << >> /\ Between(L, Cur) THEN "Static" ELSE "Dynamic"
            l == IF L.state = "Enter" /\ L.bound = "Unknown"
                 THEN [L EXCEPT !.cond = Cur.x, !.end = Limit(Cur), !.bound = bound]
                 ELSE L
<1>4. IsLoop(l) /\ l.parent = L.parent
  <2>1. Limit(Cur) \in Int
    BY <1>2 DEF Limit
  <2>2. bound \in {"Static", "Dynamic"}
    OBVIOUS
  <2>. HIDE DEF bound
  <2>. QED  BY <1>1, <2>1, <2>2 DEF IsLoop
<1>5. loops' = Put(loops, Top.loop, l)
  BY DEF VisitBinOp, Put
<1>. HIDE DEF l
<1>6. AreLoops(loops') /\ KeepsParents(loops, loops')
  BY <1>1, <1>3, <1>4, <1>5, LoopReplaced DEF L
<1>. QED  BY <1>1, <1>3, <1>6, Onwards DEF VisitBinOp

\* A call of len.
LEMMA LenStep == ASSUME IInv, CallLen PROVE IInv'
<1>1. /\ Running /\ Top.do = "ins" /\ Fr.def \in 1..Len(defs) /\ Top.loop \in 1..Len(loops)
      /\ IsLoop(L)
  BY AtTop DEF CallLen, OnIns, Doing
<1>2. Stacked(defs, defs', Fr.def, 0) /\ AreLoops(loops)
  BY <1>1, Unchanged DEF CallLen, IInv
<1>. DEFINE l == [L EXCEPT !.bound = "Dynamic"]
<1>3. IsLoop(l) /\ l.parent = L.parent
  BY <1>1 DEF IsLoop
<1>. HIDE DEF l
<1>4. CASE loops' = Put(loops, Top.loop, l)
  <2>1. AreLoops(loops') /\ KeepsParents(loops, loops')
    BY <1>1, <1>2, <1>3, <1>4, LoopReplaced DEF L
  <2>. QED  BY <1>1, <1>2, <2>1, Onwards DEF CallLen
<1>5. CASE loops' = loops
  <2>1. AreLoops(loops') /\ KeepsParents(loops, loops')
    BY <1>2, <1>5, Unchanged
  <2>. QED  BY <1>1, <1>2, <2>1, Onwards DEF CallLen
<1>6. loops' = Put(loops, Top.loop, l) \/ loops' = loops
  BY DEF CallLen, Put, l, L
<1>. QED  BY <1>4, <1>5, <1>6


-----------------------------------------------------------------------------
(* Branches. *)

\* A step of a branch: definitions, selects and work change.
LEMMA BranchMoves ==
    ASSUME IInv, Running, UNCHANGED <<prog, frames, funcs, loops, queue, left>>,
           pc' \in {pc, "crashed"},
           NEW d, NEW n \in Int, Stacked(defs, defs', d, n),
           IsSeq(sels'), Within(Len(sels), Len(sels')),
           work' \in Seq(Items'), Matched(work', frames', defs')
    PROVE  IInv'
<1>1. /\ KeepsParents(loops, loops') /\ AreLoops(loops')
      /\ pc' \in {"main", "gortns", "done", "crashed", "overflow"}
  BY Unchanged, AtTop DEF IInv
<1>. QED  BY <1>1, Moves

\* What can be reached from an If, and from what is left of it.
LEMMA AtBranch ==
    ASSUME IInv, Running, Top.do \in Branches \cup {"ins"},
           Top.do = "ins" => Cur.op \in Branching,
           UNCHANGED <<prog, frames, loops>>, Within(Len(sels), Len(sels')),
           NEW n \in Int, Stacked(defs, defs', Fr.def, n)
    PROVE  /\ \A k \in 1..2 : Succ(k) \in Items' /\ Succ(k).do = "block" /\ Succ(k).fr = Top.fr
           /\ \A do \in {"else", "endif"} :
                 Then(do, 0) \in Items' /\ Then(do, 0).do = do /\ Then(do, 0).fr = Top.fr
           /\ \A do \in {"case", "default"} : \A s \in 1..Len(sels) :
                 Then(do, s) \in Items' /\ Then(do, s).do = do /\ Then(do, s).fr = Top.fr
<1>1. /\ KeepsFrames(frames, frames') /\ KeepsDefs(frames, frames')
      /\ KeepsParents(loops, loops') /\ Top.do # "back" /\ prog' = prog
  BY Unchanged DEF Branches
<1>2. Items \subseteq Items'
  BY <1>1, OnTo
<1>3. Cur.op \in Branching /\ Len(prog[Fn][Top.b].succs) = 2
  BY AtInstruction DEF Branches
<1>4. \A k \in 1..2 : Succ(k) \in Items' /\ Succ(k).do = "block" /\ Succ(k).fr = Top.fr
  BY <1>2, <1>3, SuccIsWork
<1>5. /\ Top \in ItemsOf(prog, frames, Len(defs), loops, Len(sels)) /\ Len(sels) \in Nat
      /\ prog[frames[Top.fr].fn][Top.b].ins[Top.i].op \in Branching
  BY <1>3, AtTop DEF Items, Cur, Fn, Fr, IInv, IsSeq
<1>6. ASSUME NEW do \in {"else", "endif"}
      PROVE  Then(do, 0) \in Items' /\ Then(do, 0).do = do /\ Then(do, 0).fr = Top.fr
  <2>1. do \in WorkKind \ {"defers"} /\ 0 \in Nat /\ Top.do \notin {"block", "defers", "deferred"}
    BY DEF WorkKind, Branches
  <2>2. /\ Then(do, 0) \in ItemsOf(prog, frames, Len(defs), loops, Len(sels))
        /\ Then(do, 0).do = do /\ Then(do, 0).fr = Top.fr
    <3>1. do \notin {"case", "default", "called", "deferred", "back"}
      OBVIOUS
    <3>. QED  BY <1>5, <2>1, <3>1, ThenIsWork
  <2>. QED  BY <1>2, <2>2 DEF Items
<1>7. ASSUME NEW do \in {"case", "default"}, NEW s \in 1..Len(sels)
      PROVE  Then(do, s) \in Items' /\ Then(do, s).do = do /\ Then(do, s).fr = Top.fr
  <2>1. do \in WorkKind \ {"defers"} /\ s \in Nat /\ Top.do \notin {"block", "defers", "deferred"}
    BY <1>5 DEF WorkKind, Branches
  <2>2. /\ Then(do, s) \in ItemsOf(prog, frames, Len(defs), loops, Len(sels))
        /\ Then(do, s).do = do /\ Then(do, s).fr = Top.fr
    <3>1. do \notin {"called", "deferred", "back"}
      OBVIOUS
    <3>. QED  BY <1>5, <2>1, <3>1, ThenIsWork
  <2>. QED  BY <1>2, <2>2 DEF Items
<1>. QED  BY <1>2, <1>4, <1>6, <1>7

\* From a branch to its end, to the next, and to a visit before it.
LEMMA BranchEnds ==
    ASSUME IInv, Running, Top.do \in Branches \cup {"ins"},
           UNCHANGED <<prog, frames, loops>>, Within(Len(sels), Len(sels')),
           NEW n \in Int, Stacked(defs, defs', Fr.def, n), Weight(Top) + n = 0
    PROVE  Pop \in Seq(Items') /\ Matched(Pop, frames', defs')
<1>1. /\ KeepsFrames(frames, frames') /\ KeepsDefs(frames, frames')
      /\ KeepsParents(loops, loops') /\ Top.do # "back" /\ prog' = prog
  BY Unchanged DEF Branches
<1>. QED  BY <1>1, OnTo

\* A branch of an If continues with an item of the weight of what is put away now,
\* alone or below another one that asks for nothing.
LEMMA BranchTo ==
    ASSUME IInv, Running, Top.do \in Branches \cup {"ins"},
           UNCHANGED <<prog, frames, loops>>, Within(Len(sels), Len(sels')),
           NEW n \in Int, Stacked(defs, defs', Fr.def, n),
           NEW y, y \in Items', y.do # "back", y.fr = Top.fr, Weight(y) = Weight(Top) + n
    PROVE  /\ <<y>> \o Pop \in Seq(Items') /\ Matched(<<y>> \o Pop, frames', defs')
           /\ \A z \in Items' : z.do # "back" /\ Weight(z) = 0 =>
                 /\ <<z, y>> \o Pop \in Seq(Items')
                 /\ Matched(<<z, y>> \o Pop, frames', defs')
<1>1. /\ KeepsFrames(frames, frames') /\ KeepsDefs(frames, frames')
      /\ KeepsParents(loops, loops') /\ Top.do # "back" /\ prog' = prog
  BY Unchanged DEF Branches
<1>2. \A x \in Items' : x.do # "back" /\ x.fr = Top.fr /\ Weight(x) = Weight(Top) + n =>
         /\ <<x>> \o Pop \in Seq(Items') /\ Matched(<<x>> \o Pop, frames', defs')
         /\ \A z \in Items' : z.do # "back" /\ Weight(z) = 0 =>
               /\ <<z, x>> \o Pop \in Seq(Items')
               /\ Matched(<<z, x>> \o Pop, frames', defs')
  BY <1>1, OnTo
<1>. QED  BY <1>2, Zenon

\* The same with both given.
LEMMA BranchToTwo ==
    ASSUME IInv, Running, Top.do \in Branches \cup {"ins"},
           UNCHANGED <<prog, frames, loops>>, Within(Len(sels), Len(sels')),
           NEW n \in Int, Stacked(defs, defs', Fr.def, n),
           NEW y, y \in Items', y.do # "back", y.fr = Top.fr, Weight(y) = Weight(Top) + n,
           NEW z, z \in Items', z.do # "back", Weight(z) = 0
    PROVE  /\ <<z, y>> \o Pop \in Seq(Items') /\ Matched(<<z, y>> \o Pop, frames', defs')
<1>1. \A x \in Items' : x.do # "back" /\ Weight(x) = 0 =>
         <<x, y>> \o Pop \in Seq(Items') /\ Matched(<<x, y>> \o Pop, frames', defs')
  BY BranchTo
<1>. QED  BY <1>1, Zenon

\* The weights of items.
LEMMA Weights ==
    ASSUME NEW x
    PROVE  /\ x.do \in {"block", "ins", "back", "called", "defers", "deferred"} => Weight(x) = 0
           /\ x.do \in {"else", "case", "default"} => Weight(x) = 1
           /\ x.do = "endif" => Weight(x) = 2
BY DEF Weight, Branches

\* visitIf at the head of a loop that is unrolled.
LEMMA IfStaticStep == ASSUME IInv, VisitIfStatic PROVE IInv'
<1>1. /\ Running /\ Top.do = "ins" /\ Cur.op \in Branching /\ Fr.def \in 1..Len(defs)
      /\ UNCHANGED <<prog, pc, frames, defs, funcs, loops, sels, queue, left>>
  BY AtTop DEF VisitIfStatic, Unrolls, OnIns, Doing, Branching
<1>2. /\ Stacked(defs, defs', Fr.def, 0) /\ IsSeq(sels') /\ Within(Len(sels), Len(sels'))
      /\ Weight(Top) = 0
  BY <1>1, Unchanged, Weights DEF IInv
<1>3. PICK k \in 1..2 : work' = <<Succ(k)>> \o Pop
  BY DEF VisitIfStatic
<1>4. Succ(k) \in Items' /\ Succ(k).do = "block" /\ Succ(k).fr = Top.fr
  BY <1>1, <1>2, AtBranch
<1>5. Weight(Succ(k)) = Weight(Top) + 0
  BY <1>2, <1>4, Weights
<1>. DEFINE y == Succ(k)
<1>. HIDE DEF y
<1>6. work' \in Seq(Items') /\ Matched(work', frames', defs')
  <2>1. y \in Items' /\ y.do # "back" /\ y.fr = Top.fr /\ Weight(y) = Weight(Top) + 0
        /\ work' = <<y>> \o Pop
    BY <1>3, <1>4, <1>5 DEF y
  <2>2. <<y>> \o Pop \in Seq(Items') /\ Matched(<<y>> \o Pop, frames', defs')
    BY <1>1, <1>2, <2>1, BranchTo
  <2>. QED  BY <2>1, <2>2
<1>. QED  BY <1>1, <1>2, <1>6, BranchMoves

\* visitIf puts the statements of the parent away.
LEMMA IfStep == ASSUME IInv, VisitIf PROVE IInv'
<1>1. /\ Running /\ Top.do = "ins" /\ Cur.op \in Branching /\ Fr.def \in 1..Len(defs)
      /\ UNCHANGED <<prog, pc, frames, funcs, loops, sels, queue, left>> /\ AreDefs(defs)
  BY AtTop DEF VisitIf, OnIns, Doing, Branching
<1>2. Stacked(defs, defs', Fr.def, 1)
  BY <1>1, Lists DEF VisitIf
<1>3. IsSeq(sels') /\ Within(Len(sels), Len(sels')) /\ Weight(Top) = 0
  BY <1>1, Unchanged, Weights DEF IInv
<1>. DEFINE y == Then("else", 0)
            z == Succ(1)
<1>4. /\ z \in Items' /\ z.do = "block"
      /\ y \in Items' /\ y.do = "else" /\ y.fr = Top.fr
  BY <1>1, <1>2, <1>3, AtBranch
<1>5. work' = <<z, y>> \o Pop
  BY DEF VisitIf
<1>. HIDE DEF y, z
<1>6. Weight(z) = 0 /\ Weight(y) = Weight(Top) + 1
  BY <1>3, <1>4, Weights
<1>7. work' \in Seq(Items') /\ Matched(work', frames', defs')
  <2>1. <<z, y>> \o Pop \in Seq(Items') /\ Matched(<<z, y>> \o Pop, frames', defs')
    BY <1>1, <1>2, <1>3, <1>4, <1>6, BranchToTwo
  <2>. QED  BY <1>5, <2>1
<1>. QED  BY <1>1, <1>2, <1>3, <1>7, BranchMoves

\* visitIf at the test of a case puts them away once.
LEMMA IfSelStep == ASSUME IInv, VisitIfSel PROVE IInv'
<1>1. /\ Running /\ Top.do = "ins" /\ Cur.op \in Branching /\ Fr.def \in 1..Len(defs)
      /\ UNCHANGED <<prog, pc, frames, funcs, loops, sels, queue, left>> /\ AreDefs(defs)
  BY AtTop DEF VisitIfSel, OnIns, Doing, Branching
<1>2. Stacked(defs, defs', Fr.def, 1)
  BY <1>1, Lists DEF VisitIfSel
<1>3. IsSeq(sels') /\ Within(Len(sels), Len(sels')) /\ Weight(Top) = 0
  BY <1>1, Unchanged, Weights DEF IInv
<1>4. PICK s \in Fr.selects : work' = <<Succ(1), Then("case", s)>> \o Pop
  BY DEF VisitIfSel
<1>5. s \in 1..Len(sels)
  BY AtTop, <1>1 DEF IInv, AreFrames, Fr
<1>. DEFINE y == Then("case", s)
            z == Succ(1)
<1>6. /\ z \in Items' /\ z.do = "block"
      /\ y \in Items' /\ y.do = "case" /\ y.fr = Top.fr
  BY <1>1, <1>2, <1>3, <1>5, AtBranch
<1>7. work' = <<z, y>> \o Pop
  BY <1>4
<1>. HIDE DEF y, z
<1>8. Weight(z) = 0 /\ Weight(y) = Weight(Top) + 1
  BY <1>3, <1>6, Weights
<1>9. work' \in Seq(Items') /\ Matched(work', frames', defs')
  <2>1. <<z, y>> \o Pop \in Seq(Items') /\ Matched(<<z, y>> \o Pop, frames', defs')
    BY <1>1, <1>2, <1>3, <1>6, <1>8, BranchToTwo
  <2>. QED  BY <1>7, <2>1
<1>. QED  BY <1>1, <1>2, <1>3, <1>9, BranchMoves


\* What is restored is there.
LEMMA EnoughPutAway ==
    ASSUME IInv, Running, Top.do # "back"
    PROVE  Len(defs[Fr.def].stack) \in Nat /\ Len(defs[Fr.def].stack) >= Weight(Top)
<1>1. /\ Pop \in Seq(Items) /\ OfFrames(Items, Called(prog, frames)) /\ AreDefs(defs)
      /\ Fr.def \in 1..Len(defs)
  BY AtTop
<1>2. Len(defs[Fr.def].stack) = PutAwayFor(Pop, frames, Fr.def) + Weight(Top)
  BY <1>1, TopOwes DEF Owing
<1>3. PutAwayFor(Pop, frames, Fr.def) \in Nat
  BY <1>1, CountIsNat
<1>4. Weight(Top) \in Nat
  BY DEF Weight
<1>. QED  BY <1>2, <1>3, <1>4

\* Selects are replaced, not removed.
LEMMA SelsStay ==
    ASSUME NEW s, IsSeq(s), NEW k \in 1..Len(s), NEW e
    PROVE  IsSeq(Put(s, k, e)) /\ Len(Put(s, k, e)) = Len(s)
BY Replaced

\* Adding a case keeps the selects a sequence.
LEMMA CaseKept ==
    ASSUME IsSeq(sels), NEW s \in 1..Len(sels), NEW k, NEW ss
    PROVE  IsSeq(CaseAdded(s, k, ss)) /\ Len(CaseAdded(s, k, ss)) = Len(sels)
<1>1. CaseAdded(s, k, ss) = Put(sels, s, [sels[s] EXCEPT !.cases[k] = @ \o ss])
  BY DEF CaseAdded, Put
<1>. QED  BY <1>1, SelsStay

\* One change of the lists after another.
LEMMA StackedTwice ==
    ASSUME NEW ds, NEW es, NEW gs, NEW d, NEW m \in Int, NEW n \in Int, AreDefs(ds),
           Stacked(ds, es, d, m), Stacked(es, gs, d, n)
    PROVE  Stacked(ds, gs, d, m + n)
<1>1. AreDefs(gs) /\ Len(gs) = Len(ds) /\ Len(es) = Len(ds)
  BY DEF Stacked
<1>2. ASSUME NEW k \in 1..Len(ds)
      PROVE  Len(gs[k].stack) = Len(ds[k].stack) + (IF k = d THEN m + n ELSE 0)
  <2>1. Len(ds[k].stack) \in Nat
    BY StackLength
  <2>2. /\ Len(es[k].stack) = Len(ds[k].stack) + (IF k = d THEN m ELSE 0)
        /\ Len(gs[k].stack) = Len(es[k].stack) + (IF k = d THEN n ELSE 0)
    BY <1>1 DEF Stacked
  <2>3. CASE k = d
    <3>1. Len(es[k].stack) = Len(ds[k].stack) + m /\ Len(gs[k].stack) = Len(es[k].stack) + n
      BY <2>2, <2>3
    <3>. DEFINE a == Len(ds[k].stack)
                c == Len(gs[k].stack)
    <3>2. a \in Nat /\ c = (a + m) + n
      BY <2>1, <3>1
    <3>. HIDE DEF a, c
    <3>3. c = a + (m + n)
      BY <3>2
    <3>. QED  BY <2>3, <3>3 DEF a, c
  <2>4. CASE k # d
    BY <2>1, <2>2, <2>4
  <2>. QED  BY <2>3, <2>4
<1>. QED  BY <1>1, <1>2 DEF Stacked

\* visitIf between its branches puts those of the first one away.
LEMMA ElseStep == ASSUME IInv, VisitElse PROVE IInv'
<1>. DEFINE d == Fr.def
            y == Then("endif", 0)
            z == Succ(2)
<1>1. /\ Running /\ Top.do = "else" /\ d \in 1..Len(defs) /\ AreDefs(defs)
      /\ UNCHANGED <<prog, pc, frames, funcs, loops, sels, queue, left>>
      /\ Top.do \in Branches
  BY AtTop DEF VisitElse, Doing, Branches
<1>2. IsSeq(sels') /\ Within(Len(sels), Len(sels')) /\ Weight(Top) = 1
  BY <1>1, Unchanged, Weights DEF IInv
<1>3. Stacked(defs, PutAway(d), d, 1)
  BY <1>1, Lists
<1>4. \A ss : Stacked(defs, [PutAway(d) EXCEPT ![d].stmts = ss], d, 1)
  <2>. DEFINE ds == PutAway(d)
  <2>. HIDE DEF ds
  <2>1. AreDefs(ds) /\ d \in 1..Len(ds) /\ Stacked(defs, ds, d, 1)
    BY <1>1, <1>3 DEF ds, Stacked
  <2>2. ASSUME NEW ss PROVE Stacked(defs, [ds EXCEPT ![d].stmts = ss], d, 1)
    <3>. DEFINE es == [ds EXCEPT ![d].stmts = ss]
    <3>1. Stacked(ds, es, d, 0)
      BY <2>1, StmtsSet
    <3>. HIDE DEF es
    <3>2. Stacked(defs, es, d, 1 + 0)
      BY <1>1, <2>1, <3>1, StackedTwice
    <3>. QED  BY <3>2 DEF es
  <2>. QED  BY <2>2 DEF ds
<1>5. Stacked(defs, defs', d, 1)
  <2>1. defs' = PutAway(d) \/ defs' = [PutAway(d) EXCEPT ![d].stmts = <<CallOf(Top.b)>>]
    BY DEF VisitElse
  <2>. QED  BY <1>3, <1>4, <2>1
<1>6. /\ z \in Items' /\ z.do = "block"
      /\ y \in Items' /\ y.do = "endif" /\ y.fr = Top.fr
  BY <1>1, <1>2, <1>5, AtBranch
<1>7. work' = <<y>> \o Pop \/ work' = <<z, y>> \o Pop
  BY DEF VisitElse
<1>. HIDE DEF y, z
<1>8. Weight(z) = 0 /\ Weight(y) = Weight(Top) + 1
  BY <1>2, <1>6, Weights
<1>9. <<y>> \o Pop \in Seq(Items') /\ Matched(<<y>> \o Pop, frames', defs')
  BY <1>1, <1>2, <1>5, <1>6, <1>8, BranchTo
<1>10. <<z, y>> \o Pop \in Seq(Items') /\ Matched(<<z, y>> \o Pop, frames', defs')
  BY <1>1, <1>2, <1>5, <1>6, <1>8, BranchToTwo
<1>11. work' \in Seq(Items') /\ Matched(work', frames', defs')
  BY <1>7, <1>9, <1>10
<1>. QED  BY <1>1, <1>2, <1>5, <1>11, BranchMoves

\* The program does not end here: the two lists are there.
LEMMA EndIfStep == ASSUME IInv, EndIf PROVE IInv' /\ pc' = pc
<1>. DEFINE d == Fr.def
            stack == defs[d].stack
            st == Front(Front(stack))
            ss == Last(Front(stack)) \o <<IfStmt(Last(stack), defs[d].stmts)>>
<1>1. /\ Running /\ Top.do = "endif" /\ d \in 1..Len(defs) /\ AreDefs(defs)
      /\ UNCHANGED <<prog, frames, funcs, loops, sels, queue, left>>
      /\ Top.do \in Branches
  BY AtTop DEF EndIf, Doing, Branches
<1>2. IsSeq(sels') /\ Within(Len(sels), Len(sels')) /\ Weight(Top) = 2
  BY <1>1, Unchanged, Weights DEF IInv
<1>3. IsSeq(stack) /\ Len(stack) \in Nat /\ Len(stack) >= 2
  BY <1>1, <1>2, EnoughPutAway, StackLength
<1>4. /\ defs' = [defs EXCEPT ![d].stack = st, ![d].stmts = ss]
      /\ work' = Pop /\ pc' = pc
  BY <1>3 DEF EndIf
<1>5. Stacked(defs, defs', d, -2)
  <2>. HIDE DEF ss
  <2>1. IsSeq(Front(stack)) /\ Len(Front(stack)) = Len(stack) - 1
    BY <1>3, Fronted
  <2>2. Len(Front(stack)) # 0
    <3>. HIDE DEF stack
    <3>. QED  BY <1>3, <2>1
  <2>3. IsSeq(st) /\ Len(st) = Len(Front(stack)) - 1
    BY <2>1, <2>2, Fronted
  <2>4. Len(st) = Len(stack) + (-2)
    BY <1>3, <2>1, <2>3
  <2>. HIDE DEF st
  <2>5. Stacked(defs, Rewritten(defs, d, ss, st), d, -2)
    BY <1>1, <2>3, <2>4, BothSet
  <2>6. [defs EXCEPT ![d].stack = st, ![d].stmts = ss] = Rewritten(defs, d, ss, st)
    <3>1. /\ d \in DOMAIN defs
          /\ defs[d] = [name |-> defs[d].name, stmts |-> defs[d].stmts, stack |-> defs[d].stack]
      BY <1>1, StackLength, Tabled DEF AreDefs
    <3>. DEFINE r == [name |-> defs[d].name, stmts |-> ss, stack |-> st]
    <3>2. [[defs[d] EXCEPT !.stack = st] EXCEPT !.stmts = ss] = r
      <4>1. [defs[d] EXCEPT !.stack = st] =
              [name |-> defs[d].name, stmts |-> defs[d].stmts, stack |-> st]
        BY <3>1
      <4>2. [[name |-> defs[d].name, stmts |-> defs[d].stmts, stack |-> st]
               EXCEPT !.stmts = ss] = r
        OBVIOUS
      <4>. QED  BY <4>1, <4>2, Zenon
    <3>3. [[defs[d] EXCEPT !.stmts = ss] EXCEPT !.stack = st] = r
      <4>1. [defs[d] EXCEPT !.stmts = ss] =
              [name |-> defs[d].name, stmts |-> ss, stack |-> defs[d].stack]
        BY <3>1
      <4>2. [[name |-> defs[d].name, stmts |-> ss, stack |-> defs[d].stack]
               EXCEPT !.stack = st] = r
        OBVIOUS
      <4>. QED  BY <4>1, <4>2, Zenon
    <3>. HIDE DEF r
    <3>. QED  BY <3>1, <3>2, <3>3 DEF Rewritten
  <2>. QED  BY <1>4, <2>5, <2>6, Zenon
<1>6. work' \in Seq(Items') /\ Matched(work', frames', defs')
  <2>1. Weight(Top) + (-2) = 0 /\ -2 \in Int
    BY <1>2
  <2>2. Pop \in Seq(Items') /\ Matched(Pop, frames', defs')
    BY <1>1, <1>2, <1>5, <2>1, BranchEnds
  <2>. QED  BY <1>4, <2>2
<1>7. UNCHANGED <<prog, pc, frames, funcs, loops, queue, left>>
  BY <1>1, <1>4
<1>8. IInv'
  <2>1. -2 \in Int
    OBVIOUS
  <2>. HIDE DEF d
  <2>. QED  BY <1>1, <1>2, <1>5, <1>6, <1>7, <2>1, BranchMoves
<1>. QED  BY <1>4, <1>8


\* visitIf after the branch of a case takes the parent's back.
LEMMA CaseStep == ASSUME IInv, EndCase PROVE IInv'
<1>. DEFINE d == Fr.def
            s == Top.at
            kept == CaseAdded(s, Cur.n + 1, defs[d].stmts)
            y == Then("default", s)
            z == Succ(2)
<1>1. /\ Running /\ Top.do = "case" /\ d \in 1..Len(defs) /\ AreDefs(defs)
      /\ UNCHANGED <<prog, frames, funcs, loops, queue, left>>
      /\ pc' \in {pc, "crashed"}
      /\ Top.do \in Branches
  BY AtTop DEF EndCase, Doing, Branches
<1>2. s \in 1..Len(sels) /\ IsSeq(sels) /\ Len(sels) \in Nat
  <2>1. Top \in Items
    BY <1>1, AtTop
  <2>. QED  BY <1>1, <2>1 DEF Items, ItemsOf, IInv, IsSeq
<1>3. IsSeq(kept) /\ Len(kept) = Len(sels)
  BY <1>2, CaseKept
<1>4. Weight(Top) = 1 /\ Len(defs[d].stack) >= 1
  BY <1>1, Weights, EnoughPutAway
<1>5. CASE sels' = kept /\ defs' = Restored(d, << >>) /\ work' = <<z>> \o Pop
  <2>1. Stacked(defs, defs', d, -1) /\ IsSeq(sels') /\ Within(Len(sels), Len(sels')) /\ -1 \in Int
    <3>. HIDE DEF kept
    <3>. QED  BY <1>1, <1>2, <1>3, <1>4, <1>5, Lists DEF Within
  <2>2. z \in Items' /\ z.do = "block" /\ z.fr = Top.fr
    BY <1>1, <2>1, AtBranch
  <2>. HIDE DEF z
  <2>3. Weight(z) = Weight(Top) + (-1)
    BY <1>4, <2>2, Weights
  <2>4. <<z>> \o Pop \in Seq(Items') /\ Matched(<<z>> \o Pop, frames', defs')
    BY <1>1, <2>1, <2>2, <2>3, BranchTo
  <2>. HIDE DEF d
  <2>. QED  BY <1>1, <1>5, <2>1, <2>4, BranchMoves
<1>6. CASE sels' = kept /\ defs' = Restored(d, << >>) /\ work' = Pop
  <2>1. Stacked(defs, defs', d, -1) /\ -1 \in Int
    BY <1>1, <1>4, <1>6, Lists
  <2>2. IsSeq(sels') /\ Within(Len(sels), Len(sels'))
    <3>. HIDE DEF kept
    <3>. QED  BY <1>2, <1>3, <1>6 DEF Within
  <2>3. Weight(Top) + (-1) = 0
    BY <1>4
  <2>4. Pop \in Seq(Items') /\ Matched(Pop, frames', defs')
    BY <1>1, <2>1, <2>2, <2>3, BranchEnds
  <2>. HIDE DEF d
  <2>. QED  BY <1>1, <1>6, <2>1, <2>2, <2>4, BranchMoves
<1>7. CASE /\ sels' = kept /\ defs' = [defs EXCEPT ![d].stmts = << >>]
           /\ work' = <<z, y>> \o Pop
  <2>1. Stacked(defs, defs', d, 0) /\ IsSeq(sels') /\ Within(Len(sels), Len(sels'))
    <3>. HIDE DEF kept
    <3>1. Stacked(defs, [defs EXCEPT ![d].stmts = << >>], d, 0)
      BY <1>1, StmtsSet
    <3>2. sels' = kept /\ defs' = [defs EXCEPT ![d].stmts = << >>]
      BY <1>7
    <3>3. Stacked(defs, defs', d, 0)
      BY <3>1, <3>2, Zenon
    <3>. QED  BY <1>2, <1>3, <3>2, <3>3 DEF Within
  <2>2. /\ z \in Items' /\ z.do = "block"
        /\ y \in Items' /\ y.do = "default" /\ y.fr = Top.fr
    BY <1>1, <1>2, <2>1, AtBranch
  <2>. HIDE DEF y, z
  <2>3. Weight(z) = 0 /\ Weight(y) = Weight(Top) + 0
    BY <1>4, <2>2, Weights
  <2>4. <<z, y>> \o Pop \in Seq(Items') /\ Matched(<<z, y>> \o Pop, frames', defs')
    BY <1>1, <2>1, <2>2, <2>3, BranchToTwo
  <2>5. work' \in Seq(Items') /\ Matched(work', frames', defs')
    BY <1>7, <2>4, Zenon
  <2>. HIDE DEF d
  <2>. QED  BY <1>1, <2>1, <2>5, BranchMoves
<1>8. \/ sels' = kept /\ defs' = Restored(d, << >>) /\ work' = <<z>> \o Pop
      \/ sels' = kept /\ defs' = Restored(d, << >>) /\ work' = Pop
      \/ /\ sels' = kept /\ defs' = [defs EXCEPT ![d].stmts = << >>]
         /\ work' = <<z, y>> \o Pop
  BY Zenon DEF EndCase
<1>. QED  BY <1>5, <1>6, <1>7, <1>8, Zenon

\* visitIf after the branch of a default does too.
LEMMA DefaultStep == ASSUME IInv, EndDefault PROVE IInv'
<1>. DEFINE d == Fr.def
            s == Top.at
<1>1. /\ Running /\ Top.do = "default" /\ d \in 1..Len(defs) /\ AreDefs(defs)
      /\ UNCHANGED <<prog, pc, frames, funcs, loops, queue, left>>
      /\ Top.do \in Branches
      /\ sels' = CaseAdded(s, DefaultOf(s), defs[d].stmts)
      /\ defs' = Restored(d, << >>) /\ work' = Pop
  BY AtTop DEF EndDefault, Doing, Branches
<1>2. s \in 1..Len(sels) /\ IsSeq(sels) /\ Len(sels) \in Nat
  <2>1. Top \in Items
    BY <1>1, AtTop
  <2>. QED  BY <1>1, <2>1 DEF Items, ItemsOf, IInv, IsSeq
<1>3. IsSeq(sels') /\ Within(Len(sels), Len(sels'))
  <2>1. IsSeq(sels') /\ Len(sels') = Len(sels)
    BY <1>1, <1>2, CaseKept
  <2>. QED  BY <1>2, <2>1 DEF Within
<1>4. Weight(Top) = 1 /\ Len(defs[d].stack) >= 1
  BY <1>1, Weights, EnoughPutAway
<1>5. Stacked(defs, defs', d, -1) /\ -1 \in Int
  BY <1>1, <1>4, Lists
<1>6. Weight(Top) + (-1) = 0
  BY <1>4
<1>7. Pop \in Seq(Items') /\ Matched(Pop, frames', defs')
  BY <1>1, <1>3, <1>5, <1>6, BranchEnds
<1>. HIDE DEF d, s
<1>. QED  BY <1>1, <1>3, <1>5, <1>7, BranchMoves

-----------------------------------------------------------------------------
(* Calls. *)

\* What only takes the top off.
LEMMA Leaves ==
    ASSUME IInv, Running, Top.do # "back", Weight(Top) = 0, work' = Pop,
           UNCHANGED <<prog, frames, funcs, loops, sels, queue, left>>,
           pc' \in {pc, "crashed"},
           NEW d, Stacked(defs, defs', d, 0)
    PROVE  IInv'
<1>1. /\ KeepsFrames(frames, frames') /\ KeepsDefs(frames, frames')
      /\ KeepsParents(loops, loops') /\ Within(Len(sels), Len(sels'))
      /\ AreLoops(loops') /\ IsSeq(sels')
      /\ pc' \in {"main", "gortns", "done", "crashed", "overflow"}
  BY Unchanged, AtTop DEF IInv
<1>2. Stacked(defs, defs', Fr.def, 0)
  BY StackedNowhere
<1>3. Weight(Top) + 0 = 0
  OBVIOUS
<1>4. Pop \in Seq(Items') /\ Matched(Pop, frames', defs')
  BY <1>1, <1>2, <1>3, OnTo
<1>. QED  BY <1>1, <1>2, <1>4, Moves

\* call after the visit of the callee.
LEMMA EndCallStep == ASSUME IInv, EndCall PROVE IInv'
<1>1. /\ Running /\ Top.do = "called" /\ Fr.def \in 1..Len(defs) /\ AreDefs(defs)
      /\ UNCHANGED <<prog, pc, frames, funcs, loops, sels, queue, left>> /\ work' = Pop
  BY AtTop DEF EndCall, Doing
<1>2. Stacked(defs, defs', Fr.def, 0)
  <2>1. \A ss : Stacked(defs, AddStmts(Fr.def, ss), Fr.def, 0)
    BY <1>1, Lists
  <2>2. Stacked(defs, defs, Fr.def, 0)
    BY <1>1, Unchanged
  <2>. QED  BY <2>1, <2>2 DEF EndCall
<1>3. Weight(Top) = 0 /\ Top.do # "back"
  BY <1>1, Weights
<1>. QED  BY <1>1, <1>2, <1>3, Leaves

\* visitRunDefers after a deferred call.
LEMMA EndDeferStep == ASSUME IInv, EndDefer PROVE IInv'
<1>1. /\ Running /\ Top.do = "deferred" /\ Fr.def \in 1..Len(defs)
      /\ UNCHANGED <<prog, frames, defs, funcs, loops, sels, queue, left>>
      /\ pc' \in {pc, "crashed"} /\ work' = Pop
  BY AtTop DEF EndDefer, Doing
<1>2. Stacked(defs, defs', Fr.def, 0)
  BY <1>1, Unchanged
<1>3. Weight(Top) = 0 /\ Top.do # "back"
  BY <1>1, Weights
<1>. QED  BY <1>1, <1>2, <1>3, Leaves

\* visitRunDefers, before its loop.
LEMMA RunDefersStep == ASSUME IInv, VisitRunDefers PROVE IInv'
<1>. DEFINE y == [Top EXCEPT !.do = "defers", !.i = Len(Fr.defers)]
<1>1. /\ Running /\ Top.do = "ins" /\ Fr.def \in 1..Len(defs) /\ Top \in Items
      /\ UNCHANGED <<prog, pc, frames, defs, funcs, loops, sels, queue, left>>
      /\ work' = <<y>> \o Rest
  BY AtTop DEF VisitRunDefers, OnIns, Doing
<1>2. /\ KeepsFrames(frames, frames) /\ KeepsDefs(frames, frames)
      /\ KeepsParents(loops, loops') /\ Within(Len(sels), Len(sels'))
      /\ AreLoops(loops') /\ IsSeq(sels') /\ Stacked(defs, defs', Fr.def, 0)
      /\ Stacked(defs, defs, Fr.def, 0)
      /\ pc' \in {"main", "gortns", "done", "crashed", "overflow"}
  BY <1>1, Unchanged, AtTop DEF IInv
<1>3. Rest \in Seq(Items) /\ Matched(Rest, frames, defs)
  BY <1>1, <1>2, RestIsWork DEF Items
<1>4. y \in Items /\ y.do = "defers"
  <2>1. Top \in [do : WorkKind, fr : Called(prog, frames), b : Nat, i : Nat,
                 loop : 1..Len(loops), at : Nat]
    BY <1>1, AtTop
  <2>2. Len(Fr.defers) \in Nat
    BY <1>1, AtTop, FramesFields DEF Fr, IInv
  <2>3. /\ y \in [do : WorkKind, fr : Called(prog, frames), b : Nat, i : Nat,
                  loop : 1..Len(loops), at : Nat]
        /\ y.do = "defers" /\ y.fr = Top.fr /\ y.b = Top.b /\ y.i = Len(Fr.defers)
        /\ y.loop = Top.loop
    BY <2>1, <2>2 DEF WorkKind
  <2>4. y.i <= Len(frames[y.fr].defers)
    BY <2>2, <2>3 DEF Fr
  <2>5. /\ Top.b \in 1..Len(prog[frames[Top.fr].fn]) /\ loops[Top.loop].parent = Top.fr
    BY <1>1, AtTop DEF Fn, Fr, L
  <2>. HIDE DEF y
  <2>. QED  BY <2>3, <2>4, <2>5 DEF Items, ItemsOf
<1>. HIDE DEF y
<1>5. Weight(y) = 0
  BY <1>4, Weights
<1>6. /\ Rest \in Seq(ItemsOf(prog, frames, Len(defs), loops, Len(sels)))
      /\ y \in ItemsOf(prog, frames, Len(defs), loops, Len(sels)) /\ y.do # "back"
  BY <1>3, <1>4 DEF Items
<1>7. /\ Matched(<<y>> \o Rest, frames, defs)
      /\ <<y>> \o Rest \in Seq(ItemsOf(prog, frames, Len(defs), loops, Len(sels)))
  BY <1>3, <1>5, <1>6, NothingPushed
<1>8. work' \in Seq(Items') /\ Matched(work', frames', defs')
  BY <1>1, <1>7 DEF Items
<1>. QED  BY <1>1, <1>2, <1>8, Moves


-----------------------------------------------------------------------------
(* Steps that change frames. *)

\* A frame replaced by one of the same function and caller.
LEMMA FrameReplaced ==
    ASSUME NEW p, NEW fs, NEW nd, NEW ne, Within(nd, ne), NEW ls, NEW ms, KeepsParents(ls, ms),
           NEW ns, NEW nt, Within(ns, nt), AreFrames(p, fs, nd, ls, ns),
           NEW k \in 1..Len(fs), NEW g \in FrameOf(p), g.fn = fs[k].fn, g.caller = fs[k].caller,
           g.def \in 1..ne, g.fn \in DOMAIN p => g.visited \subseteq 1..Len(p[g.fn]),
           g.selects \subseteq 1..nt, g.loopstack \in Seq(LoopsOf(ms, k)),
           Len(fs[k].defers) <= Len(g.defers)
    PROVE  /\ AreFrames(p, Put(fs, k, g), ne, ms, nt) /\ KeepsFrames(fs, Put(fs, k, g))
           /\ Put(fs, k, g)[k] = g /\ Len(Put(fs, k, g)) = Len(fs)
           /\ \A j \in 1..Len(fs) : j # k => Put(fs, k, g)[j] = fs[j]
<1>. DEFINE gs == Put(fs, k, g)
<1>1. fs \in Seq(FrameOf(p)) /\ Len(fs) \in Nat /\ IsSeq(fs)
  BY LenProperties, IsSeqOf DEF AreFrames
<1>2. /\ IsSeq(gs) /\ Len(gs) = Len(fs) /\ gs[k] = g
      /\ \A j \in 1..Len(fs) : j # k => gs[j] = fs[j]
  BY <1>1, Replaced
<1>3. gs \in Seq(FrameOf(p))
  <2>1. gs \in Seq({gs[j] : j \in 1..Len(gs)})
    <3>. HIDE DEF gs
    <3>. QED  BY <1>2, Tabled
  <2>2. \A j \in 1..Len(fs) : fs[j] \in FrameOf(p)
    BY <1>1, ElementOfSeq
  <2>. HIDE DEF gs
  <2>3. {gs[j] : j \in 1..Len(gs)} \subseteq FrameOf(p)
    BY <1>2, <2>2
  <2>. QED  BY <2>1, <2>3, SeqMonotonic
<1>4. AreFrames(p, fs, ne, ms, nt)
  BY FramesStay
<1>. HIDE DEF gs
<1>5. \A j \in 1..Len(fs) : Len(fs[j].defers) \in Nat
  BY FramesFields
<1>6. Len(g.defers) \in Nat
  BY LenProperties DEF FrameOf
<1>7. KeepsFrames(fs, gs)
  <2>1. ASSUME NEW j \in 1..Len(fs)
        PROVE  /\ gs[j].fn = fs[j].fn /\ Len(gs[j].defers) \in Nat
               /\ Len(fs[j].defers) <= Len(gs[j].defers)
    <3>1. CASE j = k
      BY <1>2, <1>6, <3>1
    <3>2. CASE j # k
      BY <1>2, <1>5, <3>2
    <3>. QED  BY <3>1, <3>2
  <2>. QED  BY <1>1, <1>2, <1>5, <2>1 DEF KeepsFrames
<1>8. AreFrames(p, gs, ne, ms, nt)
  <2>1. ASSUME NEW j \in 1..Len(gs)
        PROVE  /\ gs[j].caller < j /\ gs[j].def \in 1..ne
               /\ gs[j].fn \in DOMAIN p => gs[j].visited \subseteq 1..Len(p[gs[j].fn])
               /\ gs[j].selects \subseteq 1..nt /\ gs[j].loopstack \in Seq(LoopsOf(ms, j))
    <3>1. /\ fs[j].caller < j /\ fs[j].def \in 1..ne
          /\ fs[j].fn \in DOMAIN p => fs[j].visited \subseteq 1..Len(p[fs[j].fn])
          /\ fs[j].selects \subseteq 1..nt /\ fs[j].loopstack \in Seq(LoopsOf(ms, j))
      BY <1>2, <1>4 DEF AreFrames
    <3>2. CASE j = k
      BY <1>2, <3>1, <3>2
    <3>3. CASE j # k
      BY <1>2, <3>1, <3>3
    <3>. QED  BY <3>2, <3>3
  <2>2. Len(gs) >= 1 /\ gs[1].fn = "main"
    <3>1. Len(fs) >= 1 /\ fs[1].fn = "main"
      BY DEF AreFrames
    <3>2. 1 \in 1..Len(fs)
      BY <1>1, <3>1
    <3>. QED  BY <1>2, <1>7, <3>1, <3>2 DEF KeepsFrames
  <2>. QED  BY <1>3, <2>1, <2>2 DEF AreFrames
<1>. QED  BY <1>2, <1>7, <1>8 DEF gs

\* A frame added for a call.
LEMMA FrameAdded ==
    ASSUME NEW p, NEW fs, NEW nd, NEW ne, Within(nd, ne), NEW ls, NEW ms, KeepsParents(ls, ms),
           NEW ns, NEW nt, Within(ns, nt), AreFrames(p, fs, nd, ls, ns),
           NEW f \in DOMAIN p, NEW c \in 1..Len(fs), NEW d \in 1..ne
    PROVE  LET gs == Append(fs, Frame(f, c, d))
           IN  /\ AreFrames(p, gs, ne, ms, nt) /\ KeepsFrames(fs, gs) /\ KeepsDefs(fs, gs)
               /\ Len(fs) \in Nat /\ Len(gs) = Len(fs) + 1
               /\ gs[Len(fs) + 1].fn = f /\ gs[Len(fs) + 1].def = d
<1>. DEFINE g == Frame(f, c, d)
            gs == Append(fs, g)
<1>1. fs \in Seq(FrameOf(p)) /\ Len(fs) \in Nat
  BY LenProperties DEF AreFrames
<1>2. g \in FrameOf(p)
  <2>1. << >> \in Seq(Nat) /\ << >> \in Seq(DeferredIn(p))
    OBVIOUS
  <2>2. c \in Nat /\ d \in Nat
    BY <1>1 DEF Within
  <2>. QED  BY <2>1, <2>2 DEF Frame, FrameOf
<1>3. /\ gs \in Seq(FrameOf(p)) /\ Len(gs) = Len(fs) + 1 /\ gs[Len(fs) + 1] = g
      /\ \A j \in 1..Len(fs) : gs[j] = fs[j]
  <2>. HIDE DEF g
  <2>. QED  BY <1>1, <1>2, AppendProperties
<1>4. AreFrames(p, fs, ne, ms, nt)
  BY FramesStay
<1>5. \A j \in 1..Len(fs) : Len(fs[j].defers) \in Nat
  BY FramesFields
<1>. HIDE DEF gs
<1>6. KeepsFrames(fs, gs) /\ KeepsDefs(fs, gs)
  BY <1>1, <1>3, <1>5 DEF KeepsFrames, KeepsDefs
<1>7. /\ g.fn = f /\ g.caller = c /\ g.def = d /\ g.visited = {} /\ g.selects = {}
      /\ g.loopstack = << >>
  BY DEF Frame
<1>. HIDE DEF g
<1>8. AreFrames(p, gs, ne, ms, nt)
  <2>1. ASSUME NEW j \in 1..Len(gs)
        PROVE  /\ gs[j].caller < j /\ gs[j].def \in 1..ne
               /\ gs[j].fn \in DOMAIN p => gs[j].visited \subseteq 1..Len(p[gs[j].fn])
               /\ gs[j].selects \subseteq 1..nt /\ gs[j].loopstack \in Seq(LoopsOf(ms, j))
    <3>1. CASE j \in 1..Len(fs)
      BY <1>3, <1>4, <3>1 DEF AreFrames
    <3>2. CASE j = Len(fs) + 1
      <4>1. gs[j] = g /\ c < j
        BY <1>1, <1>3, <3>2
      <4>2. << >> \in Seq(LoopsOf(ms, j))
        OBVIOUS
      <4>. QED  BY <1>7, <4>1, <4>2
    <3>. QED  BY <1>1, <1>3, <3>1, <3>2
  <2>2. Len(gs) >= 1 /\ gs[1].fn = "main"
    <3>1. Len(fs) >= 1 /\ fs[1].fn = "main"
      BY DEF AreFrames
    <3>2. 1 \in 1..Len(fs)
      BY <1>1, <3>1
    <3>. QED  BY <1>1, <1>3, <3>1, <3>2
  <2>. QED  BY <1>3, <2>1, <2>2 DEF AreFrames
<1>. QED  BY <1>1, <1>3, <1>6, <1>7, <1>8 DEF gs, g

\* A step to the next instruction that changes the current frame.
LEMMA FrameStep ==
    ASSUME IInv, UNCHANGED <<prog, queue, left>>, KeepsFrames(frames, frames'),
           pc' \in {"main", "gortns", "done", "crashed", "overflow"},
           AreFrames(prog, frames', Len(defs'), loops', Len(sels')),
           AreDefs(defs'), AreLoops(loops'), IsSeq(sels'), funcs' \in Seq(1..Len(defs')),
           work' \in Seq(Items'), Matched(work', frames', defs')
    PROVE  IInv'
<1>1. Called(prog, frames) \subseteq Called(prog, frames')
  BY CalledStay
<1>2. queue \in Seq(Called(prog, frames)) /\ left \in Seq(Called(prog, frames))
  BY DEF IInv
<1>3. queue \in Seq(Called(prog, frames')) /\ left \in Seq(Called(prog, frames'))
  BY <1>1, <1>2, SeqMonotonic
<1>. QED  BY <1>3, Rebuilt

-----------------------------------------------------------------------------
(* Blocks. *)

\* A loop added.
LEMMA LoopAdded ==
    ASSUME NEW ls, AreLoops(ls), NEW l, IsLoop(l)
    PROVE  /\ AreLoops(Append(ls, l)) /\ KeepsParents(ls, Append(ls, l)) /\ Len(ls) \in Nat
           /\ Len(Append(ls, l)) = Len(ls) + 1 /\ Append(ls, l)[Len(ls) + 1] = l
<1>. DEFINE ms == Append(ls, l)
<1>1. /\ IsSeq(ms) /\ Len(ms) = Len(ls) + 1 /\ ms[Len(ls) + 1] = l /\ Len(ls) \in Nat
      /\ \A j \in 1..Len(ls) : ms[j] = ls[j]
  BY Appended DEF AreLoops, IsSeq
<1>. HIDE DEF ms
<1>2. \A j \in 1..Len(ms) : j \in 1..Len(ls) \/ j = Len(ls) + 1
  BY <1>1
<1>3. AreLoops(ms)
  BY <1>1, <1>2 DEF AreLoops
<1>4. KeepsParents(ls, ms)
  BY <1>1 DEF KeepsParents
<1>. QED  BY <1>1, <1>3, <1>4 DEF ms

\* The loop that a function starts with is one.
LEMMA NewLoopIsLoop ==
    ASSUME NEW k
    PROVE  IsLoop(NewLoop(k)) /\ NewLoop(k).parent = k
BY DEF NewLoop, IsLoop

\* Loops are only added to a frame.
LEMMA LoopsStay ==
    ASSUME NEW ls, NEW ms, KeepsParents(ls, ms), NEW k, NEW s \in Seq(LoopsOf(ls, k))
    PROVE  s \in Seq(LoopsOf(ms, k))
<1>1. LoopsOf(ls, k) \subseteq LoopsOf(ms, k)
  BY DEF LoopsOf, KeepsParents
<1>. QED  BY <1>1, SeqMonotonic

\* What a transition leaves: loops, and a loop and a stack of loops of the frame.
IsTransition(t) ==
    /\ AreLoops(t.loops) /\ KeepsParents(loops, t.loops)
    /\ t.loop \in 1..Len(t.loops) /\ t.loops[t.loop].parent = Top.fr
    /\ t.stack \in Seq(LoopsOf(t.loops, Top.fr))
Same(l) == [loops |-> Put(loops, Top.loop, l), loop |-> Top.loop, stack |-> Fr.loopstack]

\* The loop stack of the current frame has loops of that frame.
LEMMA FrameStack ==
    ASSUME IInv, Running
    PROVE  Fr.loopstack \in Seq(LoopsOf(loops, Top.fr)) /\ AreLoops(loops)
<1>1. Top.fr \in 1..Len(frames)
  BY AtTop
<1>. QED  BY <1>1, FramesFields DEF IInv, Fr

\* Changing nothing but the loop is a transition.
LEMMA SameIsTransition ==
    ASSUME IInv, Running, NEW l, IsLoop(l), l.parent = L.parent
    PROVE  IsTransition(Same(l))
<1>. DEFINE ls == Put(loops, Top.loop, l)
<1>1. Top.loop \in 1..Len(loops) /\ L.parent = Top.fr
  BY AtTop
<1>2. AreLoops(loops) /\ l.parent = loops[Top.loop].parent
  BY FrameStack DEF L
<1>3. AreLoops(ls) /\ KeepsParents(loops, ls) /\ Len(ls) = Len(loops) /\ ls[Top.loop] = l
  BY <1>1, <1>2, LoopReplaced
<1>. HIDE DEF ls
<1>4. Fr.loopstack \in Seq(LoopsOf(ls, Top.fr))
  BY <1>3, FrameStack, LoopsStay
<1>5. Same(l).loops = ls /\ Same(l).loop = Top.loop /\ Same(l).stack = Fr.loopstack
  BY DEF Same, ls
<1>. QED  BY <1>1, <1>3, <1>4, <1>5 DEF IsTransition

\* Out of a nested loop.
LEMMA OutIsTransition ==
    ASSUME IInv, Running, NEW l, IsLoop(l), l.parent = L.parent, Fr.loopstack # << >>
    PROVE  IsTransition([Same(l) EXCEPT !.loop = Last(Fr.loopstack),
                                        !.stack = Front(Fr.loopstack)])
<1>. DEFINE t == [Same(l) EXCEPT !.loop = Last(Fr.loopstack), !.stack = Front(Fr.loopstack)]
            ls == Same(l).loops
            st == Fr.loopstack
<1>1. AreLoops(ls) /\ KeepsParents(loops, ls) /\ st \in Seq(LoopsOf(ls, Top.fr))
  <2>1. IsTransition(Same(l)) /\ Same(l).stack = st
    BY SameIsTransition DEF Same
  <2>. QED  BY <2>1 DEF IsTransition
<1>2. t.loops = ls /\ t.loop = Last(st) /\ t.stack = Front(st)
  BY DEF Same
<1>. HIDE DEF t, ls, st
<1>3. Len(st) \in Nat \ {0}
  BY <1>1, EmptySeq DEF st
<1>4. Last(st) \in LoopsOf(ls, Top.fr)
  <2>1. Len(st) \in 1..Len(st)
    BY <1>3
  <2>. QED  BY <1>1, <2>1, ElementOfSeq DEF Last
<1>5. Front(st) \in Seq(LoopsOf(ls, Top.fr))
  <2>. DEFINE n == Len(st)
  <2>1. n \in Nat \ {0}
    BY <1>3
  <2>2. Front(st) = SubSeq(st, 1, n - 1)
    BY DEF Front
  <2>. HIDE DEF n
  <2>3. \A i \in 1..(n-1) : st[i] \in LoopsOf(ls, Top.fr)
    <3>1. \A i \in 1..(n-1) : i \in 1..n
      BY <2>1
    <3>. QED  BY <1>1, <3>1, ElementOfSeq DEF n
  <2>4. n - 1 \in Nat
    BY <2>1
  <2>. QED  BY <1>1, <2>1, <2>2, <2>4, SubSeqProperties DEF n
<1>6. t.loop \in 1..Len(ls) /\ ls[t.loop].parent = Top.fr
  BY <1>2, <1>4 DEF LoopsOf
<1>7. IsTransition(t)
  BY <1>1, <1>2, <1>5, <1>6 DEF IsTransition
<1>. QED  BY <1>7 DEF t

\* Into a nested loop.
LEMMA IntoIsTransition ==
    ASSUME IInv, Running, NEW l, IsLoop(l), l.parent = Top.fr
    PROVE  IsTransition([loops |-> Append(loops, l), loop |-> Len(loops) + 1,
                         stack |-> Append(Fr.loopstack, Top.loop)])
<1>. DEFINE ls == Append(loops, l)
            st == Fr.loopstack
<1>1. /\ AreLoops(ls) /\ KeepsParents(loops, ls) /\ Len(ls) = Len(loops) + 1
      /\ Len(loops) \in Nat /\ ls[Len(loops) + 1] = l
  BY FrameStack, LoopAdded
<1>. HIDE DEF ls, st
<1>2. st \in Seq(LoopsOf(ls, Top.fr))
  BY <1>1, FrameStack, LoopsStay DEF st
<1>3. Top.loop \in LoopsOf(ls, Top.fr)
  <2>1. Top.loop \in 1..Len(loops) /\ loops[Top.loop].parent = Top.fr
    BY AtTop DEF L
  <2>. QED  BY <1>1, <2>1 DEF LoopsOf, KeepsParents
<1>4. Append(st, Top.loop) \in Seq(LoopsOf(ls, Top.fr))
  BY <1>2, <1>3, AppendProperties
<1>5. Len(loops) + 1 \in 1..Len(ls)
  BY <1>1
<1>. QED  BY <1>1, <1>4, <1>5 DEF IsTransition, ls, st

\* The fields of a loop that loopStateTransition sets.
LEMMA LoopSet ==
    ASSUME NEW l, IsLoop(l)
    PROVE  /\ \A state \in {"NonLoop", "Enter", "Body", "Exit"} :
                 IsLoop([l EXCEPT !.state = state]) /\ [l EXCEPT !.state = state].parent = l.parent
           /\ IsLoop([l EXCEPT !.bound = "Unknown"])
           /\ [l EXCEPT !.bound = "Unknown"].parent = l.parent
           /\ \A b : IsLoop([l EXCEPT !.block = b]) /\ [l EXCEPT !.block = b].parent = l.parent
<1>1. \A state \in {"NonLoop", "Enter", "Body", "Exit"} :
         IsLoop([l EXCEPT !.state = state]) /\ [l EXCEPT !.state = state].parent = l.parent
  BY DEF IsLoop
<1>2. /\ IsLoop([l EXCEPT !.bound = "Unknown"])
      /\ [l EXCEPT !.bound = "Unknown"].parent = l.parent
  BY DEF IsLoop
<1>3. \A b : IsLoop([l EXCEPT !.block = b]) /\ [l EXCEPT !.block = b].parent = l.parent
  BY DEF IsLoop
<1>. QED  BY <1>1, <1>2, <1>3

\* loopStateTransition yields a loop of the same frame, and a stack of loops of it.
LEMMA TransitionKept ==
    ASSUME IInv, Running, NEW b, NEW comment
    PROVE  IsTransition(Transition(b, comment))
<1>. DEFINE t == Transition(b, comment)
<1>1. IsLoop(L) /\ L.parent = Top.fr
  BY AtTop
<1>2. ASSUME NEW state \in {"NonLoop", "Enter", "Body", "Exit"}
      PROVE  /\ IsLoop([L EXCEPT !.state = state]) /\ [L EXCEPT !.state = state].parent = L.parent
             /\ IsLoop(Entered(b, state)) /\ Entered(b, state).parent = L.parent
             /\ IsLoop([L EXCEPT !.state = state, !.bound = "Unknown"])
             /\ [L EXCEPT !.state = state, !.bound = "Unknown"].parent = L.parent
  <2>. DEFINE u == [L EXCEPT !.state = state]
              v == [u EXCEPT !.bound = "Unknown"]
              w == [v EXCEPT !.block = b]
  <2>1. IsLoop(u) /\ u.parent = L.parent
    BY <1>1, LoopSet
  <2>2. Entered(b, state) = w /\ [L EXCEPT !.state = state, !.bound = "Unknown"] = v
    BY DEF Entered
  <2>3. IsLoop(v) /\ v.parent = u.parent
    <3>. HIDE DEF u
    <3>. QED  BY <2>1, LoopSet
  <2>4. IsLoop(w) /\ w.parent = v.parent
    <3>. HIDE DEF v
    <3>. QED  BY <2>3, LoopSet
  <2>. HIDE DEF v, w
  <2>. QED  BY <2>1, <2>2, <2>3, <2>4
<1>3. LET l == [NewLoop(Top.fr) EXCEPT !.state = "Enter", !.block = b]
      IN  IsLoop(l) /\ l.parent = Top.fr
  <2>. DEFINE n == NewLoop(Top.fr)
              u == [n EXCEPT !.state = "Enter"]
              l == [n EXCEPT !.state = "Enter", !.block = b]
  <2>1. IsLoop(n) /\ n.parent = Top.fr
    BY NewLoopIsLoop
  <2>. HIDE DEF n
  <2>2. IsLoop(u) /\ u.parent = Top.fr
    BY <2>1, LoopSet
  <2>3. l = [u EXCEPT !.block = b]
    OBVIOUS
  <2>. HIDE DEF u, l
  <2>4. IsLoop(l) /\ l.parent = Top.fr
    BY <2>2, <2>3, LoopSet
  <2>. QED  BY <2>4 DEF l, n
<1>4. \/ \E l : IsLoop(l) /\ l.parent = L.parent /\ t = Same(l)
      \/ /\ Fr.loopstack # << >>
         /\ t = [Same([L EXCEPT !.state = "Exit"]) EXCEPT !.loop = Last(Fr.loopstack),
                                                           !.stack = Front(Fr.loopstack)]
      \/ t = [loops |-> Append(loops, [NewLoop(Top.fr) EXCEPT !.state = "Enter", !.block = b]),
              loop |-> Len(loops) + 1, stack |-> Append(Fr.loopstack, Top.loop)]
  <2>1. \A l : Same(l) = [loops |-> [loops EXCEPT ![Top.loop] = l],
                          loop |-> Top.loop, stack |-> Fr.loopstack]
    BY DEF Same, Put
  <2>2. \/ t = Same(Entered(b, "Enter")) \/ t = Same(Entered(b, "Body"))
        \/ t = Same([L EXCEPT !.state = "Body"]) \/ t = Same([L EXCEPT !.state = "Exit"])
        \/ t = Same([L EXCEPT !.state = "Enter"])
        \/ t = Same([L EXCEPT !.state = "NonLoop", !.bound = "Unknown"]) \/ t = Same(L)
        \/ /\ Fr.loopstack # << >>
           /\ t = [Same([L EXCEPT !.state = "Exit"]) EXCEPT !.loop = Last(Fr.loopstack),
                                                             !.stack = Front(Fr.loopstack)]
        \/ t = [loops |-> Append(loops, [NewLoop(Top.fr) EXCEPT !.state = "Enter", !.block = b]),
                loop |-> Len(loops) + 1, stack |-> Append(Fr.loopstack, Top.loop)]
    BY <2>1 DEF Transition
  <2>. HIDE DEF t
  <2>. QED  BY <1>1, <1>2, <2>2
<1>. HIDE DEF t
<1>5. IsLoop([L EXCEPT !.state = "Exit"]) /\ [L EXCEPT !.state = "Exit"].parent = L.parent
  BY <1>2
<1>6. IsTransition(t)
  BY <1>1, <1>3, <1>4, <1>5, SameIsTransition, OutIsTransition, IntoIsTransition
<1>. QED  BY <1>6 DEF t

\* The frame of the top of the work, and a change of it.
LEMMA FieldsOfFrame ==
    ASSUME IInv, Running
    PROVE  /\ Top.fr \in 1..Len(frames) /\ Fr \in FrameOf(prog)
           /\ Fr = [fn |-> Fr.fn, caller |-> Fr.caller, def |-> Fr.def, visited |-> Fr.visited,
                    defers |-> Fr.defers, selects |-> Fr.selects, loopstack |-> Fr.loopstack]
           /\ Fr.def \in 1..Len(defs) /\ Fr.visited \subseteq 1..Len(prog[Fn])
           /\ Fr.selects \subseteq 1..Len(sels) /\ Len(Fr.defers) \in Nat
           /\ Fr.loopstack \in Seq(LoopsOf(loops, Top.fr)) /\ Fr.loopstack \in Seq(Nat)
           /\ Fr.defers \in Seq(DeferredIn(prog))
<1>1. /\ Top.fr \in 1..Len(frames) /\ Fr \in FrameOf(prog) /\ Fr.def \in 1..Len(defs)
      /\ Fn \in DOMAIN prog
  BY AtTop
<1>2. /\ Fr.visited \subseteq 1..Len(prog[Fn]) /\ Fr.selects \subseteq 1..Len(sels)
  BY <1>1, Zenon DEF IInv, AreFrames, Fr, Fn
<1>3. /\ Fr.loopstack \in Seq(LoopsOf(loops, Top.fr)) /\ Len(Fr.defers) \in Nat
  BY <1>1, FramesFields DEF IInv, Fr
<1>4. /\ Fr = [fn |-> Fr.fn, caller |-> Fr.caller, def |-> Fr.def, visited |-> Fr.visited,
               defers |-> Fr.defers, selects |-> Fr.selects, loopstack |-> Fr.loopstack]
      /\ Fr.loopstack \in Seq(Nat) /\ Fr.defers \in Seq(DeferredIn(prog))
  BY <1>1 DEF FrameOf
<1>. QED  BY <1>1, <1>2, <1>3, <1>4

\* The current frame replaced, whatever is added elsewhere.
LEMMA FrameSet ==
    ASSUME IInv, Running, prog' = prog, KeepsParents(loops, loops'),
           Within(Len(defs), Len(defs')), Within(Len(sels), Len(sels')),
           NEW g \in FrameOf(prog), g.fn = Fr.fn, g.caller = Fr.caller,
           g.def \in 1..Len(defs'), g.visited \subseteq 1..Len(prog[Fn]),
           g.selects \subseteq 1..Len(sels'), g.loopstack \in Seq(LoopsOf(loops', Top.fr)),
           Len(Fr.defers) <= Len(g.defers), frames' = Put(frames, Top.fr, g)
    PROVE  /\ AreFrames(prog, frames', Len(defs'), loops', Len(sels'))
           /\ KeepsFrames(frames, frames') /\ frames'[Top.fr] = g
           /\ \A j \in 1..Len(frames) : j # Top.fr => frames'[j] = frames[j]
           /\ g.def = Fr.def => KeepsDefs(frames, frames')
<1>1. /\ Top.fr \in 1..Len(frames) /\ g.fn = frames[Top.fr].fn
      /\ g.caller = frames[Top.fr].caller /\ Len(frames[Top.fr].defers) <= Len(g.defers)
      /\ AreFrames(prog, frames, Len(defs), loops, Len(sels))
  BY FieldsOfFrame DEF IInv, Fr
<1>2. g.fn \in DOMAIN prog => g.visited \subseteq 1..Len(prog[g.fn])
  BY DEF Fn
<1>3. /\ AreFrames(prog, frames', Len(defs'), loops', Len(sels'))
      /\ KeepsFrames(frames, frames') /\ frames'[Top.fr] = g
      /\ \A j \in 1..Len(frames) : j # Top.fr => frames'[j] = frames[j]
  <2>. DEFINE gs == Put(frames, Top.fr, g)
  <2>1. /\ AreFrames(prog, gs, Len(defs'), loops', Len(sels')) /\ KeepsFrames(frames, gs)
        /\ gs[Top.fr] = g /\ \A j \in 1..Len(frames) : j # Top.fr => gs[j] = frames[j]
    <3>. DEFINE ls == loops'
                nd == Len(defs)
                ne == Len(defs')
                ns == Len(sels)
                nt == Len(sels')
                fs == frames
                k  == Top.fr
    <3>1. /\ KeepsParents(loops, ls) /\ Within(nd, ne) /\ Within(ns, nt)
          /\ AreFrames(prog, fs, nd, loops, ns) /\ k \in 1..Len(fs)
          /\ g \in FrameOf(prog) /\ g.fn = fs[k].fn /\ g.caller = fs[k].caller
          /\ g.def \in 1..ne
          /\ g.fn \in DOMAIN prog => g.visited \subseteq 1..Len(prog[g.fn])
          /\ g.selects \subseteq 1..nt /\ g.loopstack \in Seq(LoopsOf(ls, k))
          /\ Len(fs[k].defers) <= Len(g.defers)
      BY <1>1, <1>2
    <3>. HIDE DEF ls, nd, ne, ns, nt, fs, k, gs
    <3>2. /\ AreFrames(prog, Put(fs, k, g), ne, ls, nt) /\ KeepsFrames(fs, Put(fs, k, g))
          /\ Put(fs, k, g)[k] = g
          /\ \A j \in 1..Len(fs) : j # k => Put(fs, k, g)[j] = fs[j]
      BY <3>1, FrameReplaced
    <3>. QED  BY <3>2 DEF ls, ne, nt, fs, k, gs
  <2>. HIDE DEF gs
  <2>2. frames' = gs
    BY DEF gs
  <2>. QED  BY <2>1, <2>2
<1>. QED  BY <1>3 DEF KeepsDefs, Fr

\* Only the stack of loops and the blocks visited change.
LEMMA VisitedSet ==
    ASSUME IInv, Running, prog' = prog, KeepsParents(loops, loops'),
           UNCHANGED <<defs, sels>>, NEW st \in Seq(LoopsOf(loops', Top.fr)),
           NEW vs, vs \subseteq 1..Len(prog[Fn]),
           frames' = [frames EXCEPT ![Top.fr] = [Fr EXCEPT !.loopstack = st, !.visited = vs]]
    PROVE  /\ AreFrames(prog, frames', Len(defs'), loops', Len(sels'))
           /\ KeepsFrames(frames, frames') /\ KeepsDefs(frames, frames')
<1>. DEFINE g == [fn |-> Fr.fn, caller |-> Fr.caller, def |-> Fr.def, visited |-> vs,
                  defers |-> Fr.defers, selects |-> Fr.selects, loopstack |-> st]
<1>1. [Fr EXCEPT !.loopstack = st, !.visited = vs] = g
  <2>. DEFINE h == [fn |-> Fr.fn, caller |-> Fr.caller, def |-> Fr.def, visited |-> Fr.visited,
                    defers |-> Fr.defers, selects |-> Fr.selects, loopstack |-> st]
  <2>0. Fr = [fn |-> Fr.fn, caller |-> Fr.caller, def |-> Fr.def, visited |-> Fr.visited,
              defers |-> Fr.defers, selects |-> Fr.selects, loopstack |-> Fr.loopstack]
    BY FieldsOfFrame, Zenon
  <2>1. [Fr EXCEPT !.loopstack = st] = h
    BY <2>0
  <2>2. [h EXCEPT !.visited = vs] = g
    OBVIOUS
  <2>. HIDE DEF g, h
  <2>. QED  BY <2>1, <2>2, Zenon
<1>2. g \in FrameOf(prog)
  <2>1. st \in Seq(Nat) /\ vs \in SUBSET Nat
    <3>1. LoopsOf(loops', Top.fr) \subseteq Nat
      BY DEF LoopsOf
    <3>2. st \in Seq(Nat)
      BY <3>1, SeqMonotonic
    <3>. QED  BY <3>2
  <2>. QED  BY <2>1, FieldsOfFrame DEF FrameOf
<1>3. /\ Within(Len(defs), Len(defs')) /\ Within(Len(sels), Len(sels'))
  BY Unchanged
<1>4. /\ g.fn = Fr.fn /\ g.caller = Fr.caller /\ g.def = Fr.def /\ g.visited = vs
      /\ g.defers = Fr.defers /\ g.selects = Fr.selects /\ g.loopstack = st
  OBVIOUS
<1>5. frames' = Put(frames, Top.fr, g)
  BY <1>1 DEF Put
<1>. HIDE DEF g
<1>6. /\ Fr.def \in 1..Len(defs') /\ Fr.selects \subseteq 1..Len(sels')
      /\ Len(Fr.defers) <= Len(g.defers)
  BY <1>4, FieldsOfFrame
<1>. QED  BY <1>2, <1>3, <1>4, <1>5, <1>6, FrameSet

\* visitBasicBlock, with the state of the loop.
LEMMA BlockStep == ASSUME IInv, VisitBasicBlock PROVE IInv'
<1>. DEFINE t == Transition(Top.b, prog[Fn][Top.b].comment)
            y == Item("ins", Top.fr, Top.b, 1, t.loop, 0)
<1>1. /\ Running /\ Top.do = "block" /\ Fr.def \in 1..Len(defs) /\ AreDefs(defs)
      /\ UNCHANGED <<prog, pc, defs, funcs, sels, queue, left>> /\ loops' = t.loops
      /\ Top.b \in 1..Len(prog[Fn]) /\ Top.fr \in Called(prog, frames) /\ Top.b \in Nat
      /\ pc' \in {"main", "gortns", "done", "crashed", "overflow"}
      /\ IsProgram(prog) /\ Fn \in DOMAIN prog
  <2>1. Running /\ Top.do = "block" /\ UNCHANGED <<prog, pc, defs, funcs, sels, queue, left>>
    BY DEF VisitBasicBlock, Doing
  <2>2. loops' = t.loops
    BY Zenon DEF VisitBasicBlock
  <2>. QED  BY <2>1, <2>2, AtTop
<1>2. /\ \/ /\ frames' = [frames EXCEPT ![Top.fr] = [Fr EXCEPT !.loopstack = t.stack,
                                                     !.visited = @ \cup {Top.b}]]
            /\ work' = <<y>> \o Pop
         \/ /\ frames' = [frames EXCEPT ![Top.fr] = [Fr EXCEPT !.loopstack = t.stack]]
            /\ work' = Pop
  <2>. HIDE DEF t
  <2>1. Top.fr \in DOMAIN frames
    BY <1>1, FieldsOfFrame, Tabled, IsSeqOf DEF IInv, AreFrames
  <2>. QED  BY <2>1 DEF VisitBasicBlock, t, Fr
<1>3. IsTransition(t)
  BY <1>1, TransitionKept
<1>. HIDE DEF t
<1>4. /\ AreLoops(loops') /\ KeepsParents(loops, loops') /\ t.loop \in 1..Len(loops')
      /\ loops'[t.loop].parent = Top.fr /\ t.stack \in Seq(LoopsOf(loops', Top.fr))
  BY <1>1, <1>3 DEF IsTransition
<1>5. /\ AreFrames(prog, frames', Len(defs'), loops', Len(sels'))
      /\ KeepsFrames(frames, frames') /\ KeepsDefs(frames, frames')
  <2>1. PICK vs \in SUBSET (1..Len(prog[Fn])) :
            frames' = [frames EXCEPT ![Top.fr] = [Fr EXCEPT !.loopstack = t.stack, !.visited = vs]]
    <3>1. Fr.visited \subseteq 1..Len(prog[Fn])
      BY <1>1, FieldsOfFrame
    <3>2. CASE frames' = [frames EXCEPT ![Top.fr] = [Fr EXCEPT !.loopstack = t.stack,
                                                     !.visited = @ \cup {Top.b}]]
      <4>1. Fr.visited \cup {Top.b} \in SUBSET (1..Len(prog[Fn]))
        BY <1>1, <3>1
      <4>2. [Fr EXCEPT !.loopstack = t.stack, !.visited = @ \cup {Top.b}] =
            [Fr EXCEPT !.loopstack = t.stack, !.visited = Fr.visited \cup {Top.b}]
        BY <1>1, FieldsOfFrame
      <4>. QED  BY <3>2, <4>1, <4>2
    <3>3. CASE frames' = [frames EXCEPT ![Top.fr] = [Fr EXCEPT !.loopstack = t.stack]]
      <4>1. [Fr EXCEPT !.loopstack = t.stack] =
            [Fr EXCEPT !.loopstack = t.stack, !.visited = Fr.visited]
        BY <1>1, FieldsOfFrame
      <4>. QED  BY <3>1, <3>3, <4>1
    <3>. QED  BY <1>2, <3>2, <3>3
  <2>. QED  BY <1>1, <1>4, <2>1, VisitedSet
<1>6. /\ Stacked(defs, defs', Fr.def, 0) /\ Within(Len(sels), Len(sels')) /\ IsSeq(sels')
      /\ funcs' \in Seq(1..Len(defs')) /\ Weight(Top) = 0 /\ Weight(Top) + 0 = 0
  <2>1. Weight(Top) = 0
    BY <1>1, Weights
  <2>. QED  BY <1>1, <2>1, Unchanged DEF IInv
<1>7. y \in Items' /\ y.do = "ins" /\ y.fr = Top.fr
  <2>1. Top.fr \in Called(prog, frames')
    BY <1>1, <1>5, CalledStay
  <2>2. frames'[Top.fr].fn = Fn
    BY <1>1, <1>5, FieldsOfFrame DEF KeepsFrames, Fn, Fr
  <2>3. 1 \in 1..Len(prog[Fn][Top.b].ins)
    BY <1>1, BlockOfProgram
  <2>4. /\ y \in [do : WorkKind, fr : Called(prog, frames'), b : Nat, i : Nat,
                  loop : 1..Len(loops'), at : Nat]
        /\ y.do = "ins" /\ y.fr = Top.fr /\ y.b = Top.b /\ y.i = 1 /\ y.loop = t.loop
    BY <1>1, <1>4, <2>1 DEF Item, WorkKind
  <2>. HIDE DEF y
  <2>5. y \in ItemsOf(prog, frames', Len(defs'), loops', Len(sels'))
    BY <1>1, <1>4, <2>2, <2>3, <2>4 DEF ItemsOf
  <2>. QED  BY <1>1, <2>4, <2>5 DEF Items
<1>. HIDE DEF y
<1>8. Weight(y) = Weight(Top) + 0
  BY <1>6, <1>7, Weights
<1>9. work' \in Seq(Items') /\ Matched(work', frames', defs')
  <2>1. /\ Pop \in Seq(Items') /\ Matched(Pop, frames', defs')
        /\ \A x \in Items' : x.do # "back" /\ x.fr = Top.fr /\ Weight(x) = Weight(Top) + 0 =>
              <<x>> \o Pop \in Seq(Items') /\ Matched(<<x>> \o Pop, frames', defs')
    BY <1>1, <1>4, <1>5, <1>6, OnTo
  <2>2. <<y>> \o Pop \in Seq(Items') /\ Matched(<<y>> \o Pop, frames', defs')
    BY <1>7, <1>8, <2>1
  <2>. QED  BY <1>2, <2>1, <2>2
<1>. QED  BY <1>1, <1>4, <1>5, <1>6, <1>9, FrameStep

-----------------------------------------------------------------------------
(* Jumps into new definitions. *)

\* Only the definition of the frame changes.
LEMMA DefSet ==
    ASSUME IInv, Running, prog' = prog, KeepsParents(loops, loops'),
           Within(Len(defs), Len(defs')), Within(Len(sels), Len(sels')),
           NEW d \in 1..Len(defs'), frames' = [frames EXCEPT ![Top.fr].def = d]
    PROVE  /\ AreFrames(prog, frames', Len(defs'), loops', Len(sels'))
           /\ KeepsFrames(frames, frames') /\ frames'[Top.fr].def = d
           /\ Called(prog, frames') = Called(prog, frames)
           /\ \A j \in 1..Len(frames) : j # Top.fr => frames'[j] = frames[j]
<1>. DEFINE g == [fn |-> Fr.fn, caller |-> Fr.caller, def |-> d, visited |-> Fr.visited,
                  defers |-> Fr.defers, selects |-> Fr.selects, loopstack |-> Fr.loopstack]
<1>1. Fr = [fn |-> Fr.fn, caller |-> Fr.caller, def |-> Fr.def, visited |-> Fr.visited,
            defers |-> Fr.defers, selects |-> Fr.selects, loopstack |-> Fr.loopstack]
  BY FieldsOfFrame, Zenon
<1>2. [Fr EXCEPT !.def = d] = g
  BY <1>1
<1>3. g \in FrameOf(prog)
  <2>1. d \in Nat
    BY DEF Within
  <2>2. Fr \in FrameOf(prog)
    BY FieldsOfFrame
  <2>. QED  BY <2>1, <2>2 DEF FrameOf
<1>4. /\ g.fn = Fr.fn /\ g.caller = Fr.caller /\ g.def = d /\ g.visited = Fr.visited
      /\ g.defers = Fr.defers /\ g.selects = Fr.selects /\ g.loopstack = Fr.loopstack
  OBVIOUS
<1>5. frames' = Put(frames, Top.fr, g)
  BY <1>2 DEF Put, Fr
<1>. HIDE DEF g
<1>6. /\ g.def \in 1..Len(defs') /\ g.visited \subseteq 1..Len(prog[Fn])
      /\ g.selects \subseteq 1..Len(sels') /\ g.loopstack \in Seq(LoopsOf(loops', Top.fr))
      /\ Len(Fr.defers) <= Len(g.defers)
  <2>1. g.loopstack \in Seq(LoopsOf(loops', Top.fr))
    BY <1>4, FieldsOfFrame, LoopsStay
  <2>2. /\ g.visited \subseteq 1..Len(prog[Fn]) /\ g.selects \subseteq 1..Len(sels)
        /\ Len(Fr.defers) <= Len(g.defers)
    BY <1>4, FieldsOfFrame
  <2>. QED  BY <1>4, <2>1, <2>2 DEF Within
<1>7. /\ AreFrames(prog, frames', Len(defs'), loops', Len(sels'))
      /\ KeepsFrames(frames, frames') /\ frames'[Top.fr] = g
      /\ \A j \in 1..Len(frames) : j # Top.fr => frames'[j] = frames[j]
  BY <1>3, <1>4, <1>5, <1>6, FrameSet
<1>8. Called(prog, frames') = Called(prog, frames)
  <2>1. IsSeq(frames)
    BY IsSeqOf DEF IInv, AreFrames
  <2>2. Len(frames') = Len(frames)
    BY <1>5, <2>1, Replaced, FieldsOfFrame
  <2>. QED  BY <1>7, <2>2 DEF Called, KeepsFrames
<1>. QED  BY <1>4, <1>7, <1>8

\* AddFunction adds a definition.
LEMMA FuncAdded ==
    ASSUME IInv, Within(Len(defs), Len(defs')), NEW ds, NEW d \in 1..Len(defs')
    PROVE  AddFunction(ds, d) \in Seq(1..Len(defs'))
<1>1. funcs \in Seq(1..Len(defs'))
  BY FuncsStay
<1>2. Append(funcs, d) \in Seq(1..Len(defs'))
  BY <1>1, AppendProperties
<1>. QED  BY <1>1, <1>2 DEF AddFunction

\* visitJump hands the older definition back.
LEMMA EndJumpStep == ASSUME IInv, EndJump PROVE IInv'
<1>. DEFINE d == Top.at
            K == Called(prog, frames)
<1>1. /\ Running /\ Top.do = "back" /\ Top \in Items /\ AreDefs(defs) /\ OfFrames(Items, K)
      /\ UNCHANGED <<prog, pc, defs, funcs, loops, sels, queue, left>> /\ work' = Pop
      /\ frames' = [frames EXCEPT ![Top.fr].def = d] /\ Pop \in Seq(Items)
      /\ pc' \in {"main", "gortns", "done", "crashed", "overflow"}
      /\ Matched(<<Top>> \o Pop, frames, defs)
  <2>1. /\ Running /\ Top.do = "back" /\ work' = Pop
        /\ UNCHANGED <<prog, pc, defs, funcs, loops, sels, queue, left>>
        /\ frames' = [frames EXCEPT ![Top.fr].def = d]
    BY DEF EndJump, Doing, RestoredDef
  <2>2. /\ Top \in Items /\ AreDefs(defs) /\ OfFrames(Items, K) /\ Pop \in Seq(Items)
        /\ pc' \in {"main", "gortns", "done", "crashed", "overflow"}
    BY <2>1, AtTop
  <2>3. Matched(<<Top>> \o Pop, frames, defs)
    BY <2>1, AtTop, Zenon
  <2>. QED  BY <2>1, <2>2, <2>3
<1>2. d \in 1..Len(defs')
  BY <1>1, ItemsOfFrames DEF Items
<1>3. /\ KeepsParents(loops, loops') /\ Within(Len(defs), Len(defs'))
      /\ Within(Len(sels), Len(sels')) /\ AreDefs(defs') /\ AreLoops(loops') /\ IsSeq(sels')
      /\ funcs' \in Seq(1..Len(defs'))
  BY <1>1, Unchanged DEF IInv
<1>4. /\ AreFrames(prog, frames', Len(defs'), loops', Len(sels'))
      /\ KeepsFrames(frames, frames') /\ frames'[Top.fr].def = d
      /\ Called(prog, frames') = Called(prog, frames)
      /\ \A j \in 1..Len(frames) : j # Top.fr => frames'[j] = frames[j]
  BY <1>1, <1>2, <1>3, DefSet
<1>5. Items \subseteq Items'
  BY <1>1, <1>3, <1>4, ItemsStay
<1>6. Sets(Top, frames, frames', K)
  BY <1>1, <1>4 DEF Sets, Called
<1>. HIDE DEF K, d
<1>7. Matched(Pop, frames', defs)
  <2>1. Owing(Pop, frames', defs, frames[Top.fr].def, Weight(Top))
    BY <1>1, <1>6, PopMatched
  <2>2. Weight(Top) = 0
    BY <1>1, Weights
  <2>. QED  BY <1>1, <2>1, <2>2, NothingOwed
<1>8. work' \in Seq(Items') /\ Matched(work', frames', defs')
  <2>1. Pop \in Seq(Items')
    BY <1>1, <1>5, SeqMonotonic
  <2>. QED  BY <1>1, <1>7, <2>1
<1>. QED  BY <1>1, <1>3, <1>4, <1>8, FrameStep

\* An item that asks for nothing on top of one that matches.
LEMMA TwoPushed ==
    ASSUME NEW p, NEW fs, NEW ls, NEW ds, NEW ns, NEW nd,
           NEW s \in Seq(ItemsOf(p, fs, nd, ls, ns)), NEW y \in ItemsOf(p, fs, nd, ls, ns),
           NEW z \in ItemsOf(p, fs, nd, ls, ns), z.do # "back", Weight(z) = 0,
           Matched(<<y>> \o s, fs, ds)
    PROVE  Matched(<<z, y>> \o s, fs, ds) /\ <<z, y>> \o s \in Seq(ItemsOf(p, fs, nd, ls, ns))
<1>. DEFINE S == ItemsOf(p, fs, nd, ls, ns)
            t == <<y>> \o s
<1>1. <<z, y>> \o s = <<z>> \o t /\ t \in Seq(S)
  <2>. HIDE DEF S
  <2>1. s \in Seq(S) /\ y \in S /\ z \in S
    BY DEF S
  <2>2. <<z, y>> \o s = <<z>> \o (<<y>> \o s)
    BY <2>1, TwoBefore
  <2>3. <<y>> \o s \in Seq(S)
    BY <2>1, OneBefore
  <2>. QED  BY <2>2, <2>3
<1>. HIDE DEF t
<1>2. Matched(<<z>> \o t, fs, ds) /\ <<z>> \o t \in Seq(ItemsOf(p, fs, nd, ls, ns))
  <2>1. t \in Seq(ItemsOf(p, fs, nd, ls, ns)) /\ Matched(t, fs, ds)
    BY <1>1 DEF t
  <2>. QED  BY <2>1, NothingPushed
<1>. QED  BY <1>1, <1>2

\* Items of the same frame as the top on what is left, with a new definition of the
\* frame: the item that will restore the old one, and a visit.
LEMMA IntoNew ==
    ASSUME IInv, Running, Top.do = "ins", UNCHANGED <<prog, sels>>,
           AreLoops(loops'), KeepsParents(loops, loops'),
           NEW ds, Stacked(defs, ds, Fr.def, 0), NEW name, NEW new, new = Append(ds, Def(name)),
           defs' = new, frames' = [frames EXCEPT ![Top.fr].def = Len(new)],
           NEW y, y = Then("back", Fr.def), NEW z \in Items, z.do = "block"
    PROVE  /\ AreDefs(defs') /\ Within(Len(defs), Len(defs')) /\ Len(new) \in 1..Len(defs')
           /\ AreFrames(prog, frames', Len(defs'), loops', Len(sels'))
           /\ KeepsFrames(frames, frames')
           /\ <<z, y>> \o Pop \in Seq(Items') /\ Matched(<<z, y>> \o Pop, frames', defs')
<1>. DEFINE S == ItemsOf(prog, frames, Len(ds), loops', Len(sels))
            K == Called(prog, frames)
            nd == Len(defs)
<1>1. /\ Top \in Items /\ Pop \in Seq(Items) /\ Fr.def \in 1..nd /\ OfFrames(Items, K)
      /\ Top.fr \in 1..Len(frames)
  BY AtTop
<1>2. /\ KeepsFrames(frames, frames) /\ KeepsDefs(frames, frames)
      /\ Within(Len(defs), Len(defs)) /\ Within(Len(sels), Len(sels)) /\ nd \in Nat
  BY Unchanged DEF Within
<1>3. AreDefs(ds) /\ Len(ds) = Len(defs)
  BY DEF Stacked
<1>4. Items \subseteq S
  BY <1>2, <1>3, WorkStays DEF Items
<1>5. Pop \in Seq(S) /\ Matched(Pop, frames, ds)
  <2>1. Weight(Top) + 0 = 0
    <3>1. Weight(Top) = 0
      BY Weights
    <3>. QED  BY <3>1
  <2>. QED  BY <1>2, <1>4, <2>1, StepOn
<1>6. OfFrames(S, K) /\ BacksIn(S, Len(ds))
  BY ItemsOfFrames DEF BacksIn
<1>7. DefsIn(frames, K, Len(ds))
  BY <1>3 DEF IInv, AreFrames, Called, DefsIn
<1>8. /\ AreDefs(new) /\ Len(new) = Len(ds) + 1 /\ Len(ds) \in Nat /\ Matched(Pop, frames, new)
  <2>. HIDE DEF S, K
  <2>. DEFINE es == Append(ds, Def(name))
  <2>1. /\ AreDefs(es) /\ Len(es) = Len(ds) + 1 /\ Len(ds) \in Nat /\ Matched(Pop, frames, es)
    BY <1>3, <1>5, <1>6, <1>7, DefMade
  <2>. QED  BY <2>1
<1>9. Len(new) \in 1..Len(defs') /\ Within(Len(defs), Len(defs')) /\ AreDefs(defs')
  BY <1>2, <1>3, <1>8 DEF Within
<1>10. /\ AreFrames(prog, frames', Len(defs'), loops', Len(sels'))
       /\ KeepsFrames(frames, frames') /\ frames'[Top.fr].def = Len(new)
       /\ Called(prog, frames') = K
       /\ \A j \in 1..Len(frames) : j # Top.fr => frames'[j] = frames[j]
  BY <1>2, <1>9, DefSet
<1>11. Items \subseteq Items'
  BY <1>2, <1>9, <1>10, ItemsStay
<1>12. y \in Items /\ y.do = "back" /\ y.fr = Top.fr
  <2>1. Top.do \notin {"block", "defers", "deferred"}
    BY DEF Branches
  <2>2. Top \in ItemsOf(prog, frames, nd, loops, Len(sels)) /\ Fr.def \in 1..nd /\ nd \in Nat
    BY <1>1, <1>2 DEF Items
  <2>. HIDE DEF nd
  <2>3. /\ Then("back", Fr.def) \in ItemsOf(prog, frames, nd, loops, Len(sels))
        /\ Then("back", Fr.def).do = "back" /\ Then("back", Fr.def).fr = Top.fr
    BY <2>1, <2>2, BackIsWork
  <2>. QED  BY <2>3 DEF Items, nd
<1>13. y.at = Fr.def
  BY <1>1, AtTop DEF Then
<1>14. Items' = ItemsOf(prog, frames', Len(defs'), loops', Len(sels')) /\ OfFrames(Items', K)
  BY <1>10, ItemsOfFrames DEF Items
<1>15. Sets(y, frames', frames, K)
  <2>1. ASSUME NEW k \in K
        PROVE  frames[k].def = IF y.do = "back" /\ y.fr = k THEN y.at ELSE frames'[k].def
    BY <1>10, <1>12, <1>13 DEF Called, Fr
  <2>. QED  BY <2>1 DEF Sets
<1>. DEFINE T == Items'
<1>16. Pop \in Seq(T) /\ y \in T /\ z \in T
  BY <1>1, <1>11, <1>12, SeqMonotonic
<1>. HIDE DEF S, K, T
<1>17. Owing(Pop, frames, new, frames'[y.fr].def, Weight(y))
  <2>1. Weight(y) = 0
    BY <1>12, Weights
  <2>. QED  BY <1>5, <1>6, <1>8, <2>1, NothingOwed
<1>18. Matched(<<y>> \o Pop, frames', new)
  <2>1. OfFrames(T, K)
    BY <1>14 DEF T
  <2>. QED  BY <1>15, <1>16, <1>17, <2>1, PushMatched
<1>. HIDE DEF T
<1>19. <<z, y>> \o Pop \in Seq(T) /\ Matched(<<z, y>> \o Pop, frames', new)
  <2>. DEFINE U == ItemsOf(prog, frames', Len(defs'), loops', Len(sels'))
  <2>1. U = T
    BY <1>14 DEF T
  <2>2. Pop \in Seq(U) /\ y \in U /\ z \in U /\ z.do # "back" /\ Weight(z) = 0
    BY <1>16, <2>1, Weights
  <2>3. <<z, y>> \o Pop \in Seq(U) /\ Matched(<<z, y>> \o Pop, frames', new)
    BY <1>18, <2>2, TwoPushed
  <2>. QED  BY <2>1, <2>3
<1>. QED  BY <1>9, <1>10, <1>19 DEF T

\* visitJump, with a definition for its target or without.
LEMMA JumpStep == ASSUME IInv, VisitJump PROVE IInv'
<1>. DEFINE l == [L EXCEPT !.state = "NonLoop"]
            next == SuccOf(1)
            join == Cardinality(Preds(prog, Fn, next)) > 1
            ds == IF join THEN AddStmts(Fr.def, <<CallOf(next)>>) ELSE defs
            new == Append(ds, Def(NewName(next)))
            y == Then("back", Fr.def)
            z == Succ(1)
<1>1. /\ Running /\ Top.do = "ins" /\ Cur.op = "jump" /\ Fr.def \in 1..Len(defs)
      /\ Top.loop \in 1..Len(loops) /\ IsLoop(L) /\ AreDefs(defs)
      /\ UNCHANGED <<prog, pc, sels, queue, left>>
      /\ pc' \in {"main", "gortns", "done", "crashed", "overflow"}
  BY AtTop DEF VisitJump, OnIns, Doing
<1>2. z \in Items /\ z.do = "block" /\ z.fr = Top.fr
  <2>1. Len(prog[Fn][Top.b].succs) = 1
    BY <1>1, AtInstruction
  <2>2. 1 \in 1..Len(prog[Fn][Top.b].succs)
    BY <2>1
  <2>. QED  BY <1>1, <2>2, SuccIsWork
<1>3. AreLoops(loops') /\ KeepsParents(loops, loops')
  <2>1. IsLoop(l) /\ l.parent = L.parent
    BY <1>1, LoopSet
  <2>2. loops' = Put(loops, Top.loop, l) \/ loops' = loops
    BY DEF VisitJump, Put, L
  <2>. HIDE DEF l
  <2>3. CASE loops' = Put(loops, Top.loop, l)
    BY <1>1, <2>1, <2>3, LoopReplaced, FrameStack DEF L
  <2>4. CASE loops' = loops
    BY <2>4, Unchanged DEF IInv
  <2>. QED  BY <2>2, <2>3, <2>4
<1>4. Stacked(defs, ds, Fr.def, 0)
  BY <1>1, Lists, Unchanged
<1>5. /\ KeepsFrames(frames, frames) /\ KeepsDefs(frames, frames) /\ Within(Len(sels), Len(sels'))
      /\ IsSeq(sels')
  BY <1>1, Unchanged DEF IInv
<1>6. \/ /\ defs' = new /\ funcs' = AddFunction(new, Len(new))
         /\ frames' = [frames EXCEPT ![Top.fr].def = Len(new)]
         /\ work' = <<z, y>> \o Pop
      \/ defs' = ds /\ work' = <<z>> \o Pop /\ UNCHANGED <<funcs, frames>>
  BY Zenon DEF VisitJump
<1>. HIDE DEF next, join
<1>7. CASE /\ defs' = new /\ funcs' = AddFunction(new, Len(new))
           /\ frames' = [frames EXCEPT ![Top.fr].def = Len(new)]
           /\ work' = <<z, y>> \o Pop
  <2>. HIDE DEF ds, z
  <2>1. /\ AreDefs(defs') /\ Within(Len(defs), Len(defs')) /\ Len(new) \in 1..Len(defs')
        /\ AreFrames(prog, frames', Len(defs'), loops', Len(sels'))
        /\ KeepsFrames(frames, frames')
        /\ <<z, y>> \o Pop \in Seq(Items') /\ Matched(<<z, y>> \o Pop, frames', defs')
    BY <1>1, <1>2, <1>3, <1>4, <1>7, IntoNew
  <2>. HIDE DEF new, y
  <2>2. funcs' \in Seq(1..Len(defs'))
    BY <1>7, <2>1, FuncAdded
  <2>. QED  BY <1>1, <1>3, <1>5, <1>7, <2>1, <2>2, FrameStep
<1>8. CASE defs' = ds /\ work' = <<z>> \o Pop /\ UNCHANGED <<funcs, frames>>
  <2>. HIDE DEF ds, z
  <2>1. Stacked(defs, defs', Fr.def, 0) /\ Weight(Top) = 0 /\ Weight(z) = 0
        /\ Weight(z) = Weight(Top) + 0
    <3>1. Weight(Top) = 0 /\ Weight(z) = 0
      BY <1>1, <1>2, Weights
    <3>. QED  BY <1>4, <1>8, <3>1
  <2>2. /\ Items \subseteq Items'
        /\ \A x \in Items' : x.do # "back" /\ x.fr = Top.fr /\ Weight(x) = Weight(Top) + 0 =>
              <<x>> \o Pop \in Seq(Items') /\ Matched(<<x>> \o Pop, frames', defs')
    BY <1>1, <1>3, <1>5, <1>8, <2>1, OnTo
  <2>3. work' \in Seq(Items') /\ Matched(work', frames', defs')
    BY <1>2, <1>8, <2>1, <2>2
  <2>. QED  BY <1>1, <1>3, <1>5, <1>8, <2>1, <2>3, Moves
<1>. QED  BY <1>6, <1>7, <1>8

-----------------------------------------------------------------------------
(* Selects and deferred calls. *)

\* From one instruction to the next with another frame.
LEMMA OnwardsWith ==
    ASSUME IInv, Running, Top.do = "ins", work' = Rest,
           UNCHANGED <<prog, pc, funcs, loops, queue, left>>,
           Stacked(defs, defs', Fr.def, 0), IsSeq(sels'), Within(Len(sels), Len(sels')),
           NEW g \in FrameOf(prog), g.fn = Fr.fn, g.caller = Fr.caller, g.def = Fr.def,
           g.visited = Fr.visited, g.selects \subseteq 1..Len(sels'),
           g.loopstack = Fr.loopstack, Len(Fr.defers) <= Len(g.defers),
           frames' = Put(frames, Top.fr, g)
    PROVE  IInv'
<1>1. /\ KeepsParents(loops, loops') /\ AreLoops(loops') /\ AreDefs(defs')
      /\ Within(Len(defs), Len(defs')) /\ funcs' \in Seq(1..Len(defs'))
      /\ pc' \in {"main", "gortns", "done", "crashed", "overflow"} /\ Len(defs') = Len(defs)
  <2>1. Len(defs') = Len(defs) /\ AreDefs(defs')
    BY DEF Stacked
  <2>2. Within(Len(defs), Len(defs'))
    BY <2>1, Unchanged
  <2>. QED  BY <2>1, <2>2, Unchanged, AtTop DEF IInv
<1>2. /\ g.def \in 1..Len(defs') /\ g.visited \subseteq 1..Len(prog[Fn])
      /\ g.loopstack \in Seq(LoopsOf(loops', Top.fr))
  BY <1>1, FieldsOfFrame
<1>3. /\ AreFrames(prog, frames', Len(defs'), loops', Len(sels'))
      /\ KeepsFrames(frames, frames') /\ KeepsDefs(frames, frames')
  BY <1>1, <1>2, FrameSet
<1>4. /\ Items \subseteq ItemsOf(prog, frames', Len(defs'), loops', Len(sels'))
      /\ Items' = ItemsOf(prog, frames', Len(defs'), loops', Len(sels'))
  BY <1>1, <1>3, ItemsStay
<1>5. /\ Rest \in Seq(ItemsOf(prog, frames', Len(defs'), loops', Len(sels')))
      /\ Matched(Rest, frames', defs')
  BY <1>3, <1>4, RestIsWork
<1>6. work' \in Seq(Items') /\ Matched(work', frames', defs')
  BY <1>4, <1>5
<1>. QED  BY <1>1, <1>3, <1>6, FrameStep

\* visitSelect adds a select with its cases.
LEMMA SelectStep == ASSUME IInv, VisitSelect PROVE IInv'
<1>1. /\ Running /\ Top.do = "ins" /\ Fr.def \in 1..Len(defs) /\ AreDefs(defs)
      /\ UNCHANGED <<prog, funcs, loops, queue, left>>
  BY AtTop DEF VisitSelect, OnIns, Doing
<1>. DEFINE known == \A k \in DOMAIN Cur.args : Known(Cur.args[k].x)
            vs == Fr.selects \cup {SelNo}
            g == [fn |-> Fr.fn, caller |-> Fr.caller, def |-> Fr.def, visited |-> Fr.visited,
                  defers |-> Fr.defers, selects |-> vs, loopstack |-> Fr.loopstack]
<1>2. CASE known
  <2>1. /\ \E e : sels' = Append(sels, e)
        /\ frames' = [frames EXCEPT ![Top.fr].selects = vs]
        /\ defs' = AddStmts(Fr.def, <<SelStmt(SelNo)>>) /\ work' = Rest /\ pc' = pc
    BY <1>2 DEF VisitSelect, Fr
  <2>2. /\ IsSeq(sels') /\ Len(sels') = Len(sels) + 1 /\ Len(sels) \in Nat
    <3>1. IsSeq(sels) /\ Len(sels) \in Nat
      BY DEF IInv, IsSeq
    <3>2. PICK e : sels' = Append(sels, e)
      BY <2>1
    <3>. QED  BY <3>1, <3>2, Appended
  <2>3. Within(Len(sels), Len(sels')) /\ SelNo \in 1..Len(sels') /\ SelNo \in Nat
    BY <2>2 DEF Within, SelNo
  <2>4. Fr = [fn |-> Fr.fn, caller |-> Fr.caller, def |-> Fr.def, visited |-> Fr.visited,
              defers |-> Fr.defers, selects |-> Fr.selects, loopstack |-> Fr.loopstack]
    BY <1>1, FieldsOfFrame, Zenon
  <2>5. [Fr EXCEPT !.selects = vs] = g
    BY <2>4
  <2>6. vs \subseteq 1..Len(sels') /\ vs \in SUBSET Nat
    BY <1>1, <2>2, <2>3, FieldsOfFrame
  <2>7. g \in FrameOf(prog)
    <3>1. Fr \in FrameOf(prog)
      BY <1>1, FieldsOfFrame
    <3>. HIDE DEF vs
    <3>. QED  BY <2>6, <3>1 DEF FrameOf
  <2>8. /\ g.fn = Fr.fn /\ g.caller = Fr.caller /\ g.def = Fr.def /\ g.visited = Fr.visited
        /\ g.defers = Fr.defers /\ g.selects = vs /\ g.loopstack = Fr.loopstack
    OBVIOUS
  <2>9. frames' = Put(frames, Top.fr, g)
    BY <2>1, <2>5 DEF Put, Fr
  <2>. HIDE DEF g, vs, known
  <2>10. Len(Fr.defers) <= Len(g.defers) /\ g.selects \subseteq 1..Len(sels')
    BY <1>1, <2>6, <2>8, FieldsOfFrame
  <2>11. Stacked(defs, defs', Fr.def, 0)
    BY <1>1, <2>1, Lists
  <2>. QED  BY <1>1, <2>1, <2>2, <2>3, <2>7, <2>8, <2>9, <2>10, <2>11, OnwardsWith
<1>3. CASE ~known
  <2>1. pc' = "crashed" /\ UNCHANGED <<work, frames, defs, sels>>
    BY <1>3 DEF VisitSelect
  <2>. QED  BY <1>1, <2>1, Stops
<1>. QED  BY <1>2, <1>3

\* visitDefer.
LEMMA DeferStep == ASSUME IInv, VisitDefer PROVE IInv'
<1>. DEFINE vs == Append(Fr.defers, Cur.args[1])
            g == [fn |-> Fr.fn, caller |-> Fr.caller, def |-> Fr.def, visited |-> Fr.visited,
                  defers |-> vs, selects |-> Fr.selects, loopstack |-> Fr.loopstack]
<1>1. /\ Running /\ Top.do = "ins" /\ Cur.op = "defer" /\ Fr.def \in 1..Len(defs)
      /\ UNCHANGED <<prog, pc, defs, funcs, loops, sels, queue, left>> /\ work' = Rest
      /\ frames' = [frames EXCEPT ![Top.fr].defers = vs]
      /\ Fn \in DOMAIN prog /\ Top.b \in 1..Len(prog[Fn])
  BY AtTop DEF VisitDefer, OnIns, Doing, Fr
<1>2. Cur.args[1] \in DeferredIn(prog)
  <2>1. Top.i \in 1..Len(prog[Fn][Top.b].ins)
    BY <1>1, AtInstruction
  <2>2. Cur.args[1] \in DefersIn(prog, Fn, Top.b)
    BY <1>1, <2>1 DEF DefersIn, Cur
  <2>. QED  BY <1>1, <2>2 DEF DeferredIn
<1>3. /\ vs \in Seq(DeferredIn(prog)) /\ Len(Fr.defers) <= Len(vs)
  <2>1. Fr.defers \in Seq(DeferredIn(prog)) /\ Len(Fr.defers) \in Nat
    BY <1>1, FieldsOfFrame
  <2>2. vs \in Seq(DeferredIn(prog)) /\ Len(vs) = Len(Fr.defers) + 1
    BY <1>2, <2>1, AppendProperties
  <2>. HIDE DEF vs
  <2>. QED  BY <2>1, <2>2
<1>4. Fr = [fn |-> Fr.fn, caller |-> Fr.caller, def |-> Fr.def, visited |-> Fr.visited,
            defers |-> Fr.defers, selects |-> Fr.selects, loopstack |-> Fr.loopstack]
  BY <1>1, FieldsOfFrame, Zenon
<1>. HIDE DEF vs
<1>5. [Fr EXCEPT !.defers = vs] = g
  BY <1>4
<1>6. g \in FrameOf(prog)
  <2>1. Fr \in FrameOf(prog)
    BY <1>1, FieldsOfFrame
  <2>. QED  BY <1>3, <2>1 DEF FrameOf
<1>7. /\ g.fn = Fr.fn /\ g.caller = Fr.caller /\ g.def = Fr.def /\ g.visited = Fr.visited
      /\ g.defers = vs /\ g.selects = Fr.selects /\ g.loopstack = Fr.loopstack
  OBVIOUS
<1>8. frames' = Put(frames, Top.fr, g)
  BY <1>1, <1>5 DEF Put, Fr
<1>. HIDE DEF g
<1>9. g.selects \subseteq 1..Len(sels') /\ Len(Fr.defers) <= Len(g.defers)
  BY <1>1, <1>3, <1>7, FieldsOfFrame
<1>10. /\ Stacked(defs, defs', Fr.def, 0) /\ IsSeq(sels') /\ Within(Len(sels), Len(sels'))
  BY <1>1, Unchanged DEF IInv
<1>. QED  BY <1>1, <1>6, <1>7, <1>8, <1>9, <1>10, OnwardsWith

-----------------------------------------------------------------------------
(* Calls. *)

\* A function called from the frame of the top has a new frame and a new definition,
\* for which nothing is asked.
LEMMA CalleeMade ==
    ASSUME IInv, Running, UNCHANGED <<prog, sels>>, NEW f \in DOMAIN prog,
           NEW es, Stacked(defs, es, Fr.def, 0), defs' = Append(es, Def(FnName(f))),
           frames' = Append(frames, Frame(f, Top.fr, Len(defs) + 1))
    PROVE  /\ AreDefs(defs') /\ Within(Len(defs), Len(defs')) /\ Within(Len(sels), Len(sels'))
           /\ AreFrames(prog, frames', Len(defs'), loops, Len(sels'))
           /\ KeepsFrames(frames, frames') /\ KeepsDefs(frames, frames')
           /\ Len(frames) + 1 \in Called(prog, frames') /\ Len(frames) + 1 \in 1..Len(frames')
           /\ Items \subseteq ItemsOf(prog, frames', Len(defs'), loops, Len(sels'))
           /\ \A s \in Seq(Items) : Matched(s, frames, es) => Matched(s, frames', defs')
<1>. DEFINE K == Called(prog, frames)
            S == Items
            d == Len(defs) + 1
            n == Len(frames) + 1
<1>1. /\ Top.fr \in 1..Len(frames) /\ OfFrames(S, K)
      /\ AreFrames(prog, frames, Len(defs), loops, Len(sels))
  BY AtTop DEF IInv
<1>2. KeepsParents(loops, loops) /\ Within(Len(sels), Len(sels')) /\ Len(defs) \in Nat
  BY Unchanged DEF Within
<1>3. AreDefs(es) /\ Len(es) = Len(defs)
  BY DEF Stacked
<1>4. BacksIn(S, Len(es)) /\ DefsIn(frames, K, Len(es))
  BY <1>1, <1>3, ItemsOfFrames DEF BacksIn, DefsIn, Items, AreFrames, Called
<1>. HIDE DEF S, K
<1>5. ASSUME NEW s \in Seq(S), Matched(s, frames, es)
      PROVE  /\ AreDefs(defs') /\ Len(defs') = Len(es) + 1 /\ Matched(s, frames, defs')
  BY <1>1, <1>3, <1>4, <1>5, DefMade
<1>6. AreDefs(defs') /\ Len(defs') = d
  BY <1>3, NewDefIsDef
<1>7. Within(Len(defs), Len(defs')) /\ d \in 1..Len(defs')
  BY <1>2, <1>6 DEF Within
<1>8. /\ AreFrames(prog, frames', Len(defs'), loops, Len(sels'))
      /\ KeepsFrames(frames, frames') /\ KeepsDefs(frames, frames')
      /\ Len(frames) \in Nat /\ Len(frames') = n /\ frames'[n].fn = f
  BY <1>1, <1>2, <1>7, FrameAdded
<1>9. n \in Called(prog, frames') /\ n \in 1..Len(frames')
  BY <1>8 DEF Called
<1>10. Items \subseteq ItemsOf(prog, frames', Len(defs'), loops, Len(sels'))
  BY <1>2, <1>7, <1>8, WorkStays DEF Items
<1>11. ASSUME NEW s \in Seq(S), Matched(s, frames, es) PROVE Matched(s, frames', defs')
  <2>1. Matched(s, frames, defs')
    BY <1>5, <1>11
  <2>2. \A k \in K : frames'[k].def = frames[k].def
    BY <1>8 DEF KeepsDefs, K, Called
  <2>. DEFINE gs == frames'
              ds == defs'
              fs == frames
  <2>3. /\ OfFrames(S, K) /\ Matched(s, fs, ds)
        /\ \A k \in K : gs[k].def = fs[k].def
    BY <1>1, <2>1, <2>2
  <2>. HIDE DEF gs, ds, fs
  <2>4. Matched(s, gs, ds)
    BY <2>3, SameDefsMatched
  <2>. QED  BY <2>4 DEF gs, ds
<1>. HIDE DEF d, n
<1>. QED  BY <1>2, <1>6, <1>7, <1>8, <1>9, <1>10, <1>11 DEF S, n

\* What calling a function leaves of the work: the instructions that follow.
LEMMA RestOfCall ==
    ASSUME IInv, Running, Top.do = "ins", UNCHANGED <<prog, sels>>, NEW f \in DOMAIN prog,
           NEW es, Stacked(defs, es, Fr.def, 0), defs' = Append(es, Def(FnName(f))),
           frames' = Append(frames, Frame(f, Top.fr, Len(defs) + 1))
    PROVE  /\ Rest \in Seq(ItemsOf(prog, frames', Len(defs'), loops, Len(sels')))
           /\ Matched(Rest, frames', defs')
<1>1. KeepsFrames(frames, frames) /\ KeepsDefs(frames, frames) /\ Len(es) = Len(defs)
  BY Unchanged DEF Stacked
<1>2. Items = ItemsOf(prog, frames, Len(es), loops, Len(sels))
  BY <1>1 DEF Items
<1>3. Rest \in Seq(Items) /\ Matched(Rest, frames, es)
  <2>1. Items \subseteq ItemsOf(prog, frames, Len(es), loops, Len(sels))
    BY <1>2
  <2>2. /\ Rest \in Seq(ItemsOf(prog, frames, Len(es), loops, Len(sels)))
        /\ Matched(Rest, frames, es)
    BY <1>1, <2>1, RestIsWork
  <2>. QED  BY <1>2, <2>2
<1>4. /\ Items \subseteq ItemsOf(prog, frames', Len(defs'), loops, Len(sels'))
      /\ \A s \in Seq(Items) : Matched(s, frames, es) => Matched(s, frames', defs')
  BY CalleeMade
<1>. QED  BY <1>3, <1>4, SeqMonotonic

\* callClosure.
LEMMA CallClosureStep == ASSUME IInv, VisitCallClosure PROVE IInv'
<1>1. /\ Running /\ Top.do = "ins" /\ Cur.op = "callclosure" /\ Fr.def \in 1..Len(defs)
      /\ UNCHANGED <<prog, pc, funcs, loops, sels, queue, left>> /\ work' = Rest
      /\ defs' = Append(defs, Def(FnName(Cur.x)))
      /\ frames' = Append(frames, Frame(Cur.x, Top.fr, Len(defs) + 1))
      /\ pc' \in {"main", "gortns", "done", "crashed", "overflow"}
  BY AtTop DEF VisitCallClosure, OnIns, Doing, Prepared
<1>2. Cur.x \in DOMAIN prog
  BY <1>1, AtInstruction DEF CalledBy
<1>3. /\ Stacked(defs, defs, Fr.def, 0) /\ AreLoops(loops') /\ IsSeq(sels')
  BY <1>1, Unchanged DEF IInv
<1>. DEFINE f == Cur.x
<1>. HIDE DEF f
<1>4. /\ AreDefs(defs') /\ Within(Len(defs), Len(defs')) /\ Within(Len(sels), Len(sels'))
      /\ AreFrames(prog, frames', Len(defs'), loops, Len(sels'))
      /\ KeepsFrames(frames, frames')
  BY <1>1, <1>2, <1>3, CalleeMade
<1>5. /\ Rest \in Seq(ItemsOf(prog, frames', Len(defs'), loops, Len(sels')))
      /\ Matched(Rest, frames', defs')
  BY <1>1, <1>2, <1>3, RestOfCall
<1>6. work' \in Seq(Items') /\ Matched(work', frames', defs')
  BY <1>1, <1>5 DEF Items
<1>7. funcs' \in Seq(1..Len(defs'))
  BY <1>1, <1>4, FuncsStay
<1>. QED  BY <1>1, <1>3, <1>4, <1>6, <1>7, FrameStep

\* visitGo queues the frame.
LEMMA GoStep == ASSUME IInv, VisitGo PROVE IInv'
<1>. DEFINE es == AddStmts(Fr.def, <<Stmt("spawn", FnName(Cur.x))>>)
            n == Len(frames) + 1
<1>1. /\ Running /\ Top.do = "ins" /\ Cur.op = "go" /\ Fr.def \in 1..Len(defs) /\ AreDefs(defs)
      /\ UNCHANGED <<prog, pc, funcs, loops, sels, left>> /\ work' = Rest
      /\ defs' = Append(es, Def(FnName(Cur.x)))
      /\ frames' = Append(frames, Frame(Cur.x, Top.fr, Len(defs) + 1))
      /\ queue' = Append(queue, n)
      /\ pc' \in {"main", "gortns", "done", "crashed", "overflow"}
  BY AtTop DEF VisitGo, OnIns, Doing
<1>2. Cur.x \in DOMAIN prog
  BY <1>1, AtInstruction DEF CalledBy
<1>3. /\ Stacked(defs, es, Fr.def, 0) /\ AreLoops(loops') /\ IsSeq(sels')
  BY <1>1, Lists DEF IInv
<1>. HIDE DEF es
<1>4. /\ AreDefs(defs') /\ Within(Len(defs), Len(defs')) /\ Within(Len(sels), Len(sels'))
      /\ AreFrames(prog, frames', Len(defs'), loops, Len(sels'))
      /\ KeepsFrames(frames, frames') /\ n \in Called(prog, frames')
  BY <1>1, <1>2, <1>3, CalleeMade
<1>5. /\ Rest \in Seq(ItemsOf(prog, frames', Len(defs'), loops, Len(sels')))
      /\ Matched(Rest, frames', defs')
  BY <1>1, <1>2, <1>3, RestOfCall
<1>6. work' \in Seq(Items') /\ Matched(work', frames', defs')
  BY <1>1, <1>5 DEF Items
<1>7. funcs' \in Seq(1..Len(defs'))
  BY <1>1, <1>4, FuncsStay
<1>. HIDE DEF n
<1>8. queue' \in Seq(Called(prog, frames')) /\ left' \in Seq(Called(prog, frames'))
  <2>1. Called(prog, frames) \subseteq Called(prog, frames')
    BY <1>4, CalledStay
  <2>2. queue \in Seq(Called(prog, frames)) /\ left \in Seq(Called(prog, frames))
    BY DEF IInv
  <2>3. queue \in Seq(Called(prog, frames')) /\ left \in Seq(Called(prog, frames'))
    BY <2>1, <2>2, SeqMonotonic
  <2>. QED  BY <1>1, <1>4, <2>3, AppendProperties
<1>. QED  BY <1>1, <1>3, <1>4, <1>6, <1>7, <1>8, Rebuilt

\* A function is visited from its first block on, in a loop of its own.
LEMMA FuncVisited ==
    ASSUME IInv, prog' = prog, NEW fs, fs = frames', NEW ds, ds = defs',
           Within(Len(defs), Len(defs')), NEW k \in Called(prog, fs),
           AreFrames(prog, fs, Len(ds), loops, Len(sels')), IsSeq(sels'),
           NEW rest \in Seq(ItemsOf(prog, fs, Len(ds), loops, Len(sels'))),
           Matched(rest, fs, ds), VisitFunc(k, fs, ds, rest)
    PROVE  /\ funcs' \in Seq(1..Len(defs')) /\ AreLoops(loops') /\ KeepsParents(loops, loops')
           /\ AreFrames(prog, frames', Len(defs'), loops', Len(sels'))
           /\ work' \in Seq(Items') /\ Matched(work', frames', defs')
<1>. DEFINE I == ItemsOf(prog, fs, Len(ds), loops, Len(sels'))
            J == ItemsOf(prog, fs, Len(ds), loops', Len(sels'))
            f == fs[k].fn
<1>1. /\ IsProgram(prog) /\ AreLoops(loops) /\ k \in 1..Len(fs) /\ f \in DOMAIN prog
      /\ Len(sels') \in Nat /\ Len(ds) \in Nat /\ Len(loops) \in Nat
  BY DEF IInv, Called, IsSeq, Within, AreLoops
<1>2. fs[k].def \in 1..Len(ds) /\ Len(fs) \in Nat
  BY <1>1, FramesFields
<1>3. funcs' \in Seq(1..Len(defs'))
  <2>1. funcs' = AddFunction(ds, fs[k].def) /\ fs[k].def \in 1..Len(defs')
    BY <1>2 DEF VisitFunc
  <2>. QED  BY <2>1, FuncAdded
<1>4. KeepsFrames(fs, fs)
  BY <1>2, FramesFields DEF KeepsFrames
<1>5. Items' = J
  BY DEF Items
<1>6. CASE prog[f] = << >>
  <2>1. work' = rest /\ loops' = loops
    BY <1>6 DEF VisitFunc
  <2>2. AreLoops(loops') /\ KeepsParents(loops, loops')
    BY <1>1, <2>1 DEF KeepsParents
  <2>. QED  BY <1>3, <1>5, <2>1, <2>2
<1>7. CASE prog[f] # << >>
  <2>. DEFINE y == Item("block", k, 1, 0, Len(loops) + 1, 0)
  <2>1. work' = <<y>> \o rest /\ loops' = Append(loops, NewLoop(k))
    BY <1>7 DEF VisitFunc
  <2>2. /\ AreLoops(loops') /\ KeepsParents(loops, loops') /\ Len(loops) + 1 \in 1..Len(loops')
        /\ loops'[Len(loops) + 1].parent = k
    <3>1. IsLoop(NewLoop(k)) /\ NewLoop(k).parent = k
      BY NewLoopIsLoop
    <3>. DEFINE l == NewLoop(k)
    <3>. HIDE DEF l
    <3>2. /\ AreLoops(Append(loops, l)) /\ KeepsParents(loops, Append(loops, l))
          /\ Len(Append(loops, l)) = Len(loops) + 1 /\ Append(loops, l)[Len(loops) + 1] = l
      BY <1>1, <3>1, LoopAdded DEF l
    <3>3. loops' = Append(loops, l)
      BY <2>1 DEF l
    <3>. QED  BY <1>1, <3>1, <3>2, <3>3 DEF l
  <2>3. AreFrames(prog, fs, Len(ds), loops', Len(sels'))
    BY <1>1, <2>2, FramesStay DEF Within
  <2>4. y \in J /\ y.do = "block"
    <3>1. 1 \in 1..Len(prog[f]) /\ 1 \in Nat
      BY <1>1, <1>7 DEF IsProgram
    <3>2. /\ y \in [do : WorkKind, fr : Called(prog, fs), b : Nat, i : Nat,
                    loop : 1..Len(loops'), at : Nat]
          /\ y.do = "block" /\ y.fr = k /\ y.b = 1 /\ y.loop = Len(loops) + 1
      BY <2>2 DEF Item, WorkKind
    <3>. HIDE DEF y
    <3>. QED  BY <2>2, <3>1, <3>2 DEF ItemsOf
  <2>5. rest \in Seq(J)
    <3>1. I \subseteq J
      BY <1>1, <1>4, <2>2, WorkStays DEF Within
    <3>. QED  BY <3>1, SeqMonotonic
  <2>. HIDE DEF y
  <2>6. y.do # "back" /\ Weight(y) = 0
    BY <2>4, Weights
  <2>7. Matched(<<y>> \o rest, fs, ds) /\ <<y>> \o rest \in Seq(J)
    BY <2>4, <2>5, <2>6, NothingPushed
  <2>. QED  BY <1>3, <1>5, <2>1, <2>2, <2>3, <2>7
<1>. QED  BY <1>6, <1>7

\* The item for after the visit of a callee.
LEMMA AfterCallee ==
    ASSUME NEW p, NEW fs, NEW nd, NEW ls, NEW ns, NEW ds, Top \in ItemsOf(p, fs, nd, ls, ns),
           NEW do, (do = "called" /\ Top.do = "ins") \/ do = "deferred",
           NEW n \in 1..Len(fs), NEW s \in Seq(ItemsOf(p, fs, nd, ls, ns)), Matched(s, fs, ds)
    PROVE  /\ <<Then(do, n)>> \o s \in Seq(ItemsOf(p, fs, nd, ls, ns))
           /\ Matched(<<Then(do, n)>> \o s, fs, ds)
<1>. DEFINE y == Then(do, n)
<1>1. /\ do \in WorkKind \ {"defers"} /\ n \in Nat /\ do \notin Branches
      /\ do \notin {"block", "deferred"} => Top.do \notin {"block", "defers", "deferred"}
      /\ do \notin {"case", "default", "back"}
  BY DEF WorkKind, Branches
<1>2. y \in ItemsOf(p, fs, nd, ls, ns) /\ y.do = do
  BY <1>1, ThenIsWork
<1>. HIDE DEF y
<1>3. y.do # "back" /\ Weight(y) = 0
  BY <1>2, Weights
<1>4. Matched(<<y>> \o s, fs, ds) /\ <<y>> \o s \in Seq(ItemsOf(p, fs, nd, ls, ns))
  BY <1>2, <1>3, NothingPushed
<1>. QED  BY <1>4 DEF y

\* call visits the callee in a definition of its own, unless it is recursive.
LEMMA CallStep == ASSUME IInv, VisitCall PROVE IInv'
<1>. DEFINE n == Len(frames) + 1
            I == ItemsOf(prog, frames', Len(defs'), loops, Len(sels'))
            rest == <<Then("called", n)>> \o Rest
<1>1. /\ Running /\ Top.do = "ins" /\ Cur.op = "call" /\ Fr.def \in 1..Len(defs)
      /\ UNCHANGED <<prog, pc, sels, queue, left>>
      /\ defs' = Append(defs, Def(FnName(Cur.x)))
      /\ frames' = Append(frames, Frame(Cur.x, Top.fr, Len(defs) + 1))
      /\ pc' \in {"main", "gortns", "done", "crashed", "overflow"} /\ Top \in Items
  BY AtTop DEF VisitCall, OnIns, Doing, Prepared
<1>2. \/ work' = Rest /\ UNCHANGED <<funcs, loops>>
      \/ VisitFunc(n, frames', defs', rest)
  BY DEF VisitCall
<1>3. Cur.x \in DOMAIN prog
  BY <1>1, AtInstruction DEF CalledBy
<1>4. /\ Stacked(defs, defs, Fr.def, 0) /\ IsSeq(sels') /\ AreLoops(loops)
  BY <1>1, Unchanged DEF IInv
<1>5. /\ AreDefs(defs') /\ Within(Len(defs), Len(defs')) /\ Within(Len(sels), Len(sels'))
      /\ AreFrames(prog, frames', Len(defs'), loops, Len(sels'))
      /\ KeepsFrames(frames, frames') /\ n \in Called(prog, frames') /\ n \in 1..Len(frames')
      /\ Items \subseteq I
  BY <1>1, <1>3, <1>4, CalleeMade
<1>6. Rest \in Seq(I) /\ Matched(Rest, frames', defs')
  BY <1>1, <1>3, <1>4, RestOfCall
<1>7. CASE work' = Rest /\ UNCHANGED <<funcs, loops>>
  <2>1. work' \in Seq(Items') /\ Matched(work', frames', defs')
    BY <1>1, <1>6, <1>7 DEF Items
  <2>2. funcs' \in Seq(1..Len(defs'))
    BY <1>5, <1>7, FuncsStay
  <2>. QED  BY <1>1, <1>4, <1>5, <1>7, <2>1, <2>2, FrameStep
<1>8. CASE VisitFunc(n, frames', defs', rest)
  <2>. DEFINE fs == frames'
              ds == defs'
              nd == Len(ds)
              ns == Len(sels')
  <2>1. rest \in Seq(ItemsOf(prog, fs, nd, loops, ns)) /\ Matched(rest, fs, ds)
    <3>1. Top \in ItemsOf(prog, fs, nd, loops, ns) /\ n \in 1..Len(fs) /\ Top.do = "ins"
          /\ Rest \in Seq(ItemsOf(prog, fs, nd, loops, ns)) /\ Matched(Rest, fs, ds)
      BY <1>1, <1>5, <1>6
    <3>. DEFINE do == "called"
                s == Rest
    <3>2. do = "called"
      OBVIOUS
    <3>. HIDE DEF fs, ds, nd, ns, n, do, s
    <3>3. /\ <<Then(do, n)>> \o s \in Seq(ItemsOf(prog, fs, nd, loops, ns))
          /\ Matched(<<Then(do, n)>> \o s, fs, ds)
      BY <3>1, <3>2, AfterCallee DEF s
    <3>. QED  BY <3>2, <3>3 DEF s
  <2>. HIDE DEF n, rest, I
  <2>2. /\ funcs' \in Seq(1..Len(defs')) /\ AreLoops(loops') /\ KeepsParents(loops, loops')
        /\ AreFrames(prog, frames', Len(defs'), loops', Len(sels'))
        /\ work' \in Seq(Items') /\ Matched(work', frames', defs')
    BY <1>1, <1>4, <1>5, <1>8, <2>1, FuncVisited
  <2>. QED  BY <1>1, <1>4, <1>5, <2>2, FrameStep
<1>. QED  BY <1>2, <1>7, <1>8

\* An iteration of the loop of visitRunDefers.
LEMMA RunDeferStep == ASSUME IInv, RunDefer PROVE IInv'
<1>. DEFINE n == Len(frames) + 1
            I == ItemsOf(prog, frames', Len(defs'), loops, Len(sels'))
            y == [Top EXCEPT !.i = @ - 1]
            next == <<y>> \o Pop
            f == Fr.defers[Top.i].x
            rest == <<Then("deferred", n)>> \o next
<1>1. /\ Running /\ Top.do = "defers" /\ Fr.def \in 1..Len(defs) /\ Top \in Items
      /\ UNCHANGED <<prog, pc, sels, queue, left>>
      /\ pc' \in {"main", "gortns", "done", "crashed", "overflow"}
      /\ Top \in [do : WorkKind, fr : Called(prog, frames), b : Nat, i : Nat,
                  loop : 1..Len(loops), at : Nat]
      /\ Top.b \in 1..Len(prog[Fn]) /\ L.parent = Top.fr /\ IsProgram(prog)
  BY AtTop DEF RunDefer, Doing
<1>2. \/ work' = Pop /\ UNCHANGED <<frames, defs, funcs, loops>>
      \/ Top.i # 0 /\ work' = next /\ UNCHANGED <<frames, defs, funcs, loops>>
      \/ /\ Top.i # 0 /\ Fr.defers[Top.i].op = "call"
         /\ Prepared(f, Top.fr) /\ VisitFunc(n, frames', defs', rest)
  BY DEF RunDefer
<1>3. /\ Stacked(defs, defs, Fr.def, 0) /\ IsSeq(sels') /\ AreLoops(loops) /\ Weight(Top) = 0
      /\ KeepsFrames(frames, frames) /\ KeepsDefs(frames, frames) /\ KeepsParents(loops, loops)
      /\ Within(Len(sels), Len(sels'))
  BY <1>1, Unchanged, Weights DEF IInv
<1>4. Top.i <= Len(Fr.defers) /\ Len(Fr.defers) \in Nat /\ Top.i \in Nat
  <2>1. Top.i <= Len(Fr.defers)
    BY <1>1 DEF Items, ItemsOf, Fr
  <2>. QED  BY <1>1, <2>1, FieldsOfFrame
<1>5. Top.i # 0 => y \in Items /\ y.do = "defers" /\ y.fr = Top.fr
  <2>. SUFFICES ASSUME Top.i # 0 PROVE y \in Items /\ y.do = "defers" /\ y.fr = Top.fr
    OBVIOUS
  <2>1. Top.i - 1 \in Nat /\ Top.i - 1 <= Len(Fr.defers)
    BY <1>4
  <2>2. /\ y \in [do : WorkKind, fr : Called(prog, frames), b : Nat, i : Nat,
                  loop : 1..Len(loops), at : Nat]
        /\ y.do = "defers" /\ y.fr = Top.fr /\ y.b = Top.b /\ y.i = Top.i - 1
        /\ y.loop = Top.loop
    BY <1>1, <2>1
  <2>. HIDE DEF y
  <2>3. y.i <= Len(frames[y.fr].defers) /\ y.b \in 1..Len(prog[frames[y.fr].fn])
        /\ loops[y.loop].parent = y.fr
    BY <1>1, <2>1, <2>2 DEF Fr, Fn, L
  <2>. QED  BY <2>2, <2>3 DEF Items, ItemsOf
<1>6. CASE work' = Pop /\ UNCHANGED <<frames, defs, funcs, loops>>
  BY <1>1, <1>3, <1>6, Leaves
<1>. HIDE DEF y
<1>7. Top.i # 0 => next \in Seq(Items) /\ Matched(next, frames, defs)
  <2>. SUFFICES ASSUME Top.i # 0 PROVE next \in Seq(Items) /\ Matched(next, frames, defs)
    OBVIOUS
  <2>1. y \in Items /\ y.do = "defers" /\ y.fr = Top.fr
    BY <1>5
  <2>2. Weight(y) = Weight(Top) + 0 /\ y.do # "back"
    BY <1>3, <2>1, Weights
  <2>3. /\ Pop \in Seq(Items)
        /\ \A x \in Items : x.do # "back" /\ x.fr = Top.fr /\ Weight(x) = Weight(Top) + 0 =>
              Matched(<<x>> \o Pop, frames, defs)
    BY <1>1, <1>3, StepOn DEF Items
  <2>4. Matched(<<y>> \o Pop, frames, defs)
    BY <2>1, <2>2, <2>3
  <2>. QED  BY <2>1, <2>3, <2>4, OneBefore
<1>8. CASE Top.i # 0 /\ work' = next /\ UNCHANGED <<frames, defs, funcs, loops>>
  <2>1. Items' = Items
    BY <1>1, <1>8 DEF Items
  <2>2. work' \in Seq(Items') /\ Matched(work', frames', defs')
    BY <1>7, <1>8, <2>1
  <2>. QED  BY <1>1, <1>3, <1>8, <2>2, Moves
<1>9. CASE /\ Top.i # 0 /\ Fr.defers[Top.i].op = "call"
           /\ Prepared(f, Top.fr) /\ VisitFunc(n, frames', defs', rest)
  <2>1. f \in DOMAIN prog
    <3>1. Top.i \in 1..Len(Fr.defers)
      BY <1>4, <1>9
    <3>2. Fr.defers[Top.i] \in DeferredIn(prog)
      BY <1>1, <3>1, FieldsOfFrame, ElementOfSeq
    <3>3. PICK g \in DOMAIN prog :
              \E b \in 1..Len(prog[g]) : Fr.defers[Top.i] \in DefersIn(prog, g, b)
      BY <3>2 DEF DeferredIn
    <3>4. PICK b \in 1..Len(prog[g]) : Fr.defers[Top.i] \in DefersIn(prog, g, b)
      BY <3>3
    <3>5. PICK i \in 1..Len(prog[g][b].ins) :
              prog[g][b].ins[i].op = "defer" /\ Fr.defers[Top.i] = prog[g][b].ins[i].args[1]
      BY <3>4 DEF DefersIn
    <3>6. IsBlock(prog, g, b)
      BY <1>1, BlockOfProgram
    <3>7. CalledBy(prog[g][b].ins[i]) \subseteq DOMAIN prog
      BY <3>6 DEF IsBlock
    <3>. QED  BY <1>9, <3>5, <3>7 DEF CalledBy
  <2>2. /\ defs' = Append(defs, Def(FnName(f)))
        /\ frames' = Append(frames, Frame(f, Top.fr, Len(defs) + 1))
    BY <1>9 DEF Prepared
  <2>. HIDE DEF f, next
  <2>3. /\ AreDefs(defs') /\ Within(Len(defs), Len(defs'))
        /\ AreFrames(prog, frames', Len(defs'), loops, Len(sels'))
        /\ KeepsFrames(frames, frames') /\ n \in Called(prog, frames') /\ n \in 1..Len(frames')
        /\ Items \subseteq I
        /\ \A s \in Seq(Items) : Matched(s, frames, defs) => Matched(s, frames', defs')
    BY <1>1, <1>3, <2>1, <2>2, CalleeMade
  <2>4. next \in Seq(I) /\ Matched(next, frames', defs')
    BY <1>7, <1>9, <2>3, SeqMonotonic
  <2>. DEFINE fs == frames'
              ds == defs'
              nd == Len(ds)
              ns == Len(sels')
  <2>5. rest \in Seq(ItemsOf(prog, fs, nd, loops, ns)) /\ Matched(rest, fs, ds)
    <3>1. /\ Top \in ItemsOf(prog, fs, nd, loops, ns) /\ n \in 1..Len(fs)
          /\ next \in Seq(ItemsOf(prog, fs, nd, loops, ns)) /\ Matched(next, fs, ds)
      BY <1>1, <2>3, <2>4
    <3>. DEFINE do == "deferred"
    <3>2. do = "deferred"
      OBVIOUS
    <3>. HIDE DEF fs, ds, nd, ns, n, do
    <3>3. /\ <<Then(do, n)>> \o next \in Seq(ItemsOf(prog, fs, nd, loops, ns))
          /\ Matched(<<Then(do, n)>> \o next, fs, ds)
      BY <3>1, <3>2, AfterCallee
    <3>. QED  BY <3>2, <3>3
  <2>. HIDE DEF n, rest, I
  <2>6. /\ funcs' \in Seq(1..Len(defs')) /\ AreLoops(loops') /\ KeepsParents(loops, loops')
        /\ AreFrames(prog, frames', Len(defs'), loops', Len(sels'))
        /\ work' \in Seq(Items') /\ Matched(work', frames', defs')
    BY <1>1, <1>3, <1>9, <2>3, <2>5, FuncVisited
  <2>. QED  BY <1>1, <1>3, <2>3, <2>6, FrameStep
<1>. QED  BY <1>2, <1>6, <1>8, <1>9

-----------------------------------------------------------------------------
(* The run as a whole. *)

\* With no work left, nothing is put away.
LEMMA Idle ==
    ASSUME IInv, work = << >>
    PROVE  /\ Matched(<< >>, frames, defs) /\ KeepsFrames(frames, frames)
           /\ << >> \in Seq(ItemsOf(prog, frames, Len(defs), loops, Len(sels)))
           /\ AreFrames(prog, frames, Len(defs), loops, Len(sels))
           /\ Within(Len(defs), Len(defs)) /\ Within(Len(sels), Len(sels))
           /\ IsSeq(sels) /\ AreDefs(defs)
<1>1. Matched(<< >>, frames, defs)
  <2>1. DOMAIN defs = 1..Len(defs)
    BY Tabled DEF IInv, AreDefs
  <2>. QED  BY <2>1 DEF IInv, PutAwaysMatch, Matched
<1>. QED  BY <1>1, Unchanged DEF IInv

\* Run begins with main, if there is one.
LEMMA MainStep == ASSUME IInv, RunMain PROVE IInv'
<1>1. /\ work = << >> /\ UNCHANGED <<prog, frames, defs, sels, queue, left>>
  BY DEF RunMain, IInv
<1>2. CASE "main" \in DOMAIN prog
  <2>1. VisitFunc(1, frames, defs, << >>) /\ pc' = "main"
    BY <1>2 DEF RunMain
  <2>2. 1 \in Called(prog, frames)
    <3>1. Len(frames) >= 1 /\ frames[1].fn = "main" /\ Len(frames) \in Nat
      BY LenProperties DEF IInv, AreFrames
    <3>. QED  BY <1>2, <3>1 DEF Called
  <2>3. /\ Matched(<< >>, frames, defs) /\ KeepsFrames(frames, frames')
        /\ << >> \in Seq(ItemsOf(prog, frames, Len(defs), loops, Len(sels')))
        /\ AreFrames(prog, frames, Len(defs), loops, Len(sels'))
        /\ Within(Len(defs), Len(defs')) /\ IsSeq(sels') /\ AreDefs(defs')
    BY <1>1, Idle
  <2>4. frames = frames' /\ defs = defs'
    BY <1>1
  <2>. DEFINE rest == << >>
              k == 1
  <2>5. VisitFunc(k, frames, defs, rest) /\ Matched(rest, frames, defs)
        /\ rest \in Seq(ItemsOf(prog, frames, Len(defs), loops, Len(sels')))
        /\ k \in Called(prog, frames)
    BY <2>1, <2>2, <2>3
  <2>. HIDE DEF rest, k
  <2>6. /\ funcs' \in Seq(1..Len(defs')) /\ AreLoops(loops') /\ KeepsParents(loops, loops')
        /\ AreFrames(prog, frames', Len(defs'), loops', Len(sels'))
        /\ work' \in Seq(Items') /\ Matched(work', frames', defs')
    BY <1>1, <2>3, <2>4, <2>5, FuncVisited
  <2>. QED  BY <1>1, <2>1, <2>3, <2>6, FrameStep
<1>3. CASE "main" \notin DOMAIN prog
  <2>1. pc' = "crashed" /\ UNCHANGED <<work, funcs, loops>>
    BY <1>3 DEF RunMain
  <2>. QED  BY <1>1, <2>1, Stops
<1>. QED  BY <1>2, <1>3

\* Run takes the queue as it is then.
LEMMA QueueStep == ASSUME IInv, RunQueue PROVE IInv'
<1>1. /\ work = << >> /\ UNCHANGED <<prog, work, frames, defs, funcs, loops, sels, queue>>
      /\ pc' = "gortns" /\ left' = queue
  BY DEF RunQueue
<1>2. /\ AreLoops(loops) /\ funcs \in Seq(1..Len(defs)) /\ work \in Seq(Items)
      /\ queue \in Seq(Called(prog, frames))
  BY DEF IInv
<1>3. /\ work' \in Seq(Items') /\ Matched(work', frames', defs')
      /\ AreFrames(prog, frames', Len(defs'), loops', Len(sels'))
      /\ IsSeq(sels') /\ AreDefs(defs')
  <2>1. Items' = Items
    BY <1>1 DEF Items
  <2>. QED  BY <1>1, <1>2, <2>1, Idle
<1>. QED  BY <1>1, <1>2, <1>3, Rebuilt

\* The next goroutine of that queue.
LEMMA GortnStep == ASSUME IInv, NextGortn PROVE IInv'
<1>1. /\ work = << >> /\ UNCHANGED <<prog, pc, frames, defs, sels, queue>> /\ left # << >>
      /\ VisitFunc(Head(left), frames, defs, << >>) /\ left' = Tail(left) /\ pc = "gortns"
  BY DEF NextGortn
<1>2. left \in Seq(Called(prog, frames)) /\ queue \in Seq(Called(prog, frames))
  BY DEF IInv
<1>3. Head(left) \in Called(prog, frames) /\ Tail(left) \in Seq(Called(prog, frames))
  BY <1>1, <1>2, HeadTailProperties
<1>4. /\ Matched(<< >>, frames, defs)
      /\ << >> \in Seq(ItemsOf(prog, frames, Len(defs), loops, Len(sels')))
      /\ AreFrames(prog, frames, Len(defs), loops, Len(sels'))
      /\ Within(Len(defs), Len(defs')) /\ IsSeq(sels') /\ AreDefs(defs')
  BY <1>1, Idle
<1>5. frames = frames' /\ defs = defs'
  BY <1>1
<1>. DEFINE rest == << >>
            k == Head(left)
<1>6. VisitFunc(k, frames, defs, rest) /\ Matched(rest, frames, defs)
      /\ rest \in Seq(ItemsOf(prog, frames, Len(defs), loops, Len(sels')))
      /\ k \in Called(prog, frames)
  BY <1>1, <1>3, <1>4
<1>. HIDE DEF rest, k
<1>7. /\ funcs' \in Seq(1..Len(defs')) /\ AreLoops(loops') /\ KeepsParents(loops, loops')
      /\ AreFrames(prog, frames', Len(defs'), loops', Len(sels'))
      /\ work' \in Seq(Items') /\ Matched(work', frames', defs')
  BY <1>1, <1>4, <1>5, <1>6, FuncVisited
<1>. QED  BY <1>1, <1>2, <1>3, <1>4, <1>5, <1>7, Rebuilt

\* Run ends, or memory does.
LEMMA EndStep == ASSUME IInv, EndRun \/ Overflow \/ Terminated PROVE IInv'
<1>1. /\ UNCHANGED <<prog, work, frames, defs, funcs, loops, sels, queue, left>>
      /\ pc' \in {"main", "gortns", "done", "crashed", "overflow"}
  BY DEF EndRun, Overflow, Terminated, vars
<1>. QED  BY <1>1, Stops

\* The invariant holds of the initial states.
LEMMA Initially == Init => IInv
<1>. SUFFICES ASSUME Init PROVE IInv
  OBVIOUS
<1>1. /\ prog \in Program /\ pc = "start" /\ work = << >> /\ funcs = << >> /\ loops = << >>
      /\ sels = << >> /\ queue = << >> /\ left = << >>
      /\ frames = <<Frame("main", NoFrame, 1)>> /\ defs = <<Def(FnName("main"))>>
  BY DEF Init
<1>2. IsProgram(prog)
  BY <1>1, MigoProgramAssumption
<1>3. IsSeq(<< >>)
  <2>1. << >> \in Seq({})
    OBVIOUS
  <2>. QED  BY <2>1, IsSeqOf
<1>4. AreLoops(loops) /\ IsSeq(sels)
  BY <1>1, <1>3 DEF AreLoops
<1>5. AreDefs(defs) /\ Len(defs) = 1 /\ defs[1].stack = << >> /\ DOMAIN defs = {1}
  <2>. DEFINE e == Def(FnName("main"))
  <2>1. IsDef(e) /\ e.stack = << >>
    BY <1>3 DEF Def, IsDef
  <2>. HIDE DEF e
  <2>2. defs = <<e>>
    BY <1>1 DEF e
  <2>3. defs \in Seq({e}) /\ Len(defs) = 1 /\ defs[1] = e
    BY <2>2
  <2>4. IsSeq(defs)
    BY <2>3, IsSeqOf
  <2>5. DOMAIN defs = {1}
    BY <2>3, <2>4, Tabled
  <2>. QED  BY <2>1, <2>3, <2>4, <2>5 DEF AreDefs
<1>6. AreFrames(prog, frames, Len(defs), loops, Len(sels))
  <2>. DEFINE g == Frame("main", NoFrame, 1)
  <2>1. << >> \in Seq(DeferredIn(prog)) /\ << >> \in Seq(Nat) /\ << >> \in Seq(LoopsOf(loops, 1))
    OBVIOUS
  <2>2. /\ g \in FrameOf(prog) /\ g.fn = "main" /\ g.caller = 0 /\ g.def = 1
        /\ g.visited = {} /\ g.selects = {} /\ g.loopstack = << >>
    BY <2>1 DEF Frame, FrameOf, NoFrame
  <2>. HIDE DEF g
  <2>3. frames = <<g>>
    BY <1>1 DEF g
  <2>4. frames \in Seq(FrameOf(prog)) /\ Len(frames) = 1 /\ frames[1] = g
    BY <2>2, <2>3
  <2>5. ASSUME NEW k \in 1..Len(frames)
        PROVE  /\ frames[k].caller < k /\ frames[k].def \in 1..Len(defs)
               /\ frames[k].fn \in DOMAIN prog =>
                     frames[k].visited \subseteq 1..Len(prog[frames[k].fn])
               /\ frames[k].selects \subseteq 1..Len(sels)
               /\ frames[k].loopstack \in Seq(LoopsOf(loops, k))
    <3>1. k = 1 /\ frames[k] = g
      BY <2>4
    <3>2. /\ frames[k].caller = 0 /\ frames[k].def = 1 /\ frames[k].visited = {}
          /\ frames[k].selects = {} /\ frames[k].loopstack = << >>
      BY <2>2, <3>1
    <3>3. 1 \in 1..Len(defs) /\ 0 < k
      BY <1>5, <3>1
    <3>4. frames[k].loopstack \in Seq(LoopsOf(loops, k))
      BY <2>1, <3>1, <3>2
    <3>. QED  BY <3>2, <3>3, <3>4
  <2>6. Len(frames) >= 1 /\ frames[1].fn = "main"
    BY <2>2, <2>4
  <2>. QED  BY <2>4, <2>5, <2>6 DEF AreFrames
<1>7. /\ work \in Seq(Items) /\ funcs \in Seq(1..Len(defs))
      /\ queue \in Seq(Called(prog, frames)) /\ left \in Seq(Called(prog, frames))
  BY <1>1
<1>8. PutAwaysMatch
  <2>1. PutAwayFor(work, frames, 1) = 0
    BY <1>1, NothingPutAway
  <2>2. Len(defs[1].stack) = 0
    BY <1>5
  <2>. QED  BY <1>5, <2>1, <2>2 DEF PutAwaysMatch
<1>. QED  BY <1>1, <1>2, <1>4, <1>5, <1>6, <1>7, <1>8 DEF IInv

\* Every step preserves the invariant: one lemma for each action.
LEMMA Steps == IInv /\ [Next]_vars => IInv'
<1>. SUFFICES ASSUME IInv, [Next]_vars PROVE IInv'
  OBVIOUS
<1>1. ASSUME UNCHANGED vars PROVE IInv'
  BY <1>1 DEF IInv, vars, Items, PutAwaysMatch
<1>. QED
  BY <1>1, MainStep, QueueStep, GortnStep, EndStep, BlockStep, JumpStep, EndJumpStep,
     CommStep, PhiStep, BinOpStep, LenStep, SelectStep, ReturnStep, IfStaticStep, IfSelStep,
     CaseStep, DefaultStep, IfStep, ElseStep, EndIfStep, CallStep, EndCallStep,
     CallClosureStep, GoStep, DeferStep, RunDefersStep, RunDeferStep, EndDeferStep DEF Next

\* The invariant holds throughout the inference.
THEOREM Inductive == Spec => []IInv
BY Initially, Steps, PTL DEF Spec

\* The types of the variables, and that no reference to a frame, a definition, a loop
\* or a select dangles, whatever the calls, jumps and branches.
THEOREM TypeCorrect == Spec => []TypeOK
<1>1. ASSUME IInv PROVE TypeOK
  <2>. USE <1>1
  <2>1. /\ DOMAIN frames = 1..Len(frames) /\ DOMAIN defs = 1..Len(defs)
        /\ DOMAIN loops = 1..Len(loops) /\ DOMAIN sels = 1..Len(sels)
        /\ DOMAIN work = 1..Len(work)
    <3>1. IsSeq(frames) /\ IsSeq(work)
      BY IsSeqOf DEF IInv, AreFrames
    <3>. QED  BY <3>1, Tabled DEF IInv, AreDefs, AreLoops
  <2>2. \A f \in DOMAIN prog : DOMAIN prog[f] = 1..Len(prog[f])
    BY DEF IInv, IsProgram
  <2>3. ASSUME NEW j \in DOMAIN work
        PROVE  /\ work[j].do \in WorkKind
               /\ work[j].fr \in DOMAIN frames
               /\ work[j].b \in DOMAIN prog[frames[work[j].fr].fn]
               /\ work[j].loop \in DOMAIN loops
               /\ work[j].do \in {"called", "deferred"} => work[j].at \in DOMAIN frames
               /\ work[j].do \in {"case", "default"} => work[j].at \in DOMAIN sels
               /\ work[j].do = "back" => work[j].at \in DOMAIN defs
    <3>. DEFINE w == work[j]
    <3>1. w \in ItemsOf(prog, frames, Len(defs), loops, Len(sels))
      BY <2>1, ElementOfSeq DEF IInv, Items
    <3>. HIDE DEF w
    <3>2. /\ w \in [do : WorkKind, fr : Called(prog, frames), b : Nat, i : Nat,
                    loop : 1..Len(loops), at : Nat]
          /\ w.fr \in 1..Len(frames) /\ frames[w.fr].fn \in DOMAIN prog
          /\ w.b \in 1..Len(prog[frames[w.fr].fn])
      BY <3>1, FieldsOfItem
    <3>3. /\ w.do \in {"called", "deferred"} => w.at \in 1..Len(frames)
          /\ w.do \in {"case", "default"} => w.at \in 1..Len(sels)
          /\ w.do = "back" => w.at \in 1..Len(defs)
      BY <3>1 DEF ItemsOf
    <3>. QED  BY <2>1, <2>2, <3>2, <3>3 DEF w
  <2>4. ASSUME NEW k \in DOMAIN frames
        PROVE  /\ frames[k].caller \in 0..(k-1)
               /\ frames[k].def \in DOMAIN defs
               /\ frames[k].fn \in DOMAIN prog =>
                     frames[k].visited \subseteq DOMAIN prog[frames[k].fn]
               /\ frames[k].selects \subseteq DOMAIN sels
               /\ \A l \in Range(frames[k].loopstack) : loops[l].parent = k
    <3>1. /\ frames[k].caller < k /\ frames[k].def \in 1..Len(defs)
          /\ frames[k].fn \in DOMAIN prog =>
                frames[k].visited \subseteq 1..Len(prog[frames[k].fn])
          /\ frames[k].selects \subseteq 1..Len(sels)
          /\ frames[k].loopstack \in Seq(LoopsOf(loops, k)) /\ k \in 1..Len(frames)
      BY <2>1 DEF IInv, AreFrames
    <3>2. frames[k] \in FrameOf(prog)
      BY <3>1, ElementOfSeq DEF IInv, AreFrames
    <3>3. frames[k].caller \in 0..(k-1)
      BY <3>1, <3>2 DEF FrameOf
    <3>4. \A l \in Range(frames[k].loopstack) : l \in LoopsOf(loops, k)
      <4>. DEFINE s == frames[k].loopstack
      <4>1. DOMAIN s = 1..Len(s) /\ \A i \in 1..Len(s) : s[i] \in LoopsOf(loops, k)
        BY <3>1, IsSeqOf, Tabled
      <4>. QED  BY <4>1 DEF Range
    <3>. QED  BY <2>1, <2>2, <3>1, <3>3, <3>4 DEF LoopsOf
  <2>5. \A l \in Range(loops) : IsLoop(l)
    BY <2>1 DEF Range, IInv, AreLoops
  <2>6. Range(funcs) \subseteq DOMAIN defs
    <3>1. DOMAIN funcs = 1..Len(funcs) /\ \A i \in 1..Len(funcs) : funcs[i] \in 1..Len(defs)
      BY IsSeqOf, Tabled DEF IInv
    <3>. QED  BY <2>1, <3>1 DEF Range
  <2>7. Range(queue) \cup Range(left) \subseteq DOMAIN frames
    <3>1. /\ DOMAIN queue = 1..Len(queue) /\ DOMAIN left = 1..Len(left)
          /\ \A i \in 1..Len(queue) : queue[i] \in Called(prog, frames)
          /\ \A i \in 1..Len(left) : left[i] \in Called(prog, frames)
      BY IsSeqOf, Tabled DEF IInv
    <3>. QED  BY <2>1, <3>1 DEF Range, Called
  <2>8. pc \in {"start", "main", "gortns", "done", "crashed", "overflow"}
    BY DEF IInv
  <2>. QED  BY <2>3, <2>4, <2>5, <2>6, <2>7, <2>8 DEF TypeOK, IsLoop
<1>. QED  BY <1>1, Inductive, PTL

\* Statements put away are restored where they belong: a definition always has as many
\* lists put away as branches and cases are being visited for it.
THEOREM PutAwaysAreMatched == Spec => []PutAwaysMatch
<1>1. IInv => PutAwaysMatch
  BY DEF IInv
<1>. QED  BY <1>1, Inductive, PTL

\* The end of an If never finds the lists of its branches missing: that the program
\* ends there cannot happen.
THEOREM EndIfGoesOn == Spec => [][EndIf => pc' = pc]_vars
<1>1. IInv /\ [Next]_vars => (EndIf => pc' = pc)
  BY EndIfStep
<1>. QED  BY <1>1, Inductive, PTL DEF Spec
=============================================================================
