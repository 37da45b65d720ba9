------------------------------ MODULE Closures ------------------------------
(***************************************************************************)
(* What is reached in a finite graph, and the words of a graph whose edges *)
(* are labelled.  Both are recursive functions, not RECURSIVE operators:   *)
(* module Lemmas proves what they are.                                     *)
(***************************************************************************)
EXTENDS Integers, Sequences, FiniteSets

\* What the steps lead to from P, step giving the successors of each node.
Onward(step, R) == R \cup UNION {step[n] : n \in R}
Closure(step, P) ==
    LET reach[d \in 0..Cardinality(DOMAIN step)] ==
          IF d = 0 THEN P ELSE Onward(step, reach[d-1])
    IN  reach[Cardinality(DOMAIN step)]

\* The words of the paths from q over the edges E, each <<from, letter, to>>,
\* of at most d edges.
Longer(E, X) ==
    UNION {{<<Append(x[1], e[2]), e[3]>> : e \in {f \in E : f[1] = x[2]}} : x \in X}
Words(E, q, d) ==
    LET runs[i \in 0..d] == IF i = 0 THEN {<< << >>, q>>} ELSE Longer(E, runs[i-1])
    IN  {x[1] : x \in UNION {runs[i] : i \in 0..d}}
=============================================================================
