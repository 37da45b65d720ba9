---------------------------- MODULE ProgramRuns -----------------------------
(***************************************************************************)
(* What a goroutine of a program can do on channels, the reference that    *)
(* the inferred models are compared with.  Conditions on data are left     *)
(* open: both branches are possible, except for comparisons of a loop      *)
(* variable whose values are known.                                        *)
(*                                                                         *)
(* A point is a stack of activations, top first: function, block, the one  *)
(* before, index of the next instruction, the outcome of the last receive  *)
(* or select, the calls deferred so far, and the values of the variables   *)
(* and comparisons that are known.                                         *)
(***************************************************************************)
EXTENDS Programs, Sessions

Activation(f) == [fn |-> f, b |-> 1, from |-> 0, i |-> 1, chose |-> 0,
                  defers |-> << >>, val |-> << >>]

At(p, c)      == p[c[1].fn][c[1].b].ins[c[1].i]
Advance(c)    == [c EXCEPT ![1].i = @ + 1]
Chose(c, n)   == [Advance(c) EXCEPT ![1].chose = n]
Branch(p, c, k) == [c EXCEPT ![1].b = p[c[1].fn][c[1].b].succs[k], ![1].i = 1,
                             ![1].from = c[1].b]

\* The point after v is found to be n, or is not known.
Valued(c, v, n) == [c EXCEPT ![1].val = (v :> n) @@ @]
Unvalued(c, v) ==
    [c EXCEPT ![1].val = [x \in DOMAIN @ \ {v} |-> @[x]]]

\* The next value of the loop variable of phi i, which enters the loop by the
\* edge from the first of the blocks before it.
Phied(p, c, i) ==
    LET act == c[1]
        outside == \A e \in Preds(p, act.fn, act.b) : act.from <= e[1]
        by == i.args[IF outside THEN 1 ELSE 2]
    IN  CASE by.op = "const" -> Valued(c, i.x, by.n)
          [] by.op \in {"add", "sub", "mul"} /\ i.x \in DOMAIN act.val ->
                Valued(c, i.x, CASE by.op = "add" -> act.val[i.x] + by.n
                                [] by.op = "sub" -> act.val[i.x] - by.n
                                [] OTHER -> act.val[i.x] * by.n)
          [] OTHER -> Unvalued(c, i.x)

Holds(op, m, n) ==
    CASE op = "lss" -> m < n [] op = "leq" -> m <= n
      [] op = "gtr" -> m > n [] op = "geq" -> m >= n

\* The comparison i holds (1) or not (2), if its variable is known.
Compared(c, i) ==
    IF i.args # << >> /\ i.args[1].x \in DOMAIN c[1].val
    THEN Valued(c, i.x, IF Holds(i.op, c[1].val[i.args[1].x], i.n) THEN 1 ELSE 2)
    ELSE Unvalued(c, i.x)

\* The stack when function f is called from c, which goes on afterwards.
Enter(p, c, f) == IF p[f] = << >> THEN c ELSE <<Activation(f)>> \o c

Undefer(c) == [c EXCEPT ![1].defers = Front(@)]

\* What is done without a communication.
Silent(p, c) ==
    LET i == At(p, c) IN
    CASE i.op \in {"make", "go", "len"} -> {Advance(c)}
      [] i.op = "phi"    -> {Phied(p, Advance(c), i)}
      [] i.op \in CmpOps -> {Compared(Advance(c), i)}
      [] i.op \in {"call", "callclosure"} -> {Enter(p, Advance(c), i.x)}
      [] i.op = "defer" -> {[Advance(c) EXCEPT ![1].defers = Append(@, i.args[1])]}
      [] i.op = "rundefers" ->
            IF c[1].defers = << >> THEN {Advance(c)}
            ELSE {Enter(p, Undefer(c), d.x) :
                    d \in {e \in {Last(c[1].defers)} : e.op = "call"}}
      [] i.op = "select" ->
            IF Blocking(i) THEN {} ELSE {Chose(c, Len(i.args))}
      [] i.op = "jump"   -> {Branch(p, c, 1)}
      [] i.op = "if"     -> {Branch(p, c, 1), Branch(p, c, 2)}
      [] i.op = "ifcmp"  ->
            IF i.x \in DOMAIN c[1].val THEN {Branch(p, c, c[1].val[i.x])}
            ELSE {Branch(p, c, 1), Branch(p, c, 2)}
      [] i.op \in {"ifrecv", "ifsel"} ->
            {Branch(p, c, IF c[1].chose = i.n THEN 1 ELSE 2)}
      [] i.op = "return" -> {Tail(c)}
      [] OTHER -> {}

\* What is done by a communication, each with the point after it.
Visible(p, c) ==
    LET i == At(p, c) IN
    CASE i.op \in {"send", "recv"} -> {<<Event(i.op, i.x), Advance(c)>>}
      [] i.op = "close"  -> {<<Event("end", i.x), Advance(c)>>}
      [] i.op = "recvok" -> {<<Event("recv", i.x), Chose(c, 0)>>,
                             <<Event("stop", i.x), Chose(c, 1)>>}
      [] i.op = "select" ->
            {<<Event(i.args[k].op, i.args[k].x), Chose(c, k - 1)>> :
               k \in 1..Len(i.args)}
      [] i.op = "rundefers" ->
            {<<Event("end", d.x), Undefer(c)>> :
               d \in {e \in Range(c[1].defers) : e = Last(c[1].defers) /\ e.op = "close"}}
      [] OTHER -> {}

RECURSIVE Settle(_, _, _)
\* The points reached without a communication from those of S, of which only
\* those of New have steps that are not in S yet.
Settle(p, S, New) ==
    LET fresh == UNION {Silent(p, c) : c \in New \ {<< >>}} \ S
    IN  IF fresh = {} THEN S ELSE Settle(p, S \cup fresh, fresh)

\* The communications of a goroutine that performs the functions of fs one
\* after the other, up to d of them.
ProgramTraces(p, fs, d) ==
    LET start == [k \in 1..Len(fs) |-> Activation(fs[k])]
        Then(w, S) == {<<Append(w, v[1]), Settle(p, {v[2]}, {v[2]})>> :
                         v \in UNION {Visible(p, c) : c \in S \ {<< >>}}}
        runs[k \in 0..d] ==
          IF k = 0 THEN {<<<< >>, Settle(p, {start}, {start})>>}
          ELSE UNION {Then(x[1], x[2]) : x \in runs[k-1]}
    IN  {x[1] : x \in UNION {runs[k] : k \in 0..d}}
=============================================================================
