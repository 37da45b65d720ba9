------------------------------ MODULE Programs ------------------------------
(***************************************************************************)
(* The programs that are analysed, in the SSA form of golang.org/x/tools   *)
(* as the extraction reads it: a function is a sequence of blocks, the     *)
(* first its entry, and a block has instructions and successors.  A        *)
(* function without blocks is external.  The comment of a block says which *)
(* part of a statement it is.                                              *)
(*                                                                         *)
(* Only the instructions that concern control and channels are told apart: *)
(*   op    what is done                                                    *)
(*   x     the channel, the function, the variable, or the select or       *)
(*         comparison that is tested                                       *)
(*   n     the position of a go statement, the case number of a test, the  *)
(*         constant operand of a comparison                                *)
(*   args  the cases of a select, the call that a defer defers, the edges  *)
(*         of a phi, the phi that is compared                              *)
(***************************************************************************)
EXTENDS Integers, Sequences, FiniteSets, SequencesExt

Ins(op, x, n, args) == [op |-> op, x |-> x, n |-> n, args |-> args]

Make(c)        == Ins("make", c, 0, << >>)
Send(c)        == Ins("send", c, 0, << >>)
Recv(c)        == Ins("recv", c, 0, << >>)
RecvOk(c)      == Ins("recvok", c, 0, << >>)       \* v, ok := <-c
Close(c)       == Ins("close", c, 0, << >>)
Call(f)        == Ins("call", f, 0, << >>)
Go(f, pos)     == Ins("go", f, pos, << >>)
Defer(i)       == Ins("defer", i.x, 0, <<i>>)      \* i a call or a close
RunDefers      == Ins("rundefers", "", 0, << >>)
\* A select with its cases, sends and receives; a case n more than there are
\* is the default.
Select(id, cases)    == Ins("select", id, 1, cases)
SelectElse(id, cases) == Ins("select", id, 0, cases)
Jump           == Ins("jump", "", 0, << >>)
If             == Ins("if", "", 0, << >>)
IfRecv(c)      == Ins("ifrecv", c, 0, << >>)       \* if ok
IfSel(id, n)   == Ins("ifsel", id, n, << >>)       \* if the index is n
Return         == Ins("return", "", 0, << >>)
Panic          == Ins("panic", "", 0, << >>)

Blocking(i) == i.n = 1

\* The loop variable v: its edge from outside the loop, and from the loop.
Phi(v, from, again) == Ins("phi", v, 0, <<from, again>>)
Const(n)       == Ins("const", "", n, << >>)
Add(n)         == Ins("add", "", n, << >>)         \* v + n
Sub(n)         == Ins("sub", "", n, << >>)
Mul(n)         == Ins("mul", "", n, << >>)
\* The comparison id of v, or of what is no phi, with the constant n; the
\* operators are those of token: lss, leq, gtr, geq.
CmpOps         == {"lss", "leq", "gtr", "geq"}
Cmp(op, id, v, n) == Ins(op, id, n, <<Ins("phi", v, 0, << >>)>>)
CmpOther(op, id, n) == Ins(op, id, n, << >>)
IfCmp(id)      == Ins("ifcmp", id, 0, << >>)
LenOf          == Ins("len", "", 0, << >>)         \* the len of a slice
CallClosure(f) == Ins("callclosure", f, 0, << >>)  \* func() { ... }()

BlockOf(comment, ins, succs) == [comment |-> comment, ins |-> ins, succs |-> succs]
Block(ins, succs) == BlockOf("", ins, succs)

-----------------------------------------------------------------------------
\* The edges into block b of function f of program p.
Preds(p, f, b) ==
    {e \in UNION {{<<a, k>> : k \in 1..Len(p[f][a].succs)} : a \in 1..Len(p[f])} :
        p[f][e[1]].succs[e[2]] = b}

\* The instructions of f, and the functions it calls, directly or as deferred
\* calls, or starts.
InstrsOf(p, f) == UNION {Range(p[f][b].ins) : b \in 1..Len(p[f])}
Targets(p, f, ops) ==
    {i.x : i \in {j \in InstrsOf(p, f) : j.op \in ops}} \cup
    {i.args[1].x : i \in {j \in InstrsOf(p, f) :
                            j.op = "defer" /\ "call" \in ops /\ j.args[1].op = "call"}}

\* The functions reached from f in one step or more.
Reached(p, f, ops) ==
    LET reach[d \in 0..Cardinality(DOMAIN p)] ==
          IF d = 0 THEN Targets(p, f, ops)
          ELSE LET R == reach[d-1]
               IN  R \cup UNION {Targets(p, g, ops) : g \in R}
    IN  reach[Cardinality(DOMAIN p)]
=============================================================================
