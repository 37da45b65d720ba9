------------------------------ MODULE MigoRuns ------------------------------
(***************************************************************************)
(* What a MiGo program says a goroutine can do on channels.  A point is    *)
(* the sequence of the statements left.                                    *)
(***************************************************************************)
EXTENDS Migo, ProgramRuns

\* The definitions of the program, by name.
Names == {defs[funcs[j]].name : j \in DOMAIN funcs}
BodyOf == [x \in Names |->
             defs[CHOOSE d \in Range(funcs) : defs[d].name = x].stmts]

CommStmts == {"send", "recv", "close"}

\* The points after a step without a communication.
SilentMigo(body, c) ==
    LET s == Head(c) IN
    CASE s.op \in {"newchan", "spawn", "tau"} -> {Tail(c)}
      [] s.op = "call" -> IF s.x \in DOMAIN body THEN {body[s.x] \o Tail(c)} ELSE {}
      [] s.op = "if"   -> {s.then \o Tail(c), s.else \o Tail(c)}
      [] s.op = "select" ->
            {k \o Tail(c) : k \in {x \in Range(sels[s.n].cases) : Head(x).op = "tau"}}
      [] OTHER -> {}

\* The communications possible, each with the point after it.
VisibleMigo(c) ==
    LET s == Head(c)
        Done(t) == Event(IF t.op = "close" THEN "end" ELSE t.op, t.x)
    IN  CASE s.op \in CommStmts -> {<<Done(s), Tail(c)>>}
          [] s.op = "select" ->
                {<<Done(Head(k)), Tail(k) \o Tail(c)>> :
                   k \in {x \in Range(sels[s.n].cases) : Head(x).op # "tau"}}
          [] OTHER -> {}

RECURSIVE SettleMigo(_, _, _)
SettleMigo(body, S, New) ==
    LET fresh == UNION {SilentMigo(body, c) : c \in New \ {<< >>}} \ S
    IN  IF fresh = {} THEN S ELSE SettleMigo(body, S \cup fresh, fresh)

\* The communications of a goroutine that performs the definition x, up to d
\* of them.
MigoTraces(x, d) ==
    LET body == BodyOf
        start == <<Stmt("call", x)>>
        After(w, S) == {<<Append(w, v[1]), SettleMigo(body, {v[2]}, {v[2]})>> :
                          v \in UNION {VisibleMigo(c) : c \in S \ {<< >>}}}
        runs[k \in 0..d] ==
          IF k = 0 THEN {<<<< >>, SettleMigo(body, {start}, {start})>>}
          ELSE UNION {After(y[1], y[2]) : y \in runs[k-1]}
    IN  {y[1] : y \in UNION {runs[k] : k \in 0..d}}
=============================================================================
