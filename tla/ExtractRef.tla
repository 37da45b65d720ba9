----------------------------- MODULE ExtractRef -----------------------------
(***************************************************************************)
(* Extracted sessions against the programs they come from.                 *)
(***************************************************************************)
EXTENDS Extract, ProgramRuns, SessionRuns

CONSTANT Depth         \* length of the sequences of communications compared

ASSUME ExtractDepthAssumption == Depth \in Nat

\* The session after Run, as NewCFSMs and the dot output read it.
Result ==
    [root |-> types,
     chans |-> chans,
     kind |-> [n \in DOMAIN tree |-> tree[n].kind],
     arg |-> [n \in DOMAIN tree |-> tree[n].arg],
     kids |-> [n \in DOMAIN tree |-> tree[n].kids]]

\* The functions that the goroutine of role r performs.
Entry(r) == IF r = Main THEN <<"init", "main">> ELSE <<r[1]>>

-----------------------------------------------------------------------------
(* When a session can be exact: what follows an inlined call is appended   *)
(* to the leaf at which the visit of the callee ends.                      *)

Silently(p, f, b) == \A i \in Range(p[f][b].ins) : i.op \in {"return", "panic", "jump"}
Exits(p, f) == {b \in 1..Len(p[f]) : Last(p[f][b].ins).op = "return"}
Joins(p, f) == {b \in 1..Len(p[f]) : Cardinality(Preds(p, f, b)) > 1}

\* The blocks entered last: from each block, the last successor that does
\* more than panic.
Walk(p, f) ==
    LET next(b) == SelectSeq(p[f][b].succs, LAMBDA c : p[f][c].ins[1].op # "panic")
        walk[d \in 0..Len(p[f])] ==
          IF d = 0 THEN <<1>>
          ELSE LET w == walk[d-1]
               IN  IF next(Last(w)) = << >> \/ Last(next(Last(w))) \in Range(w) THEN w
                   ELSE Append(w, Last(next(Last(w))))
    IN  walk[Len(p[f])]

Reach(p, f, b) ==
    LET reach[d \in 0..Len(p[f])] ==
          IF d = 0 THEN {b}
          ELSE LET R == reach[d-1] IN R \cup UNION {Range(p[f][c].succs) : c \in R}
    IN  reach[Len(p[f])]

\* The visit of f ends where f returns: at its only exit, or at a goto to it
\* if nothing is done there; a join on the way there is not visited earlier.
Resumes(p, f) ==
    LET w == Walk(p, f) IN
    /\ Exits(p, f) = {Last(w)}
    /\ \A j \in 1..Len(w) : w[j] \in Joins(p, f) =>
          \/ w[j] = Last(w) /\ Silently(p, f, w[j])
          \/ \A k \in 1..(j-1) : Len(p[f][w[k]].succs) = 2 =>
                w[j] \notin Reach(p, f, p[f][w[k]].succs[1])

\* Calls are deferred only at the start of a function, and a receive with ok
\* is from a channel of the program and tested at once.
Regular(p, f) ==
    /\ \A b \in 2..Len(p[f]) : \A i \in Range(p[f][b].ins) : i.op # "defer"
    /\ \A b \in 1..Len(p[f]) : \A j \in 1..Len(p[f][b].ins) :
          LET i == p[f][b].ins[j]
          IN  i.op = "recvok" =>
                /\ j + 1 = Len(p[f][b].ins)
                /\ p[f][b].ins[j+1] = IfRecv(i.x)
                /\ \E g \in DOMAIN p : Make(i.x) \in InstrsOf(p, g)

\* The frames of the functions inlined in role r.
Inlined(r) ==
    {k \in 2..Len(frames) : frames[k].role = r /\ frames[frames[k].caller].role = r}

Exact(r) ==
    LET used == Range(Entry(r)) \cup {frames[k].fn : k \in Inlined(r)}
        code == {f \in used : prog[f] # << >>}
    IN  /\ \A f \in code : f \notin Reached(prog, f, {"call"}) /\ Regular(prog, f)
        /\ \A f \in code \ {Last(Entry(r))} : Resumes(prog, f)
        /\ \A j, k \in Inlined(r) :
              j # k /\ frames[j].fn = frames[k].fn /\ frames[j].fn \in code =>
                 Joins(prog, frames[j].fn) = {}

-----------------------------------------------------------------------------
(* Properties.                                                             *)

\* No communication sequence of a goroutine is lost: what the program can do
\* on channels, the session of its role describes (visitBlock, visitIf,
\* visitSelect, visitRecv, callCommon, visitRunDefers).
ProgramWithinSession ==
    pc = "done" => \A r \in DOMAIN types :
       Exact(r) => ProgramTraces(prog, Entry(r), Depth)
                     \subseteq SessionTraces(Result, r, Depth)

\* And none is invented: what the session of a role describes, some choice of
\* conditions and of select cases lets the program do.
SessionWithinProgram ==
    pc = "done" => \A r \in DOMAIN types :
       Exact(r) => SessionTraces(Result, r, Depth)
                     \subseteq ProgramTraces(prog, Entry(r), Depth)
=============================================================================
