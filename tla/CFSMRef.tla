------------------------------ MODULE CFSMRef -------------------------------
(***************************************************************************)
(* The machine of a role against its session.                              *)
(***************************************************************************)
EXTENDS CFSMGen, SessionRuns

CONSTANT Depth         \* length of the sequences of communications compared

ASSUME DepthAssumption == Depth \in Nat

\* The sequences of communications of machine m, up to d of them.
MachineEdges(m) ==
    {<<t.from, [dir |-> t.dir, peer |-> t.peer, msg |-> t.msg], t.to>> : t \in trans[m]}
MachineTraces(m, d) == Words(MachineEdges(m), Start, d)

\* The nodes of role r translated from the state from which those of P are:
\* what follows a goto is translated from the state of its label.
KidsAt(s, r, n) ==
    CASE s.kind[n] = "skip" -> KidsOf(s, n)
      [] s.kind[n] = "label" -> UNION {KidsOf(s, m) : m \in SameLabel(s, TreeOf(s, r), n)}
      [] OTHER -> {}
Region(s, r, P) == Closure([n \in TreeOf(s, r) |-> KidsAt(s, r, n)], P)
Regions(s, r) ==
    {Region(s, r, {s.root[r]})} \cup
    {Region(s, r, KidsOf(s, c)) : c \in Comms(s, TreeOf(s, r))}

IsLoop(s, c, g, l) ==
    /\ s.kind[c] \in CommKind \ {"end"}
    /\ s.kids[c] = <<g>>
    /\ Jumps(s, g, l)

\* Every goto jumps over no communication, or back over one after which
\* nothing is attached.
ShortLoops(s, r) ==
    \A g \in TreeOf(s, r) : s.kind[g] = "goto" =>
       \E R \in Regions(s, r) : \E l \in R :
          /\ Jumps(s, g, l)
          /\ \/ g \in R
             \/ s.kids[g] = << >> /\ \E c \in R : IsLoop(s, c, g, l)

\* A loop of one communication has the state of its label for itself: what
\* else the state offers is inside the loop.
LoopsOwnState(s, r) ==
    \A R \in Regions(s, r) : \A l, c \in R : \A g \in KidsOf(s, c) :
       IsLoop(s, c, g, l) =>
          \A n \in R : s.kind[n] \in CommKind => n \in Region(s, r, {l})

\* A machine does only what its session describes, unless the state of a loop
\* is shared with what precedes or avoids the loop.
MachineWithinSession ==
    pc = "done" => \A r \in roles :
       LoopsOwnState(session, r) =>
          MachineTraces(r, Depth) \subseteq SessionTraces(session, r, Depth)

\* A machine does everything its session describes as long as the session is a
\* tree with its labels first and no goto jumps over more than one communication.
SessionWithinMachine ==
    pc = "done" => \A r \in roles :
       OneParent(session, r) /\ LabelsFirst(session, r) /\ ShortLoops(session, r) =>
          SessionTraces(session, r, Depth) \subseteq MachineTraces(r, Depth)
=============================================================================
