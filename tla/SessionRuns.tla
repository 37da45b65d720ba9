---------------------------- MODULE SessionRuns -----------------------------
(***************************************************************************)
(* The reading of a session as a transition system, the reference against  *)
(* which generated machines are compared, and which is itself compared     *)
(* with the programs that sessions are extracted from.  A point is a node  *)
(* about to be performed.  A goto stands at the label of its name: what is *)
(* attached to one is a continuation of the other, as extraction appends   *)
(* what follows an inlined call to the goto that ends it.                  *)
(***************************************************************************)
EXTENDS Sessions

\* One silent step from point n of the tree with nodes T.
SilentStep(s, T, n) ==
    CASE s.kind[n] = "skip" -> KidsOf(s, n)
      [] s.kind[n] \in {"label", "goto"} ->
            UNION {KidsOf(s, m) : m \in SameLabel(s, T, n)}
      [] OTHER -> {}

\* The points reached silently from those of P.
From(s, r, P) ==
    LET T == TreeOf(s, r) IN Closure([n \in T |-> SilentStep(s, T, n)], P)

\* Before its first communication, and after each, a role is at a set of points.
Begin(s, r)    == From(s, r, {s.root[r]})
After(s, r, n) == From(s, r, KidsOf(s, n))
Comms(s, P)    == {n \in P : s.kind[n] \in CommKind}
Places(s, r)   == {Begin(s, r)} \cup {After(s, r, n) : n \in Comms(s, TreeOf(s, r))}

SessionEdges(s, r) ==
    UNION {{<<P, Comm(s, n), After(s, r, n)>> : n \in Comms(s, P)} : P \in Places(s, r)}

\* The sequences of communications role r can perform, up to d of them.
SessionTraces(s, r, d) == Words(SessionEdges(s, r), Begin(s, r), d)
=============================================================================
