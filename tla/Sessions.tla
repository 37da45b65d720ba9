------------------------------ MODULE Sessions ------------------------------
(***************************************************************************)
(* The session graph of package cfsmextract/sesstype: the tree of          *)
(* communications that the extraction writes for each role (main or a      *)
(* goroutine), in which a loop is a LabelNode and a GotoNode of one name.  *)
(*                                                                         *)
(* A session is a record                                                   *)
(*   root   the root node of each role (Session.Types)                     *)
(*   chans  the channels of the session (Session.Chans)                    *)
(*   kind   the node type of each node, skip being EmptyBody and NewChan   *)
(*   arg    the channel of a communication, the name of a label or a goto  *)
(*   kids   the children of each node, in order                            *)
(***************************************************************************)
EXTENDS Integers, Sequences, FiniteSets, Closures

CONSTANTS Role,    \* names of roles
          Chan,    \* channels
          Label,   \* names of labels
          Node     \* identities of session nodes

\* send, recv, stop and end are the communications: SendNode, RecvNode,
\* RecvNode with stop set (sees the channel closed) and EndNode (close).
CommKind == {"send", "recv", "stop", "end"}
Kind     == CommKind \cup {"skip", "label", "goto"}

IsSession(s) ==
    /\ DOMAIN s.root \subseteq Role
    /\ s.root \in [DOMAIN s.root -> Node]
    /\ s.chans \subseteq Chan
    /\ s.kind \in [Node -> Kind]
    /\ s.arg \in [Node -> Chan \cup Label]
    /\ s.kids \in [Node -> Seq(Node)]
    /\ \A n \in Node : /\ s.kind[n] \in CommKind => s.arg[n] \in Chan
                       /\ s.kind[n] \in {"label", "goto"} => s.arg[n] \in Label

-----------------------------------------------------------------------------
KidsOf(s, n) == {s.kids[n][i] : i \in 1..Len(s.kids[n])}

\* The node n and those below it, and the tree of role r.
Below(s, n) == Closure([m \in DOMAIN s.kind |-> KidsOf(s, m)], {n})
TreeOf(s, r) == Below(s, s.root[r])

\* The labels and gotos of a tree, given by its nodes T, that share the name
\* of n.
SameLabel(s, T, n) ==
    {m \in T : s.kind[m] \in {"label", "goto"} /\ s.arg[m] = s.arg[n]}

Jumps(s, g, l) == s.kind[g] = "goto" /\ s.kind[l] = "label" /\ s.arg[g] = s.arg[l]

\* Role r has a tree: no node is a child twice, and the root is none's child.
OneParent(s, r) ==
    \A m, n \in TreeOf(s, r) : \A i \in 1..Len(s.kids[m]), j \in 1..Len(s.kids[n]) :
       /\ s.kids[m][i] # s.root[r]
       /\ s.kids[m][i] = s.kids[n][j] => m = n /\ i = j

\* A label has its name for itself, and no goto precedes it, neither above it
\* nor in an earlier branch.
LabelsFirst(s, r) ==
    /\ \A l, m \in TreeOf(s, r) :
          s.kind[l] = "label" /\ s.kind[m] = "label" /\ s.arg[l] = s.arg[m] => l = m
    /\ \A n \in TreeOf(s, r) :
          /\ \A l \in Below(s, n) : ~Jumps(s, n, l)
          /\ \A i, j \in 1..Len(s.kids[n]) : i < j =>
                \A g \in Below(s, s.kids[n][i]), l \in Below(s, s.kids[n][j]) : ~Jumps(s, g, l)

\* A communication as the role sees it: direction, channel, message.
STOP == "STOP"
Data == "data"
Event(k, c) ==
    [dir |-> IF k \in {"send", "end"} THEN "!" ELSE "?",
     peer |-> c,
     msg |-> IF k \in {"stop", "end"} THEN STOP ELSE Data]
Comm(s, n) == Event(s.kind[n], s.arg[n])
=============================================================================
