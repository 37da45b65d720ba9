------------------------------ MODULE CFSMGen -------------------------------
(***************************************************************************)
(* NewCFSMs of cfsmextract/sesstype/cfsm.go: from a session to a system of *)
(* communicating machines, one for each channel and one for each role.     *)
(*                                                                         *)
(* The recursion of nodeToMachine is a stack of frames: "visit" translates *)
(* a node from a state of the machine, "link" is what a communication does *)
(* after the recursive calls on its children, SetNext and AddTransition.   *)
(* The states of a machine are numbered in the order of NewState, and a    *)
(* machine is named by its role or channel.                                *)
(***************************************************************************)
EXTENDS Sessions

CONSTANTS Session,   \* the sessions that may be translated
          NoRole     \* no machine of a role is being built

ASSUME SessionAssumption == \A s \in Session : IsSession(s)
ASSUME RoleAssumption == IsFiniteSet(Role)
ASSUME NodeAssumption == IsFiniteSet(Node)
ASSUME NameAssumption == Role \cap Chan = {} /\ NoRole \notin Role \cup Chan

VARIABLES
    session,   \* the session being translated
    pc,        \* "chans", "roles", "relays", "done" or "crashed"
    role,      \* the role whose machine is being built
    todo,      \* roles the loop over session.root has not reached
    deferred,  \* channels whose chanToMachine is deferred, last first
    work,      \* frames of nodeToMachine, top first
    chans,     \* sys.Chans: channels with a machine
    roles,     \* sys.Roles: roles with a machine
    size,      \* number of states of each machine
    states,    \* sys.States: for each role, the state of each label visited
    trans      \* the transitions of each machine

vars == <<session, pc, role, todo, deferred, work, chans, roles, size,
          states, trans>>

Machine == Role \cup Chan
Start   == 0          \* every machine starts at its first state
Nil     == -1         \* the state of a label that was never visited
Ref     == Nat \cup {Nil}

Transition == [from : Nat, dir : {"!", "?"}, peer : Machine,
               msg : {Data, STOP}, to : Nat]
Edge(from, dir, peer, msg, to) ==
    [from |-> from, dir |-> dir, peer |-> peer, msg |-> msg, to |-> to]

Visit(n, q)    == [do |-> "visit", node |-> n, at |-> q, to |-> q]
Link(n, q, q1) == [do |-> "link", node |-> n, at |-> q, to |-> q1]
Frame == [do : {"visit", "link"}, node : Node, at : Ref, to : Ref]

-----------------------------------------------------------------------------
Init ==
    /\ session \in Session
    /\ pc = "chans"
    /\ role = NoRole
    /\ todo = DOMAIN session.root
    /\ deferred = << >>
    /\ work = << >>
    /\ chans = {}
    /\ roles = {}
    /\ size = [m \in Machine |-> 0]
    /\ states = [r \in Role |-> << >>]
    /\ trans = [m \in Machine |-> {}]

\* One iteration of the loop over session.chans, in the order of a Go map:
\* any.  The machine stays without states until the deferred call.
MakeChanMachine(c) ==
    /\ pc = "chans"
    /\ c \in session.chans \ chans
    /\ chans' = chans \cup {c}
    /\ deferred' = <<c>> \o deferred
    /\ UNCHANGED <<session, pc, role, todo, work, roles, size, states, trans>>

ChansMade ==
    /\ pc = "chans"
    /\ chans = session.chans
    /\ pc' = "roles"
    /\ UNCHANGED <<session, role, todo, deferred, work, chans, roles, size,
                   states, trans>>

\* One iteration of the loop over session.root: a machine, its start state and the call of
\* nodeToMachine on the root.
BeginRole(r) ==
    /\ pc = "roles"
    /\ role = NoRole
    /\ r \in todo
    /\ todo' = todo \ {r}
    /\ role' = r
    /\ roles' = roles \cup {r}
    /\ size' = [size EXCEPT ![r] = 1]
    /\ work' = <<Visit(session.root[r], Start)>>
    /\ UNCHANGED <<session, pc, deferred, chans, states, trans>>

\* IsEmpty, of package cfsm: no transition leaves any state.
IsEmpty_OneState(r) == size[r] = 1
IsEmpty(r) == trans[r] = {}

\* The end of that iteration: an empty machine is removed.
EndRole ==
    /\ pc = "roles"
    /\ role # NoRole
    /\ work = << >>
    /\ IF IsEmpty(role)
       THEN /\ roles' = roles \ {role}
            /\ states' = [states EXCEPT ![role] = << >>]
       ELSE UNCHANGED <<roles, states>>
    /\ role' = NoRole
    /\ UNCHANGED <<session, pc, todo, deferred, work, chans, size, trans>>

-----------------------------------------------------------------------------
(* nodeToMachine, one action for each kind of node.                        *)

Top == work[1]

\* The top frame visits a node of one of the kinds K.
Visiting(K) ==
    /\ pc = "roles"
    /\ work # << >>
    /\ Top.do = "visit"
    /\ session.kind[Top.node] \in K

\* The calls on the children of n, each from state q.
VisitKids(n, q) ==
    [i \in 1..Len(session.kids[n]) |-> Visit(session.kids[n][i], q)]

\* The state of label l in the machine of the current role.
Target(l) == IF l \in DOMAIN states[role] THEN states[role][l] ELSE Nil

\* isSelfLoop: the only child of n jumps to a label visited with state q.
IsSelfLoop_Never(n, q) == FALSE
IsSelfLoop_AnyLabel(n, q) ==
    /\ Len(session.kids[n]) = 1
    /\ session.kind[session.kids[n][1]] = "goto"
IsSelfLoop(n, q) ==
    /\ Len(session.kids[n]) = 1
    /\ LET g == session.kids[n][1]
       IN  /\ session.kind[g] = "goto"
           /\ session.arg[g] \in DOMAIN states[role]
           /\ states[role][session.arg[g]] = q

\* NewState of the current machine, unless the communication is a self loop.
NewState_Never(back) == size
NewState_Always(back) == [size EXCEPT ![role] = @ + 1]
NewState(back) == IF back THEN size ELSE [size EXCEPT ![role] = @ + 1]

\* Send, Recv, Recv with stop and End.  A channel the session does not have
\* ends the program (log.Fatal).  On a self loop the children are not
\* visited; an EndNode is never taken for one.
VisitComm ==
    /\ Visiting(CommKind)
    /\ LET n    == Top.node
           q    == Top.at
           back == session.kind[n] # "end" /\ IsSelfLoop(n, q)
           q1   == IF back THEN q ELSE size[role]
       IN  IF session.arg[n] \notin chans
           THEN pc' = "crashed" /\ UNCHANGED <<work, size>>
           ELSE /\ work' = (IF back THEN << >> ELSE VisitKids(n, q1))
                             \o <<Link(n, q, q1)>> \o Tail(work)
                /\ size' = NewState(back)
                /\ UNCHANGED pc
    /\ UNCHANGED <<session, role, todo, deferred, chans, roles, states, trans>>

\* The state of a label that was never visited is a nil pointer, on which
\* AddTransition panics.
OnNil_Unchecked == FALSE
OnNil == Top.at = Nil

\* SetNext and AddTransition.
LinkComm ==
    /\ pc = "roles"
    /\ work # << >>
    /\ Top.do = "link"
    /\ IF OnNil
       THEN pc' = "crashed" /\ UNCHANGED <<work, trans>>
       ELSE LET c == Comm(session, Top.node)
            IN  /\ trans' = [trans EXCEPT ![role] = @ \cup
                               {Edge(Top.at, c.dir, c.peer, c.msg, Top.to)}]
                /\ work' = Tail(work)
                /\ UNCHANGED pc
    /\ UNCHANGED <<session, role, todo, deferred, chans, roles, size, states>>

VisitSkip ==
    /\ Visiting({"skip"})
    /\ work' = VisitKids(Top.node, Top.at) \o Tail(work)
    /\ UNCHANGED <<session, pc, role, todo, deferred, chans, roles, size,
                   states, trans>>

VisitLabel ==
    /\ Visiting({"label"})
    /\ LET name == session.arg[Top.node]
       IN  states' = [states EXCEPT ![role] =
                        [l \in DOMAIN states[role] \cup {name} |->
                           IF l = name THEN Top.at ELSE states[role][l]]]
    /\ work' = VisitKids(Top.node, Top.at) \o Tail(work)
    /\ UNCHANGED <<session, pc, role, todo, deferred, chans, roles, size, trans>>

VisitGoto ==
    /\ Visiting({"goto"})
    /\ work' = VisitKids(Top.node, Target(session.arg[Top.node])) \o Tail(work)
    /\ UNCHANGED <<session, pc, role, todo, deferred, chans, roles, size,
                   states, trans>>

-----------------------------------------------------------------------------
(* The deferred calls of chanToMachine, when NewCFSMs returns.             *)

RolesMade ==
    /\ pc = "roles"
    /\ role = NoRole
    /\ todo = {}
    /\ pc' = "relays"
    /\ UNCHANGED <<session, role, todo, deferred, work, chans, roles, size,
                   states, trans>>

Final == 1            \* qEnd of a channel

\* The roles that chanToMachine loops over.
Relayed_All == DOMAIN session.root
Relayed == roles

\* The transitions of a channel machine over the roles R, whose state q1 for
\* role r is mid[r].
RelayEdges_NoReturn(R, mid) ==
    {Edge(Start, "?", r, Data, mid[r]) : r \in R}
    \cup {Edge(mid[x[1]], "!", x[2], Data, mid[x[1]]) : x \in {y \in R \X R : y[1] # y[2]}}
RelayEdges(R, mid) ==
    LET pairs == {x \in R \X R : x[1] # x[2]}
    IN  {Edge(Start, "?", r, Data, mid[r]) : r \in R}
        \cup {Edge(mid[x[1]], "!", x[2], Data, Start) : x \in pairs}
        \cup {Edge(Final, "?", r, STOP, Final) : r \in R}
        \cup {Edge(Final, "!", x[2], STOP, Final) : x \in pairs}

\* The orders in which a loop over the map sys.Roles may number the states
\* q1: after q0 and qEnd.
Numbering(R) ==
    {f \in [R -> 2..(Cardinality(R) + 1)] :
        \A r1, r2 \in R : f[r1] = f[r2] => r1 = r2}

ChanToMachine ==
    /\ pc = "relays"
    /\ deferred # << >>
    /\ LET c == Head(deferred)
       IN  \E mid \in Numbering(Relayed) :
             /\ trans' = [trans EXCEPT ![c] = RelayEdges(Relayed, mid)]
             /\ size' = [size EXCEPT ![c] = Cardinality(Relayed) + 2]
    /\ deferred' = Tail(deferred)
    /\ UNCHANGED <<session, pc, role, todo, work, chans, roles, states>>

Return ==
    /\ pc = "relays"
    /\ deferred = << >>
    /\ pc' = "done"
    /\ UNCHANGED <<session, role, todo, deferred, work, chans, roles, size,
                   states, trans>>

\* NewCFSMs has returned, or the program has ended.
Terminated ==
    /\ pc \in {"done", "crashed"}
    /\ UNCHANGED vars

Next ==
    \/ \E c \in Chan : MakeChanMachine(c)
    \/ ChansMade
    \/ \E r \in Role : BeginRole(r)
    \/ EndRole
    \/ VisitComm
    \/ LinkComm
    \/ VisitSkip
    \/ VisitLabel
    \/ VisitGoto
    \/ RolesMade
    \/ ChanToMachine
    \/ Return
    \/ Terminated

Spec == Init /\ [][Next]_vars
-----------------------------------------------------------------------------
(* Properties.                                                             *)

\* The type of every variable; a state named in a frame, a label or a
\* transition of the machine under construction has been allocated.
TypeOK ==
    /\ IsSession(session)
    /\ pc \in {"chans", "roles", "relays", "done", "crashed"}
    /\ role \in Role \cup {NoRole}
    /\ todo \subseteq DOMAIN session.root
    /\ deferred \in Seq(Chan)
    /\ work \in Seq(Frame)
    /\ chans \subseteq session.chans
    /\ roles \subseteq DOMAIN session.root
    /\ size \in [Machine -> Nat]
    /\ \A r \in Role : /\ DOMAIN states[r] \subseteq Label
                       /\ states[r] \in [DOMAIN states[r] -> Ref]
    /\ DOMAIN states = Role
    /\ trans \in [Machine -> SUBSET Transition]

\* A transition of machine m joins two states NewState has returned for m, so
\* none of them has its SetNext or its AddTransition on a state of another
\* machine or on nil.
EndpointsAllocated ==
    \A m \in Machine : \A t \in trans[m] : t.from < size[m] /\ t.to < size[m]

\* Each state of a role's machine except the start is the target of a
\* transition from an older state, at the latest when nodeToMachine returns
\* to the frame that allocated it.  At the end, where no frame is left, every
\* state is so reachable from the start.
Linked ==
    \A r \in roles : \A q \in 1..(size[r] - 1) :
       \/ \E t \in trans[r] : t.to = q /\ t.from < q
       \/ /\ r = role
          /\ \E i \in DOMAIN work : /\ work[i].do = "link"
                                    /\ work[i].to = q /\ work[i].at < q

\* A machine of the finished system names only machines of the system: roles
\* talk to channels and channels to roles, and no removed role is named.
PeersInSystem ==
    pc = "done" =>
       /\ \A r \in roles : \A t \in trans[r] : t.peer \in chans
       /\ \A c \in chans : \A t \in trans[c] : t.peer \in roles

\* Only the roles that never communicate are left out of the system: a
\* removed machine hides no behaviour.
OnlySilentRolesRemoved ==
    pc = "done" => \A r \in DOMAIN session.root \ roles :
                      \A n \in TreeOf(session, r) : session.kind[n] \notin CommKind

\* Each message a role sends as data is accepted in the start state of the
\* channel's machine, which can then hand it to any other role and be back at
\* its start.
DataIsRelayed ==
    pc = "done" =>
       \A r \in roles : \A t \in trans[r] :
          t.dir = "!" /\ t.msg = Data =>
             \A r2 \in roles \ {r} : \E in, out \in trans[t.peer] :
                /\ in = Edge(Start, "?", r, Data, in.to)
                /\ out = Edge(in.to, "!", r2, Data, Start)

\* The inductive invariant behind the theorems of CFSMProofs: what the
\* frames, the labels and the machines of the roles still to come promise.
GoodFrame(k) ==
    {f \in Frame : /\ f.at < k /\ f.to < k /\ (f.to = Nil => f.at = Nil)
                   /\ f.do = "link" => /\ session.kind[f.node] \in CommKind
                                       /\ session.arg[f.node] \in chans}

IInv ==
    /\ TypeOK
    /\ EndpointsAllocated
    /\ pc \in {"chans", "relays", "done"} => role = NoRole
    /\ role = NoRole => work = << >>
    /\ role # NoRole => work \in Seq(GoodFrame(size[role])) /\ role \notin todo
    /\ \A r \in Role : \A l \in DOMAIN states[r] : states[r][l] < size[r]
    /\ \A r \in todo : trans[r] = {} /\ DOMAIN states[r] = {}
    /\ \A r \in Role : \A t \in trans[r] : t.peer \in chans
    /\ \A c \in Chan : \A t \in trans[c] : pc \in {"relays", "done"} /\ t.peer \in roles

\* Each channel of the system waits for its deferred call, or relays.
Relaying ==
    /\ pc = "done" => deferred = << >>
    /\ \A c \in chans :
         \/ \E i \in DOMAIN deferred : deferred[i] = c
         \/ /\ pc \in {"relays", "done"}
            /\ \E mid \in Numbering(roles) : trans[c] = RelayEdges(roles, mid)

\* Of the tree of role r the nodes S were walked, none of them a
\* communication, and what they lead to is in S or in the frames at W.
Walked(r, S, W) ==
    /\ session.root[r] \in S \cup W
    /\ \A n \in S : session.kind[n] \notin CommKind /\ KidsOf(session, n) \subseteq S \cup W

\* A role that is out of the system was walked to the end; one that is being
\* walked, and has no transition and none to come, but for what is in work.
Silence ==
    /\ pc \in {"relays", "done"} => todo = {}
    /\ role # NoRole => role \in roles
    /\ \A r \in DOMAIN session.root \ (roles \cup todo) :
          \E S \in SUBSET Node : Walked(r, S, {})
    /\ /\ role # NoRole /\ trans[role] = {}
       /\ \A i \in DOMAIN work : work[i].do = "visit"
       => \E S \in SUBSET Node : Walked(role, S, {work[i].node : i \in DOMAIN work})

-----------------------------------------------------------------------------
(* What a comment says and the code does not do.                           *)

\* "q0 -- STOP --> qEnd": the machine of a channel that a role closes takes
\* the STOP message in its start state and moves to qEnd.
StopReachesEnd ==
    pc = "done" => \A r \in roles : \A t \in trans[r] :
       t.dir = "!" /\ t.msg = STOP =>
          Edge(Start, "?", r, STOP, Final) \in trans[t.peer]
=============================================================================
