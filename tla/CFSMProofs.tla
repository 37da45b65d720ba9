----------------------------- MODULE CFSMProofs -----------------------------
(***************************************************************************)
(* The machines of the roles, for every set of sessions.  First the        *)
(* invariants of NewCFSMs: the inductive invariant IInv, one lemma for each*)
(* action, and the theorems.  Then what a machine and its session perform, *)
(* to whatever depth: for each state the nodes translated from it, and for *)
(* each node the state it is translated from; a machine performs what its  *)
(* session describes, and all of it.                                       *)
(***************************************************************************)
EXTENDS CFSMRef, SequenceTheorems, Lemmas

\* The calls on the children of a node are good frames when their state is.
LEMMA VisitKidsGood ==
    ASSUME IInv, NEW n \in Node, NEW k \in Nat, NEW q \in Ref, q < k
    PROVE  VisitKids(n, q) \in Seq(GoodFrame(k))
<1> DEFINE kids == session.kids[n]
           e(i) == Visit(kids[i], q)
<1>1. kids \in Seq(Node) /\ Len(kids) \in Nat
  BY DEF IInv, TypeOK, IsSession
<1>2. ASSUME NEW i \in 1..Len(kids)
      PROVE  e(i) \in GoodFrame(k)
  <2>1. kids[i] \in Node
    BY <1>1, ElementOfSeq
  <2>. QED  BY <2>1 DEF GoodFrame, Frame, Visit
<1>. HIDE DEF e
<1>3. [i \in 1..Len(kids) |-> e(i)] \in Seq(GoodFrame(k))
  BY <1>1, <1>2, IsASeq
<1>. QED  BY <1>3 DEF VisitKids, e

\* Frames stay good when their machine has more states.
LEMMA GoodFrameMonotone ==
    ASSUME NEW j \in Nat, NEW k \in Nat, j <= k
    PROVE  GoodFrame(j) \subseteq GoodFrame(k)
BY DEF GoodFrame, Frame, Ref, Nil

\* The invariant holds of every session when NewCFSMs begins.
LEMMA InitIInv == Init => IInv
<1> SUFFICES ASSUME Init PROVE IInv
  OBVIOUS
<1> USE DEF Init
<1>1. \A r \in Role : states[r] = << >> /\ DOMAIN states[r] = {}
  OBVIOUS
<1>2. \A r \in Role : /\ DOMAIN states[r] \subseteq Label
                      /\ states[r] \in [DOMAIN states[r] -> Ref]
  BY <1>1
<1>3. TypeOK
  <2>1. IsSession(session)
    BY SessionAssumption
  <2>2. DOMAIN states = Role
    OBVIOUS
  <2>3. trans \in [Machine -> SUBSET Transition] /\ size \in [Machine -> Nat]
    OBVIOUS
  <2>4. deferred \in Seq(Chan) /\ work \in Seq(Frame)
    BY EmptySeq
  <2>. QED  BY <1>2, <2>1, <2>2, <2>3, <2>4 DEF TypeOK
<1>4. \A m \in Machine : trans[m] = {}
  OBVIOUS
<1>5. EndpointsAllocated
  BY <1>4 DEF EndpointsAllocated
<1>6. Role \subseteq Machine /\ Chan \subseteq Machine
  BY DEF Machine
<1>7. todo \subseteq Role
  BY <1>3 DEF TypeOK, IsSession
<1>. QED  BY <1>1, <1>3, <1>4, <1>5, <1>6, <1>7 DEF IInv

-----------------------------------------------------------------------------
(* One lemma for each action.                                              *)

\* The steps that change no machine, no label and no frame.
LEMMA BookkeepingIInv ==
    ASSUME IInv, (\E c \in Chan : MakeChanMachine(c)) \/ ChansMade \/ RolesMade \/ Return
    PROVE  IInv'
<1>. USE DEF IInv
<1>1. /\ UNCHANGED <<session, role, todo, work, roles, size, states, trans>>
      /\ chans' \subseteq session.chans /\ chans \subseteq chans'
      /\ deferred' \in Seq(Chan)
      /\ pc' \in {"chans", "roles", "relays", "done"}
      /\ role = NoRole
      /\ pc \in {"relays", "done"} => pc' \in {"relays", "done"}
  <2>1. CASE \E c \in Chan : MakeChanMachine(c)
    <3>1. PICK c \in Chan : MakeChanMachine(c)
      BY <2>1
    <3>2. <<c>> \o deferred \in Seq(Chan)
      BY DEF TypeOK
    <3>. QED  BY <3>1, <3>2 DEF MakeChanMachine, TypeOK
  <2>2. CASE ChansMade
    BY <2>2 DEF ChansMade, TypeOK
  <2>3. CASE RolesMade
    BY <2>3 DEF RolesMade, TypeOK
  <2>4. CASE Return
    BY <2>4 DEF Return, TypeOK
  <2>. QED  BY <2>1, <2>2, <2>3, <2>4
<1>2. TypeOK'
  BY <1>1 DEF TypeOK
<1>3. EndpointsAllocated'
  BY <1>1 DEF EndpointsAllocated
<1>. QED  BY <1>1, <1>2, <1>3

\* rootToMachine begins the machine of a role that had none.
LEMMA BeginRoleIInv ==
    ASSUME IInv, NEW r \in Role, BeginRole(r)
    PROVE  IInv'
<1>. USE DEF IInv, BeginRole
<1>1. /\ session.root[r] \in Node
      /\ r \in DOMAIN session.root
      /\ r \in Machine
      /\ r # NoRole
      /\ Role \subseteq Machine /\ Chan \subseteq Machine
      /\ r \notin Chan
  BY NameAssumption DEF TypeOK, IsSession, Machine
<1>2. size' \in [Machine -> Nat] /\ size'[r] = 1
      /\ \A m \in Machine \ {r} : size'[m] = size[m]
  BY <1>1 DEF TypeOK
<1>3. Visit(session.root[r], Start) \in Frame
      /\ Visit(session.root[r], Start) \in GoodFrame(1)'
  BY <1>1 DEF GoodFrame, Frame, Visit, Start, Ref, Nil
<1>4. work' \in Seq(Frame) /\ work' \in Seq(GoodFrame(1))'
  BY <1>3
<1>5. TypeOK'
  BY <1>1, <1>2, <1>4 DEF TypeOK
<1>6. EndpointsAllocated'
  BY <1>1, <1>2 DEF EndpointsAllocated
<1>7. \A x \in Role : \A l \in DOMAIN states'[x] : states'[x][l] < size'[x]
  BY <1>1, <1>2
<1>8. r \notin todo' /\ \A x \in todo' : trans'[x] = {} /\ DOMAIN states'[x] = {}
  OBVIOUS
<1>. QED  BY <1>1, <1>2, <1>4, <1>5, <1>6, <1>7, <1>8, NameAssumption DEF TypeOK

\* A role whose machine has no transition leaves the system.
LEMMA EndRoleIInv ==
    ASSUME IInv, EndRole
    PROVE  IInv'
<1>. USE DEF IInv, EndRole
<1>1. role \in Role /\ Role \subseteq Machine /\ Chan \subseteq Machine
  BY DEF TypeOK, Machine
<1>2. \A r \in Role : states'[r] = states[r] \/ states'[r] = << >>
  BY <1>1 DEF TypeOK
<1>3. DOMAIN states' = Role
  BY <1>1 DEF TypeOK
<1>4. DOMAIN << >> = {} /\ << >> \in [{} -> Ref]
  OBVIOUS
<1>5. \A r \in Role : /\ DOMAIN states'[r] \subseteq DOMAIN states[r]
                      /\ \A l \in DOMAIN states'[r] : states'[r][l] = states[r][l]
  BY <1>2, <1>4
<1>6. \A r \in Role : /\ DOMAIN states'[r] \subseteq Label
                      /\ states'[r] \in [DOMAIN states'[r] -> Ref]
  BY <1>2, <1>4 DEF TypeOK
<1>7. roles' \subseteq roles
  OBVIOUS
<1>8. TypeOK'
  BY <1>3, <1>6, <1>7 DEF TypeOK
<1>9. EndpointsAllocated'
  BY DEF EndpointsAllocated
<1>10. \A c \in Chan : trans[c] = {}
  BY <1>1, NameAssumption
<1>11. \A r \in Role : \A l \in DOMAIN states'[r] : states'[r][l] < size'[r]
  BY <1>5
<1>12. \A r \in todo' : trans'[r] = {} /\ DOMAIN states'[r] = {}
  BY <1>5, <1>8 DEF TypeOK, IsSession
<1>. QED  BY <1>8, <1>9, <1>10, <1>11, <1>12

\* What nodeToMachine finds on the stack.
LEMMA TopFrame ==
    ASSUME IInv, pc = "roles", work # << >>
    PROVE  /\ role \in Role /\ role \in Machine /\ role # NoRole
           /\ size[role] \in Nat
           /\ Top \in GoodFrame(size[role])
           /\ Top.node \in Node /\ Top.at \in Ref /\ Top.to \in Ref
           /\ Tail(work) \in Seq(GoodFrame(size[role]))
           /\ Tail(work) \in Seq(Frame)
<1>1. role \in Role /\ role \in Machine /\ role # NoRole /\ size[role] \in Nat
  BY NameAssumption DEF IInv, TypeOK, Machine
<1>2. work \in Seq(GoodFrame(size[role])) /\ work \in Seq(Frame)
  BY <1>1 DEF IInv, TypeOK
<1>3. Top \in GoodFrame(size[role])
  BY <1>2, EmptySeq, ElementOfSeq DEF Top
<1>4. Top \in Frame
  BY <1>3 DEF GoodFrame
<1>. QED  BY <1>1, <1>2, <1>3, <1>4, HeadTailProperties DEF Frame

\* The steps that only replace the top frame by calls on its children.
LEMMA SkipOrGotoIInv ==
    ASSUME IInv, VisitSkip \/ VisitGoto
    PROVE  IInv'
<1>1. /\ pc = "roles" /\ work # << >>
      /\ UNCHANGED <<session, pc, role, todo, deferred, chans, roles, size, states, trans>>
  BY DEF VisitSkip, VisitGoto, Visiting
<1>. USE TopFrame, <1>1
<1>2. PICK q \in Ref : q < size[role] /\ work' = VisitKids(Top.node, q) \o Tail(work)
  <2>1. CASE VisitSkip
    BY <2>1 DEF VisitSkip, GoodFrame
  <2>2. CASE VisitGoto
    <3>1. Target(session.arg[Top.node]) \in Ref
      BY DEF Target, IInv, TypeOK, Ref
    <3>2. Target(session.arg[Top.node]) < size[role]
      BY DEF Target, IInv, Nil
    <3>. QED  BY <2>2, <3>1, <3>2 DEF VisitGoto
  <2>. QED  BY <2>1, <2>2
<1>3. VisitKids(Top.node, q) \in Seq(GoodFrame(size[role]))
  BY <1>2, VisitKidsGood
<1>4. work' \in Seq(GoodFrame(size[role]))
  BY <1>2, <1>3, ConcatProperties
<1>5. work' \in Seq(Frame)
  BY <1>4, SeqMonotonic DEF GoodFrame
<1>6. work' \in Seq(GoodFrame(size[role]))'
  BY <1>4 DEF GoodFrame
<1>7. TypeOK'
  BY <1>5 DEF TypeOK, IInv
<1>8. EndpointsAllocated'
  BY DEF EndpointsAllocated, IInv
<1>. QED  BY <1>6, <1>7, <1>8 DEF IInv

\* nodeToMachine at a label: the state it allocates is in the table.
LEMMA VisitLabelIInv ==
    ASSUME IInv, VisitLabel
    PROVE  IInv'
<1>1. /\ pc = "roles" /\ work # << >>
      /\ UNCHANGED <<session, pc, role, todo, deferred, chans, roles, size, trans>>
      /\ work' = VisitKids(Top.node, Top.at) \o Tail(work)
      /\ session.kind[Top.node] = "label"
  BY DEF VisitLabel, Visiting
<1>. USE TopFrame, <1>1
<1>. DEFINE name == session.arg[Top.node]
<1>2. name \in Label
  BY DEF IInv, TypeOK, IsSession
<1>3. VisitKids(Top.node, Top.at) \in Seq(GoodFrame(size[role]))
  BY VisitKidsGood DEF GoodFrame
<1>4. work' \in Seq(GoodFrame(size[role]))
  BY <1>3, ConcatProperties
<1>5. work' \in Seq(Frame)
  BY <1>4, SeqMonotonic DEF GoodFrame
<1>6. work' \in Seq(GoodFrame(size[role]))'
  BY <1>4 DEF GoodFrame
<1>7. states' = [states EXCEPT ![role] =
                   [l \in DOMAIN states[role] \cup {name} |->
                      IF l = name THEN Top.at ELSE states[role][l]]]
  BY DEF VisitLabel
<1>8. /\ DOMAIN states' = Role
      /\ \A r \in Role \ {role} : states'[r] = states[r]
      /\ states'[role] = [l \in DOMAIN states[role] \cup {name} |->
                            IF l = name THEN Top.at ELSE states[role][l]]
  BY <1>7 DEF IInv, TypeOK
<1>9. /\ DOMAIN states'[role] = DOMAIN states[role] \cup {name}
      /\ states'[role] \in [DOMAIN states'[role] -> Ref]
  BY <1>8 DEF IInv, TypeOK
<1>10. TypeOK'
  <2>1. TypeOK
    BY DEF IInv
  <2>2. DOMAIN states'[role] \subseteq Label
    BY <1>2, <1>9, <2>1 DEF TypeOK
  <2>3. \A r \in Role : /\ DOMAIN states'[r] \subseteq Label
                        /\ states'[r] \in [DOMAIN states'[r] -> Ref]
    BY ONLY <1>8, <1>9, <2>1, <2>2 DEF TypeOK
  <2>. QED  BY ONLY <1>1, <1>5, <1>8, <2>1, <2>3 DEF TypeOK, IsSession
<1>11. \A r \in Role : \A l \in DOMAIN states'[r] : states'[r][l] < size[r]
  <2>1. Top.at < size[role]
    BY DEF GoodFrame
  <2>2. \A r \in Role : \A l \in DOMAIN states[r] : states[r][l] < size[r]
    BY DEF IInv
  <2>3. \A l \in DOMAIN states'[role] : states'[role][l] < size[role]
    BY ONLY <1>8, <1>9, <2>1, <2>2, role \in Role
  <2>. QED  BY ONLY <1>8, <2>2, <2>3
<1>12. EndpointsAllocated'
  BY DEF EndpointsAllocated, IInv
<1>13. \A r \in todo : r \in Role \ {role}
  BY DEF IInv, TypeOK, IsSession
<1>. QED  BY <1>6, <1>8, <1>10, <1>11, <1>12, <1>13 DEF IInv

\* nodeToMachine at a communication: it waits below its children.
LEMMA VisitCommIInv ==
    ASSUME IInv, VisitComm
    PROVE  IInv'
<1>. DEFINE n    == Top.node
            q    == Top.at
            back == session.kind[n] # "end" /\ IsSelfLoop(n, q)
            q1   == IF back THEN q ELSE size[role]
            k    == size'[role]
<1>1. /\ pc = "roles" /\ work # << >> /\ session.kind[n] \in CommKind
      /\ UNCHANGED <<session, role, todo, deferred, chans, roles, states, trans>>
  BY DEF VisitComm, Visiting
<1>. USE TopFrame, <1>1
<1>2. CASE session.arg[n] \notin chans
  <2>1. pc' = "crashed" /\ UNCHANGED <<work, size>>
    BY <1>2 DEF VisitComm
  <2>2. TypeOK' /\ EndpointsAllocated'
    BY <2>1 DEF IInv, TypeOK, EndpointsAllocated
  <2>3. work' \in Seq(GoodFrame(size[role]))'
    BY <2>1 DEF IInv, GoodFrame
  <2>. QED  BY <2>1, <2>2, <2>3 DEF IInv
<1>3. CASE session.arg[n] \in chans
  <2>1. /\ pc' = pc
        /\ size' = NewState(back)
        /\ work' = (IF back THEN << >> ELSE VisitKids(n, q1))
                     \o <<Link(n, q, q1)>> \o Tail(work)
    BY <1>3 DEF VisitComm
  <2>2. /\ size' \in [Machine -> Nat]
        /\ k = IF back THEN size[role] ELSE size[role] + 1
        /\ \A m \in Machine : size[m] <= size'[m]
    BY <2>1 DEF NewState, IInv, TypeOK
  <2>3. q1 \in Ref /\ q1 < k /\ q < k /\ (q1 = Nil => q = Nil)
    BY <2>2 DEF GoodFrame, Ref, Nil
  <2>. HIDE DEF back, q1, k, q, n
  <2>4. (IF back THEN << >> ELSE VisitKids(n, q1)) \in Seq(GoodFrame(k))
    <3>1. n \in Node /\ k \in Nat
      BY <2>2 DEF n
    <3>2. VisitKids(n, q1) \in Seq(GoodFrame(k))
      BY <2>3, <3>1, VisitKidsGood
    <3>. QED  BY <3>2, EmptySeq
  <2>5. Link(n, q, q1) \in GoodFrame(k)
    BY <1>3, <2>3 DEF Link, GoodFrame, Frame, n, q
  <2>6. Tail(work) \in Seq(GoodFrame(k))
    BY <2>2, GoodFrameMonotone, SeqMonotonic DEF k
  <2>7. work' \in Seq(GoodFrame(k))
    BY <2>1, <2>4, <2>5, <2>6
  <2>8. work' \in Seq(Frame)
    BY <2>7, SeqMonotonic DEF GoodFrame
  <2>9. work' \in Seq(GoodFrame(size[role]))'
    BY <2>7 DEF GoodFrame, k
  <2>10. TypeOK'
    BY <2>1, <2>2, <2>8 DEF TypeOK, IInv
  <2>11. EndpointsAllocated'
    <3>1. \A m \in Machine : \A t \in trans[m] :
             t.from \in Nat /\ t.to \in Nat /\ size[m] \in Nat /\ size'[m] \in Nat
      BY <2>2 DEF IInv, TypeOK, Transition
    <3>. QED  BY <2>2, <3>1 DEF EndpointsAllocated, IInv
  <2>12. \A r \in Role : \A l \in DOMAIN states[r] : states[r][l] < size'[r]
    <3>1. \A r \in Role : \A l \in DOMAIN states[r] :
             states[r][l] \in Ref /\ size[r] \in Nat /\ size'[r] \in Nat
                /\ size[r] <= size'[r] /\ states[r][l] < size[r]
      BY <2>2 DEF IInv, TypeOK, Machine
    <3>. QED  BY <3>1 DEF Ref, Nil
  <2>. QED  BY <2>1, <2>9, <2>10, <2>11, <2>12 DEF IInv
<1>. QED  BY <1>2, <1>3

\* nodeToMachine after the children of a communication.
LEMMA LinkCommIInv ==
    ASSUME IInv, LinkComm
    PROVE  IInv'
<1>1. /\ pc = "roles" /\ work # << >> /\ Top.do = "link"
      /\ UNCHANGED <<session, role, todo, deferred, chans, roles, size, states>>
  BY DEF LinkComm
<1>. USE TopFrame, <1>1
<1>2. CASE OnNil
  <2>1. pc' = "crashed" /\ UNCHANGED <<work, trans>>
    BY <1>2 DEF LinkComm
  <2>2. TypeOK' /\ EndpointsAllocated'
    BY <2>1 DEF IInv, TypeOK, EndpointsAllocated
  <2>3. work' \in Seq(GoodFrame(size[role]))'
    BY <2>1 DEF IInv, GoodFrame
  <2>. QED  BY <2>1, <2>2, <2>3 DEF IInv
<1>3. CASE ~OnNil
  <2>. DEFINE c == Comm(session, Top.node)
              e == Edge(Top.at, c.dir, c.peer, c.msg, Top.to)
  <2>1. /\ pc' = pc
        /\ trans' = [trans EXCEPT ![role] = @ \cup {e}]
        /\ work' = Tail(work)
    BY <1>3 DEF LinkComm
  <2>2. /\ Top.at < size[role] /\ Top.to < size[role]
        /\ session.kind[Top.node] \in CommKind
        /\ session.arg[Top.node] \in chans
    BY DEF GoodFrame
  <2>3. Top.at \in Nat /\ Top.to \in Ref
    BY <1>3 DEF OnNil, Ref
  <2>4. Top.to \in Nat
    BY <2>3 DEF GoodFrame, Ref, Nil
  <2>5. /\ e.from = Top.at /\ e.to = Top.to /\ e.peer = session.arg[Top.node]
        /\ e \in Transition
    <3>1. session.arg[Top.node] \in Machine
      BY <2>2 DEF IInv, TypeOK, IsSession, Machine
    <3>. QED  BY <2>3, <2>4, <3>1 DEF Edge, Comm, Event, Transition, Data, STOP
  <2>. HIDE DEF e
  <2>6. /\ trans' \in [Machine -> SUBSET Transition]
        /\ trans'[role] = trans[role] \cup {e}
        /\ \A m \in Machine \ {role} : trans'[m] = trans[m]
    BY <2>1, <2>5 DEF IInv, TypeOK
  <2>7. TypeOK'
    BY <2>1, <2>6 DEF IInv, TypeOK
  <2>8. EndpointsAllocated'
    BY <2>2, <2>5, <2>6 DEF IInv, EndpointsAllocated
  <2>9. work' \in Seq(GoodFrame(size[role]))'
    BY <2>1 DEF GoodFrame
  <2>10. \A r \in Role : \A t \in trans'[r] : t.peer \in chans
    BY <2>2, <2>5, <2>6 DEF IInv, Machine
  <2>11. \A x \in Chan : trans'[x] = trans[x]
    BY <2>6, NameAssumption DEF Machine
  <2>12. \A r \in todo : trans'[r] = {}
    BY <2>6 DEF IInv, TypeOK, IsSession, Machine
  <2>. QED  BY <2>1, <2>7, <2>8, <2>9, <2>10, <2>11, <2>12 DEF IInv
<1>. QED  BY <1>2, <1>3

\* The deferred chanToMachine builds over the roles that are left.
LEMMA ChanToMachineIInv ==
    ASSUME IInv, ChanToMachine
    PROVE  IInv'
<1>. DEFINE c == Head(deferred)
            N == Cardinality(roles)
<1>1. PICK mid \in Numbering(roles) :
         /\ pc = "relays" /\ deferred # << >> /\ deferred' = Tail(deferred)
         /\ trans' = [trans EXCEPT ![c] = RelayEdges(roles, mid)]
         /\ size' = [size EXCEPT ![c] = N + 2]
         /\ UNCHANGED <<session, pc, role, todo, work, chans, roles, states>>
  BY DEF ChanToMachine, Relayed
<1>2. /\ c \in Chan /\ c \in Machine /\ Tail(deferred) \in Seq(Chan)
      /\ c \notin Role /\ role = NoRole
  BY <1>1, HeadTailProperties, NameAssumption DEF IInv, TypeOK, Machine
<1>3. N \in Nat
  <2>1. roles \subseteq Role
    BY DEF IInv, TypeOK, IsSession
  <2>. QED  BY <2>1, RoleAssumption, FS_Subset, FS_CardinalityType
<1>4. \A t \in RelayEdges(roles, mid) :
         t \in Transition /\ t.from < N + 2 /\ t.to < N + 2 /\ t.peer \in roles
  <2>1. mid \in [roles -> 2..(N + 1)]
    BY DEF Numbering
  <2>2. roles \subseteq Machine
    BY DEF IInv, TypeOK, IsSession, Machine
  <2>. HIDE DEF N
  <2>3. ASSUME NEW r \in roles
        PROVE  mid[r] \in Nat /\ mid[r] < N + 2
    BY <1>3, <2>1
  <2>. QED  BY <1>3, <2>2, <2>3 DEF RelayEdges, Edge, Transition, Start, Final, Data, STOP
<1>5. /\ trans' \in [Machine -> SUBSET Transition]
      /\ size' \in [Machine -> Nat]
      /\ trans'[c] = RelayEdges(roles, mid) /\ size'[c] = N + 2
      /\ \A m \in Machine \ {c} : trans'[m] = trans[m] /\ size'[m] = size[m]
  BY <1>1, <1>2, <1>3, <1>4 DEF IInv, TypeOK
<1>. HIDE DEF c, N
<1>6. TypeOK'
  BY <1>1, <1>2, <1>5 DEF IInv, TypeOK
<1>7. EndpointsAllocated'
  BY <1>4, <1>5 DEF IInv, EndpointsAllocated
<1>8. \A r \in Role : trans'[r] = trans[r] /\ size'[r] = size[r]
  BY <1>2, <1>5 DEF Machine
<1>9. \A x \in Chan : \A t \in trans'[x] : t.peer \in roles
  BY <1>4, <1>5 DEF IInv, Machine
<1>10. \A r \in todo : r \in Role
  BY DEF IInv, TypeOK, IsSession
<1>. QED  BY <1>1, <1>2, <1>6, <1>7, <1>8, <1>9, <1>10 DEF IInv

\* A stutter keeps the invariant.
LEMMA StutterIInv ==
    ASSUME IInv, UNCHANGED vars
    PROVE  IInv'
<1>1. TypeOK' /\ EndpointsAllocated'
  BY DEF IInv, TypeOK, EndpointsAllocated, vars
<1>2. role # NoRole => work' \in Seq(GoodFrame(size[role]))'
  BY DEF IInv, GoodFrame, vars
<1>. QED  BY <1>1, <1>2 DEF IInv, vars

-----------------------------------------------------------------------------
(* The theorems.                                                           *)

\* IInv is an invariant of every translation of every session.
THEOREM Inductive == Spec => []IInv
<1>1. IInv /\ [Next]_vars => IInv'
  <2> SUFFICES ASSUME IInv, [Next]_vars PROVE IInv'
    OBVIOUS
  <2>1. CASE (\E c \in Chan : MakeChanMachine(c)) \/ ChansMade \/ RolesMade \/ Return
    BY <2>1, BookkeepingIInv
  <2>2. ASSUME NEW r \in Role, BeginRole(r) PROVE IInv'
    BY <2>2, BeginRoleIInv
  <2>3. CASE EndRole
    BY <2>3, EndRoleIInv
  <2>4. CASE VisitComm
    BY <2>4, VisitCommIInv
  <2>5. CASE LinkComm
    BY <2>5, LinkCommIInv
  <2>6. CASE VisitSkip \/ VisitGoto
    BY <2>6, SkipOrGotoIInv
  <2>7. CASE VisitLabel
    BY <2>7, VisitLabelIInv
  <2>8. CASE ChanToMachine
    BY <2>8, ChanToMachineIInv
  <2>9. CASE Terminated \/ UNCHANGED vars
    BY <2>9, StutterIInv DEF Terminated
  <2>. QED  BY <2>1, <2>2, <2>3, <2>4, <2>5, <2>6, <2>7, <2>8, <2>9 DEF Next
<1>. QED  BY InitIInv, <1>1, PTL DEF Spec

\* Type correctness of the generation of machines.
THEOREM TypeCorrect == Spec => []TypeOK
<1>1. IInv => TypeOK
  BY DEF IInv
<1>. QED  BY <1>1, Inductive, PTL

\* However the maps are iterated and whatever the session, each transition
\* joins two allocated states of its own machine.
THEOREM AllocatedEndpoints == Spec => []EndpointsAllocated
<1>1. IInv => EndpointsAllocated
  BY DEF IInv
<1>. QED  BY <1>1, Inductive, PTL

\* The finished system is closed: its machines name only machines that are
\* still in it, channels for a role and roles for a channel.
THEOREM ClosedSystem == Spec => []PeersInSystem
<1>1. IInv => PeersInSystem
  BY DEF IInv, PeersInSystem, TypeOK, IsSession
<1>. QED  BY <1>1, Inductive, PTL

-----------------------------------------------------------------------------
(* Every state of a role's machine hangs on an older one.                  *)

\* Replacing the top of a sequence keeps what is below it.
LEMMA BelowTop ==
    ASSUME NEW S, NEW w \in Seq(S), w # << >>, NEW s \in Seq(S),
           NEW i \in 1..Len(w), i # 1
    PROVE  \E j \in 1..Len(s \o Tail(w)) : (s \o Tail(w))[j] = w[i]
<1>1. /\ Tail(w) \in Seq(S) /\ Len(Tail(w)) = Len(w) - 1
      /\ \A j \in 1..Len(Tail(w)) : Tail(w)[j] = w[j+1]
  BY HeadTailProperties
<1>2. Len(w) \in Nat /\ Len(s) \in Nat /\ i - 1 \in 1..Len(Tail(w))
  BY <1>1, LenProperties
<1>3. /\ Len(s \o Tail(w)) = Len(s) + Len(Tail(w))
      /\ (s \o Tail(w))[Len(s) + (i - 1)] = Tail(w)[i - 1]
  BY <1>1, <1>2, ConcatProperties
<1>4. Len(s) + (i - 1) \in 1..Len(s \o Tail(w))
  BY <1>1, <1>2, <1>3
<1>. QED  BY <1>1, <1>2, <1>3, <1>4

\* State q of the role under construction is the target of a frame of w.
Pending(w, q) ==
    \E i \in 1..Len(w) : w[i].do = "link" /\ w[i].to = q /\ w[i].at < q

\* A step that replaces a visit at the top of the stack keeps Linked, if the
\* states it allocates are the targets of frames it pushes.
LEMMA VisitLinked ==
    ASSUME IInv, Linked, pc = "roles", work # << >>, Top.do = "visit",
           UNCHANGED <<role, roles, trans>>,
           NEW s \in Seq(Frame), work' = s \o Tail(work),
           NEW k \in Nat, size[role] <= k, size' = [size EXCEPT ![role] = k],
           \A q \in size[role]..(k - 1) : q > 0 => Pending(work', q)
    PROVE  Linked'
<1>. USE TopFrame DEF Pending
<1>1. work \in Seq(Frame) /\ size \in [Machine -> Nat]
  BY DEF IInv, TypeOK
<1>2. DOMAIN work = 1..Len(work) /\ DOMAIN work' = 1..Len(work')
  BY <1>1, ConcatProperties, LenProperties
<1>3. size'[role] = k /\ \A r \in Role \ {role} : size'[r] = size[r]
  BY <1>1 DEF Machine
<1>4. \A r \in roles : r \in Role
  BY DEF IInv, TypeOK, IsSession
<1>5. ASSUME NEW r \in roles, NEW q \in 1..(size'[r] - 1)
      PROVE  \/ \E t \in trans[r] : t.to = q /\ t.from < q
             \/ r = role /\ Pending(work', q)
  <2>1. CASE r # role
    BY <1>3, <1>4, <2>1 DEF Linked
  <2>2. CASE r = role /\ q \in 1..(size[role] - 1)
    <3>1. CASE \E t \in trans[r] : t.to = q /\ t.from < q
      BY <3>1
    <3>2. CASE \E i \in DOMAIN work : /\ work[i].do = "link"
                                      /\ work[i].to = q /\ work[i].at < q
      <4>1. PICK i \in 1..Len(work) : /\ work[i].do = "link"
                                      /\ work[i].to = q /\ work[i].at < q
        BY <3>2, <1>2
      <4>2. i # 1
        BY <4>1 DEF Top
      <4>3. PICK j \in 1..Len(work') : work'[j] = work[i]
        BY <1>1, <4>2, BelowTop
      <4>. QED  BY <2>2, <4>1, <4>3
    <3>. QED  BY <2>2, <3>1, <3>2 DEF Linked
  <2>3. CASE r = role /\ q \in size[role]..(k - 1)
    <3>1. q > 0
      BY <1>3, <1>5, <2>3
    <3>. QED  BY <2>3, <3>1
  <2>4. r = role => q \in 1..(k - 1) /\ size[role] \in Nat
    BY <1>3, TopFrame
  <2>5. r = role => q \in 1..(size[role] - 1) \/ q \in size[role]..(k - 1)
    BY <2>4
  <2>. QED  BY <2>1, <2>2, <2>3, <2>5
<1>. QED  BY <1>2, <1>5 DEF Linked

\* A communication that allocates a state.
LEMMA VisitCommLinked ==
    ASSUME IInv, Linked, VisitComm
    PROVE  Linked'
<1>. USE TopFrame
<1>. DEFINE n    == Top.node
            q    == Top.at
            back == session.kind[n] # "end" /\ IsSelfLoop(n, q)
            q1   == IF back THEN q ELSE size[role]
            kids == IF back THEN << >> ELSE VisitKids(n, q1)
            s    == kids \o <<Link(n, q, q1)>>
            k    == IF back THEN size[role] ELSE size[role] + 1
<1>1. /\ pc = "roles" /\ work # << >> /\ Top.do = "visit"
      /\ UNCHANGED <<role, roles, trans>>
  BY DEF VisitComm, Visiting
<1>. USE <1>1
<1>2. CASE UNCHANGED <<work, size>>
  BY <1>2 DEF Linked
<1>3. CASE ~UNCHANGED <<work, size>>
  <2>1. size' = NewState(back) /\ work' = s \o Tail(work)
    BY <1>3 DEF VisitComm
  <2>2. /\ size \in [Machine -> Nat] /\ k \in Nat /\ size[role] <= k
        /\ size' = [size EXCEPT ![role] = k]
    <3>1. size \in [Machine -> Nat] /\ size[role] \in Nat
      BY DEF IInv, TypeOK
    <3>. HIDE DEF back
    <3>2. CASE back
      BY <2>1, <3>1, <3>2 DEF NewState
    <3>3. CASE ~back
      BY <2>1, <3>1, <3>3 DEF NewState
    <3>. QED  BY <3>2, <3>3
  <2>3. q1 \in Ref /\ q < size[role] /\ q1 < size[role] + 1
    BY DEF GoodFrame, Ref, Nil
  <2>. HIDE DEF back, q1, q, n
  <2>4. kids \in Seq(Frame)
    <3>1. VisitKids(n, q1) \in Seq(GoodFrame(size[role] + 1))
      BY <2>3, VisitKidsGood DEF n
    <3>2. VisitKids(n, q1) \in Seq(Frame)
      BY <3>1, SeqMonotonic DEF GoodFrame
    <3>. QED  BY <3>2
  <2>5. Link(n, q, q1) \in Frame
    BY <2>3 DEF Link, Frame, n, q
  <2>. HIDE DEF kids
  <2>6. /\ s \in Seq(Frame) /\ Len(s) = Len(kids) + 1 /\ Len(kids) \in Nat
        /\ s[Len(s)] = Link(n, q, q1)
    BY <2>4, <2>5, ConcatProperties, LenProperties
  <2>. HIDE DEF s
  <2>7. /\ Len(s) \in 1..Len(work')
        /\ work'[Len(s)] = Link(n, q, q1)
    BY <2>1, <2>6, TopFrame, ConcatProperties, LenProperties
  <2>8. ASSUME NEW x \in size[role]..(k - 1)
        PROVE  Pending(work', x)
    <3>1. ~back /\ x = size[role] /\ x = q1
      BY <2>2, <2>8 DEF q1
    <3>. QED  BY <2>3, <2>7, <3>1 DEF Pending, Link
  <2>. HIDE DEF k
  <2>. QED  BY <2>1, <2>2, <2>6, <2>8, VisitLinked
<1>. QED  BY <1>2, <1>3

\* The nodes that are no communication.
LEMMA OtherVisitLinked ==
    ASSUME IInv, Linked, VisitSkip \/ VisitLabel \/ VisitGoto
    PROVE  Linked'
<1>. USE TopFrame
<1>1. /\ pc = "roles" /\ work # << >> /\ Top.do = "visit"
      /\ UNCHANGED <<role, roles, trans, size>>
  BY DEF VisitSkip, VisitLabel, VisitGoto, Visiting
<1>2. PICK q \in Ref : q < size[role] /\ work' = VisitKids(Top.node, q) \o Tail(work)
  <2>1. CASE VisitSkip \/ VisitLabel
    BY <1>1, <2>1 DEF VisitSkip, VisitLabel, GoodFrame
  <2>2. CASE VisitGoto
    <3>1. Target(session.arg[Top.node]) \in Ref /\ Target(session.arg[Top.node]) < size[role]
      BY <1>1 DEF Target, IInv, TypeOK, Ref, Nil
    <3>. QED  BY <2>2, <3>1 DEF VisitGoto
  <2>. QED  BY <2>1, <2>2
<1>3. VisitKids(Top.node, q) \in Seq(Frame)
  <2>1. VisitKids(Top.node, q) \in Seq(GoodFrame(size[role]))
    BY <1>1, <1>2, VisitKidsGood
  <2>. QED  BY <2>1, SeqMonotonic DEF GoodFrame
<1>4. size[role] \in Nat /\ size' = [size EXCEPT ![role] = size[role]]
  BY <1>1 DEF IInv, TypeOK
<1>5. size[role]..(size[role] - 1) = {}
  BY <1>4
<1>6. \A x \in size[role]..(size[role] - 1) : x > 0 => Pending(work', x)
  BY <1>5
<1>. DEFINE s == VisitKids(Top.node, q)
<1>7. s \in Seq(Frame) /\ work' = s \o Tail(work) /\ size[role] <= size[role]
  BY <1>2, <1>3, <1>4
<1>. HIDE DEF s
<1>8. UNCHANGED <<role, roles, trans>>
  BY <1>1
<1>. QED  BY <1>1, <1>4, <1>6, <1>7, <1>8, VisitLinked

\* The transition of a communication links the state it leads to.
LEMMA LinkCommLinked ==
    ASSUME IInv, Linked, LinkComm
    PROVE  Linked'
<1>. USE TopFrame
<1>1. /\ pc = "roles" /\ work # << >> /\ Top.do = "link"
      /\ UNCHANGED <<role, roles, size>>
  BY DEF LinkComm
<1>. USE <1>1
<1>2. CASE OnNil
  BY <1>2 DEF LinkComm, Linked
<1>3. CASE ~OnNil
  <2>. DEFINE c == Comm(session, Top.node)
              e == Edge(Top.at, c.dir, c.peer, c.msg, Top.to)
  <2>1. trans' = [trans EXCEPT ![role] = @ \cup {e}] /\ work' = << >> \o Tail(work)
    BY <1>3 DEF LinkComm
  <2>2. e.from = Top.at /\ e.to = Top.to
    BY DEF Edge
  <2>. HIDE DEF e
  <2>3. trans'[role] = trans[role] \cup {e} /\ \A m \in Machine \ {role} : trans'[m] = trans[m]
    BY <2>1 DEF IInv, TypeOK
  <2>4. /\ work \in Seq(Frame) /\ DOMAIN work = 1..Len(work)
        /\ DOMAIN work' = 1..Len(work')
    BY <2>1, LenProperties DEF IInv, TypeOK
  <2>5. ASSUME NEW r \in roles, NEW q \in 1..(size[r] - 1)
        PROVE  \/ \E t \in trans'[r] : t.to = q /\ t.from < q
               \/ r = role /\ Pending(work', q)
    <3>1. CASE \E t \in trans[r] : t.to = q /\ t.from < q
      BY <2>3, <3>1 DEF IInv, TypeOK, IsSession, Machine
    <3>2. CASE r = role /\ \E i \in DOMAIN work : /\ work[i].do = "link"
                                                  /\ work[i].to = q /\ work[i].at < q
      <4>1. PICK i \in 1..Len(work) : /\ work[i].do = "link"
                                      /\ work[i].to = q /\ work[i].at < q
        BY <3>2, <2>4
      <4>2. CASE i = 1
        BY <2>2, <2>3, <3>2, <4>1, <4>2 DEF Top
      <4>3. CASE i # 1
        <5>. DEFINE s == << >>
        <5>1. s \in Seq(Frame) /\ work' = s \o Tail(work)
          BY <2>1, EmptySeq
        <5>. HIDE DEF s
        <5>2. \E j \in 1..Len(s \o Tail(work)) : (s \o Tail(work))[j] = work[i]
          <6>1. /\ work \in Seq(Frame) /\ work # << >> /\ s \in Seq(Frame)
                /\ i \in 1..Len(work) /\ i # 1
            BY ONLY <1>1, <2>4, <4>1, <4>3, <5>1
          <6>. QED  BY ONLY <6>1, BelowTop
        <5>3. PICK j \in 1..Len(work') : work'[j] = work[i]
          BY ONLY <5>1, <5>2
        <5>. QED  BY <3>2, <4>1, <5>3 DEF Pending
      <4>. QED  BY <4>2, <4>3
    <3>. QED  BY <3>1, <3>2 DEF Linked
  <2>. QED  BY <2>4, <2>5 DEF Linked, Pending
<1>. QED  BY <1>2, <1>3

\* The steps that are not in the walk of a tree.
LEMMA OutsideWalkLinked ==
    ASSUME IInv, Linked,
           \/ \E c \in Chan : MakeChanMachine(c)
           \/ \E r \in Role : BeginRole(r)
           \/ ChansMade \/ RolesMade \/ Return \/ EndRole \/ ChanToMachine
    PROVE  Linked'
<1>1. \A r \in roles : r \in Role /\ r \in Machine
  BY DEF IInv, TypeOK, IsSession, Machine
<1>2. CASE \/ \E c \in Chan : MakeChanMachine(c)
           \/ ChansMade \/ RolesMade \/ Return
  BY <1>2 DEF MakeChanMachine, ChansMade, RolesMade, Return, Linked
<1>3. ASSUME NEW r \in Role, BeginRole(r) PROVE Linked'
  <2>1. DOMAIN work = {} /\ size \in [Machine -> Nat] /\ r \in Machine
    BY <1>3 DEF BeginRole, IInv, TypeOK, Machine
  <2>2. size'[r] = 1 /\ \A x \in roles \ {r} : size'[x] = size[x]
    BY <1>1, <1>3, <2>1 DEF BeginRole
  <2>3. ASSUME NEW x \in roles', NEW q \in 1..(size'[x] - 1)
        PROVE  \E t \in trans'[x] : t.to = q /\ t.from < q
    BY <1>3, <2>1, <2>2, <2>3 DEF BeginRole, Linked
  <2>. QED  BY <2>3 DEF Linked
<1>4. CASE EndRole
  <2>1. DOMAIN work = {} /\ roles' \subseteq roles /\ UNCHANGED <<size, trans>>
    BY <1>4 DEF EndRole
  <2>. QED  BY <2>1 DEF Linked
<1>5. CASE ChanToMachine
  <2>1. Head(deferred) \in Chan
    BY <1>5, HeadTailProperties DEF ChanToMachine, IInv, TypeOK
  <2>2. \A r \in roles : trans'[r] = trans[r] /\ size'[r] = size[r]
    <3>1. PICK c \in Chan :
             \E T, k : trans' = [trans EXCEPT ![c] = T] /\ size' = [size EXCEPT ![c] = k]
      BY <1>5, <2>1 DEF ChanToMachine
    <3>. QED  BY <1>1, <3>1, NameAssumption DEF IInv, TypeOK
  <2>3. UNCHANGED <<role, roles, work>>
    BY <1>5 DEF ChanToMachine
  <2>. QED  BY <2>2, <2>3 DEF Linked
<1>. QED  BY <1>2, <1>3, <1>4, <1>5

\* Every state but the start of a role's machine has a transition from an
\* older state, once the frames that owe one are done: no state of the
\* generated machines is unreachable.
THEOREM NoOrphanState == Spec => []Linked
<1>1. Init => Linked
  BY DEF Init, Linked
<1>2. IInv /\ Linked /\ [Next]_vars => Linked'
  <2> SUFFICES ASSUME IInv, Linked, [Next]_vars PROVE Linked'
    OBVIOUS
  <2>1. CASE VisitComm
    BY <2>1, VisitCommLinked
  <2>2. CASE VisitSkip \/ VisitLabel \/ VisitGoto
    BY <2>2, OtherVisitLinked
  <2>3. CASE LinkComm
    BY <2>3, LinkCommLinked
  <2>4. CASE \/ \E c \in Chan : MakeChanMachine(c)
             \/ \E r \in Role : BeginRole(r)
             \/ ChansMade \/ RolesMade \/ Return \/ EndRole \/ ChanToMachine
    BY <2>4, OutsideWalkLinked
  <2>5. CASE Terminated \/ UNCHANGED vars
    BY <2>5 DEF Terminated, vars, Linked
  <2>. QED  BY <2>1, <2>2, <2>3, <2>4, <2>5 DEF Next
<1>. QED  BY <1>1, <1>2, Inductive, PTL DEF Spec

-----------------------------------------------------------------------------
(* Channels relay what roles send.                                         *)

\* A new channel waits in front of the others.
LEMMA MakeChanMachineRelaying ==
    ASSUME IInv, Relaying, NEW c \in Chan, MakeChanMachine(c)
    PROVE  Relaying'
<1>1. /\ pc = "chans" /\ pc' = "chans" /\ chans' = chans \cup {c}
      /\ deferred' = <<c>> \o deferred /\ deferred \in Seq(Chan)
  BY DEF MakeChanMachine, IInv, TypeOK
<1>2. /\ DOMAIN deferred' = 1..(Len(deferred) + 1) /\ Len(deferred) \in Nat
      /\ DOMAIN deferred = 1..Len(deferred)
      /\ deferred'[1] = c
      /\ \A i \in 1..Len(deferred) : deferred'[i + 1] = deferred[i]
  BY <1>1
<1>3. ASSUME NEW x \in chans' PROVE \E i \in DOMAIN deferred' : deferred'[i] = x
  <2>1. CASE x = c
    BY <1>2, <2>1
  <2>2. CASE x \in chans
    <3>1. PICK i \in DOMAIN deferred : deferred[i] = x
      BY <1>1, <2>2 DEF Relaying
    <3>2. i + 1 \in DOMAIN deferred' /\ deferred'[i + 1] = x
      BY <1>2, <3>1
    <3>. QED  BY <3>2
  <2>. QED  BY <1>1, <2>1, <2>2
<1>. QED  BY <1>1, <1>3 DEF Relaying

\* The channel in front relays, the others wait on.
LEMMA ChanToMachineRelaying ==
    ASSUME IInv, Relaying, ChanToMachine
    PROVE  Relaying'
<1>. DEFINE c == Head(deferred)
<1>1. PICK mid \in Numbering(roles) :
         /\ pc = "relays" /\ pc' = pc /\ deferred # << >> /\ deferred' = Tail(deferred)
         /\ trans' = [trans EXCEPT ![c] = RelayEdges(roles, mid)]
         /\ UNCHANGED <<chans, roles>>
  BY DEF ChanToMachine, Relayed
<1>2. /\ deferred \in Seq(Chan) /\ c \in Chan /\ chans \subseteq Chan
      /\ trans \in [Machine -> SUBSET Transition] /\ Chan \subseteq Machine
  BY <1>1, HeadTailProperties DEF IInv, TypeOK, IsSession, Machine
<1>3. trans'[c] = RelayEdges(roles, mid) /\ \A x \in Chan \ {c} : trans'[x] = trans[x]
  BY <1>1, <1>2
<1>4. ASSUME NEW x \in chans, x # c, NEW i \in DOMAIN deferred, deferred[i] = x
      PROVE  \E j \in DOMAIN deferred' : deferred'[j] = x
  <2>1. /\ i \in 1..Len(deferred) /\ i # 1 /\ Len(deferred) \in Nat
        /\ Len(deferred') = Len(deferred) - 1 /\ DOMAIN deferred' = 1..Len(deferred')
        /\ \A j \in 1..Len(deferred') : deferred'[j] = deferred[j + 1]
    BY <1>1, <1>2, <1>4, HeadTailProperties
  <2>2. i - 1 \in DOMAIN deferred' /\ deferred'[i - 1] = x
    BY <1>4, <2>1
  <2>. QED  BY <2>2
<1>. HIDE DEF c
<1>. QED  BY <1>1, <1>2, <1>3, <1>4 DEF Relaying

\* A channel keeps waiting, or keeps its machine.
LEMMA NextRelaying ==
    ASSUME IInv, Relaying, [Next]_vars
    PROVE  Relaying'
<1>1. CASE \E c \in Chan : MakeChanMachine(c)
  BY <1>1, MakeChanMachineRelaying
<1>2. CASE ChanToMachine
  BY <1>2, ChanToMachineRelaying
<1>3. CASE \/ ChansMade \/ (\E r \in Role : BeginRole(r)) \/ EndRole \/ VisitComm
           \/ LinkComm \/ VisitSkip \/ VisitLabel \/ VisitGoto \/ RolesMade
  <2>1. pc \in {"chans", "roles"} /\ pc' # "done" /\ UNCHANGED <<chans, deferred>>
    BY <1>3 DEF ChansMade, BeginRole, EndRole, VisitComm, LinkComm, VisitSkip,
                VisitLabel, VisitGoto, RolesMade, Visiting
  <2>. QED  BY <2>1 DEF Relaying
<1>4. CASE Return
  BY <1>4 DEF Return, Relaying
<1>5. CASE Terminated \/ UNCHANGED vars
  BY <1>5 DEF Terminated, vars, Relaying
<1>. QED  BY <1>1, <1>2, <1>3, <1>4, <1>5 DEF Next

\* What a role sends on a channel, its machine takes in the start state and
\* hands to any other role.
THEOREM DataRelayed == Spec => []DataIsRelayed
<1>1. Init => Relaying
  BY DEF Init, Relaying
<1>2. IInv /\ Relaying /\ [Next]_vars => Relaying'
  BY NextRelaying
<1>3. IInv /\ Relaying => DataIsRelayed
  <2> SUFFICES ASSUME IInv, Relaying, pc = "done", NEW r \in roles,
                      NEW t \in trans[r], NEW r2 \in roles \ {r}
               PROVE  \E in, out \in trans[t.peer] :
                         /\ in = Edge(Start, "?", r, Data, in.to)
                         /\ out = Edge(in.to, "!", r2, Data, Start)
    BY DEF DataIsRelayed
  <2>1. t.peer \in chans /\ deferred = << >>
    BY DEF IInv, TypeOK, IsSession, Relaying
  <2>2. PICK mid \in Numbering(roles) : trans[t.peer] = RelayEdges(roles, mid)
    BY <2>1 DEF Relaying
  <2>. DEFINE in  == Edge(Start, "?", r, Data, mid[r])
              out == Edge(mid[r], "!", r2, Data, Start)
  <2>3. in \in trans[t.peer]
    BY <2>2 DEF RelayEdges
  <2>4. out \in trans[t.peer]
    <3>1. /\ <<r, r2>> \in {x \in roles \X roles : x[1] # x[2]}
          /\ <<r, r2>>[1] = r /\ <<r, r2>>[2] = r2
      OBVIOUS
    <3>2. out \in {Edge(mid[x[1]], "!", x[2], Data, Start) :
                     x \in {y \in roles \X roles : y[1] # y[2]}}
      BY <3>1
    <3>. HIDE DEF out
    <3>. QED  BY <2>2, <3>2 DEF RelayEdges
  <2>5. in.to = mid[r]
    BY DEF Edge
  <2>. QED  BY <2>3, <2>4, <2>5
<1>. QED  BY <1>1, <1>2, <1>3, Inductive, PTL DEF Spec

-----------------------------------------------------------------------------
(* The nodes below a node.                                                 *)

\* They are nodes of the session, with their children among them.
LEMMA BelowIs ==
    ASSUME NEW s, IsSession(s), NEW n \in Node
    PROVE  /\ Below(s, n) \subseteq Node /\ n \in Below(s, n)
           /\ \A m \in Below(s, n) : KidsOf(s, m) \subseteq Below(s, n)
<1>. DEFINE step == [m \in DOMAIN s.kind |-> KidsOf(s, m)]
<1>1. DOMAIN s.kind = Node
  BY DEF IsSession
<1>2. \A m \in Node : KidsOf(s, m) \in SUBSET Node
  BY ElementOfSeq DEF IsSession, KidsOf
<1>3. step \in [Node -> SUBSET Node] /\ {n} \in SUBSET Node
  BY <1>1, <1>2
<1>. HIDE DEF step
<1>4. /\ Closure(step, {n}) \subseteq Node /\ {n} \subseteq Closure(step, {n})
      /\ \A m \in Closure(step, {n}) : step[m] \subseteq Closure(step, {n})
  BY <1>3, NodeAssumption, ClosureClosed
<1>5. \A m \in Node : step[m] = KidsOf(s, m)
  BY <1>1 DEF step
<1>. QED  BY <1>4, <1>5 DEF Below, step

\* Nodes that hold a node and the children of each of them hold all below it.
LEMMA BelowWithin ==
    ASSUME NEW s, IsSession(s), NEW n \in Node, NEW S,
           n \in S, \A m \in S \cap Node : KidsOf(s, m) \subseteq S
    PROVE  Below(s, n) \subseteq S
<1>. DEFINE step == [m \in DOMAIN s.kind |-> KidsOf(s, m)]
<1>1. DOMAIN s.kind = Node
  BY DEF IsSession
<1>2. \A m \in Node : KidsOf(s, m) \in SUBSET Node
  BY ElementOfSeq DEF IsSession, KidsOf
<1>3. step \in [Node -> SUBSET Node] /\ {n} \in SUBSET Node /\ {n} \subseteq S
  BY <1>1, <1>2
<1>4. \A m \in S \cap Node : step[m] \subseteq S
  BY <1>1
<1>. HIDE DEF step
<1>. QED  BY <1>3, <1>4, NodeAssumption, ClosureWithin DEF Below, step

-----------------------------------------------------------------------------
(* Only roles that never communicate are removed.                          *)

\* The frames a visit leaves: calls on the children of the node, and the rest.
LEMMA FramesAfterVisit ==
    ASSUME IInv, pc = "roles", work # << >>, NEW q \in Ref, q < size[role],
           work' = VisitKids(Top.node, q) \o Tail(work)
    PROVE  /\ \A i \in DOMAIN work : work[i] = Top \/ \E j \in DOMAIN work' : work'[j] = work[i]
           /\ \A n \in KidsOf(session, Top.node) : \E j \in DOMAIN work' : work'[j].node = n
<1>. USE TopFrame
<1>. DEFINE kids == session.kids[Top.node]
            s == VisitKids(Top.node, q)
<1>1. kids \in Seq(Node) /\ Len(kids) \in Nat
  BY DEF IInv, TypeOK, IsSession
<1>2. s \in Seq(GoodFrame(size[role])) /\ Tail(work) \in Seq(GoodFrame(size[role]))
  BY VisitKidsGood
<1>3. Len(s) = Len(kids) /\ \A i \in 1..Len(kids) : s[i] = Visit(kids[i], q)
  BY <1>1 DEF VisitKids
<1>4. work \in Seq(GoodFrame(size[role])) /\ DOMAIN work = 1..Len(work)
  BY LenProperties DEF IInv
<1>. HIDE DEF s
<1>5. /\ DOMAIN work' = 1..Len(work')
      /\ Len(work') = Len(s) + Len(Tail(work))
      /\ Len(Tail(work)) \in Nat /\ Len(s) \in Nat
      /\ \A i \in 1..Len(s) : work'[i] = s[i]
  BY <1>2, ConcatProperties, LenProperties DEF s
<1>6. ASSUME NEW i \in DOMAIN work PROVE work[i] = Top \/ \E j \in DOMAIN work' : work'[j] = work[i]
  <2>1. CASE i = 1
    BY <2>1 DEF Top
  <2>2. CASE i # 1
    <3>1. work' = s \o Tail(work)
      BY DEF s
    <3>2. i \in 1..Len(work) /\ work # << >>
      BY <1>4
    <3>3. \E j \in 1..Len(s \o Tail(work)) : (s \o Tail(work))[j] = work[i]
      BY ONLY <1>2, <1>4, <2>2, <3>2, BelowTop
    <3>. QED  BY <1>5, <3>1, <3>3
  <2>. QED  BY <2>1, <2>2
<1>7. ASSUME NEW n \in KidsOf(session, Top.node) PROVE \E j \in DOMAIN work' : work'[j].node = n
  <2>1. PICK i \in 1..Len(kids) : kids[i] = n
    BY DEF KidsOf
  <2>2. i \in DOMAIN work'
    BY <1>1, <1>3, <1>5, <2>1
  <2>3. work'[i] = Visit(n, q)
    BY <1>1, <1>3, <1>5, <2>1
  <2>. QED  BY <2>2, <2>3 DEF Visit
<1>. QED  BY <1>6, <1>7

\* Silence speaks of pc, session, role, roles, todo, work and trans only.
LEMMA SilenceKept ==
    ASSUME Silence, UNCHANGED <<session, role, roles, todo, work>>,
           role # NoRole => UNCHANGED trans,
           pc' \in {"relays", "done"} => todo = {}
    PROVE  Silence'
<1>. DEFINE W == {work[i].node : i \in DOMAIN work}
<1>1. W' = W
  OBVIOUS
<1>2. ASSUME NEW r, NEW V, NEW S PROVE Walked(r, S, V)' <=> Walked(r, S, V)
  BY DEF Walked
<1>3. \A r \in DOMAIN session.root \ (roles \cup todo) :
         \E S \in SUBSET Node : Walked(r, S, {})'
  BY <1>2 DEF Silence
<1>4. ASSUME role # NoRole, trans[role] = {}, \A i \in DOMAIN work : work[i].do = "visit"
      PROVE  \E S \in SUBSET Node : Walked(role, S, W)'
  <2>1. PICK S \in SUBSET Node : Walked(role, S, W)
    BY <1>4 DEF Silence
  <2>. HIDE DEF W
  <2>2. Walked(role, S, W)'
    BY <1>1, <2>1 DEF Walked
  <2>. QED  BY <2>2
<1>. QED  BY <1>3, <1>4 DEF Silence

\* A visit of a node that is no communication moves it to the nodes walked.
LEMMA OtherVisitSilence ==
    ASSUME IInv, Silence, VisitSkip \/ VisitLabel \/ VisitGoto
    PROVE  Silence'
<1>. USE TopFrame
<1>1. /\ pc = "roles" /\ pc' = pc /\ work # << >> /\ Top.do = "visit"
      /\ session.kind[Top.node] \in Kind \ CommKind
      /\ UNCHANGED <<session, role, roles, todo, trans>>
  BY DEF VisitSkip, VisitLabel, VisitGoto, Visiting, Kind, CommKind
<1>2. PICK q \in Ref : q < size[role] /\ work' = VisitKids(Top.node, q) \o Tail(work)
  <2>1. CASE VisitSkip \/ VisitLabel
    BY <1>1, <2>1 DEF VisitSkip, VisitLabel, GoodFrame
  <2>2. CASE VisitGoto
    <3>1. Target(session.arg[Top.node]) \in Ref /\ Target(session.arg[Top.node]) < size[role]
      BY <1>1 DEF Target, IInv, TypeOK, Ref, Nil
    <3>. QED  BY <2>2, <3>1 DEF VisitGoto
  <2>. QED  BY <2>1, <2>2
<1>3. /\ \A i \in DOMAIN work : work[i] = Top \/ \E j \in DOMAIN work' : work'[j] = work[i]
      /\ \A n \in KidsOf(session, Top.node) : \E j \in DOMAIN work' : work'[j].node = n
  BY <1>1, <1>2, FramesAfterVisit
<1>. DEFINE W == {work[i].node : i \in DOMAIN work}
<1>4. ASSUME trans'[role] = {}, \A i \in DOMAIN work' : work'[i].do = "visit"
      PROVE  \E S \in SUBSET Node : Walked(role, S, W)'
  <2>1. \A i \in DOMAIN work : work[i].do = "visit"
    BY <1>1, <1>3, <1>4
  <2>2. PICK S \in SUBSET Node : Walked(role, S, W)
    BY <1>1, <1>4, <2>1 DEF Silence
  <2>3. W \subseteq {Top.node} \cup W' /\ KidsOf(session, Top.node) \subseteq W'
    BY <1>3
  <2>. HIDE DEF W
  <2>4. PICK m \in Node : m = Top.node
    BY <1>1
  <2>5. (S \cup {m}) \in SUBSET Node
    OBVIOUS
  <2>6. Walked(role, S \cup {m}, W)'
    BY <1>1, <2>2, <2>3, <2>4 DEF Walked
  <2>. QED  BY <2>5, <2>6
<1>5. \A r \in DOMAIN session.root \ (roles \cup todo) :
         \E S \in SUBSET Node : Walked(r, S, {})'
  BY <1>1 DEF Silence, Walked
<1>. QED  BY <1>1, <1>4, <1>5 DEF Silence

\* A communication leaves a link on the stack, so nothing is promised.
LEMMA VisitCommSilence ==
    ASSUME IInv, Silence, VisitComm
    PROVE  Silence'
<1>. USE TopFrame
<1>1. /\ pc = "roles" /\ pc' \in {"roles", "crashed"} /\ work # << >>
      /\ Top.do = "visit" /\ session.kind[Top.node] \in CommKind
      /\ UNCHANGED <<session, role, roles, todo, trans>>
  BY DEF VisitComm, Visiting
<1>2. \A r \in DOMAIN session.root \ (roles \cup todo) :
         \E S \in SUBSET Node : Walked(r, S, {})'
  BY <1>1 DEF Silence, Walked
<1>. USE <1>1
<1>3. CASE UNCHANGED work
  BY <1>3, SilenceKept
<1>4. CASE ~UNCHANGED work
  <2>. DEFINE n    == Top.node
              q    == Top.at
              back == session.kind[n] # "end" /\ IsSelfLoop(n, q)
              q1   == IF back THEN q ELSE size[role]
              kids == IF back THEN << >> ELSE VisitKids(n, q1)
  <2>1. work' = kids \o <<Link(n, q, q1)>> \o Tail(work)
    BY <1>4 DEF VisitComm
  <2>2. q1 \in Ref /\ q < size[role] + 1 /\ q1 < size[role] + 1
    BY DEF GoodFrame, Ref, Nil
  <2>. HIDE DEF back, q1, q, n
  <2>3. kids \in Seq(Frame)
    <3>1. VisitKids(n, q1) \in Seq(GoodFrame(size[role] + 1))
      BY <2>2, VisitKidsGood DEF n
    <3>. QED  BY <3>1, SeqMonotonic DEF GoodFrame
  <2>4. Link(n, q, q1) \in Frame /\ Tail(work) \in Seq(Frame)
    BY <2>2 DEF Link, Frame, n, q
  <2>. HIDE DEF kids
  <2>5. /\ Len(kids) + 1 \in DOMAIN work'
        /\ work'[Len(kids) + 1] = Link(n, q, q1)
    BY <2>1, <2>3, <2>4
  <2>6. Link(n, q, q1).do # "visit"
    BY DEF Link
  <2>. QED  BY <1>1, <1>2, <2>5, <2>6 DEF Silence
<1>. QED  BY <1>3, <1>4

\* A link gives the machine a transition, so nothing is promised.
LEMMA LinkCommSilence ==
    ASSUME IInv, Silence, LinkComm
    PROVE  Silence'
<1>. USE TopFrame
<1>1. /\ pc = "roles" /\ pc' \in {"roles", "crashed"} /\ work # << >>
      /\ Top.do = "link"
      /\ UNCHANGED <<session, role, roles, todo>>
  BY DEF LinkComm
<1>2. \A r \in DOMAIN session.root \ (roles \cup todo) :
         \E S \in SUBSET Node : Walked(r, S, {})'
  BY <1>1 DEF Silence, Walked
<1>3. CASE OnNil
  BY <1>1, <1>3, SilenceKept DEF LinkComm
<1>4. CASE ~OnNil
  <2>. DEFINE c == Comm(session, Top.node)
              e == Edge(Top.at, c.dir, c.peer, c.msg, Top.to)
  <2>0. trans' = [trans EXCEPT ![role] = @ \cup {e}]
    BY <1>4 DEF LinkComm
  <2>. HIDE DEF e
  <2>1. e \in trans'[role]
    BY <1>1, <2>0 DEF IInv, TypeOK
  <2>. QED  BY <1>1, <1>2, <2>1 DEF Silence
<1>. QED  BY <1>3, <1>4

\* The first frame visits the root.
LEMMA BeginRoleSilence ==
    ASSUME IInv, Silence, NEW r \in Role, BeginRole(r)
    PROVE  Silence'
<1>1. /\ pc = "roles" /\ pc' = pc /\ role' = r /\ roles' = roles \cup {r}
      /\ todo' = todo \ {r} /\ session' = session
      /\ work' = <<Visit(session.root[r], Start)>>
  BY DEF BeginRole
<1>2. DOMAIN work' = {1} /\ work'[1].node = session.root[r]
  BY <1>1 DEF Visit
<1>3. Walked(r, {}, {work[i].node : i \in DOMAIN work})'
  BY <1>1, <1>2 DEF Walked
<1>4. \A x \in DOMAIN session.root \ (roles' \cup todo') :
         \E S \in SUBSET Node : Walked(x, S, {})'
  BY <1>1 DEF Silence, Walked
<1>5. {} \in SUBSET Node
  OBVIOUS
<1>. QED  BY <1>1, <1>3, <1>4, <1>5 DEF Silence

\* A role that is removed has no transition and nothing left to walk.
LEMMA EndRoleSilence ==
    ASSUME IInv, Silence, EndRole
    PROVE  Silence'
<1>1. /\ pc = "roles" /\ pc' = pc /\ role # NoRole /\ role' = NoRole /\ work = << >>
      /\ UNCHANGED <<session, todo>>
      /\ \/ roles' = roles
         \/ roles' = roles \ {role} /\ trans[role] = {}
  BY DEF EndRole, IsEmpty
<1>2. DOMAIN work = {}
  BY <1>1
<1>3. {work[i].node : i \in DOMAIN work} = {}
  BY <1>2
<1>4. trans[role] = {} => \E S \in SUBSET Node : Walked(role, S, {})
  BY <1>1, <1>2, <1>3 DEF Silence
<1>5. \A r \in DOMAIN session.root \ (roles' \cup todo) :
         \E S \in SUBSET Node : Walked(r, S, {})
  BY <1>1, <1>4 DEF Silence
<1>. QED  BY <1>1, <1>5 DEF Silence, Walked

\* Every step keeps Silence.
LEMMA NextSilence ==
    ASSUME IInv, Silence, [Next]_vars
    PROVE  Silence'
<1>1. CASE VisitSkip \/ VisitLabel \/ VisitGoto
  BY <1>1, OtherVisitSilence
<1>2. CASE VisitComm
  BY <1>2, VisitCommSilence
<1>3. CASE LinkComm
  BY <1>3, LinkCommSilence
<1>4. CASE \E r \in Role : BeginRole(r)
  BY <1>4, BeginRoleSilence
<1>5. CASE EndRole
  BY <1>5, EndRoleSilence
<1>6. CASE \/ (\E c \in Chan : MakeChanMachine(c)) \/ ChansMade \/ RolesMade
           \/ ChanToMachine \/ Return
  <2>1. /\ UNCHANGED <<session, role, roles, todo, work>> /\ role = NoRole
        /\ pc' \in {"relays", "done"} => todo = {}
    BY <1>6 DEF MakeChanMachine, ChansMade, RolesMade, ChanToMachine, Return, IInv, Silence
  <2>. QED  BY <2>1 DEF Silence, Walked
<1>7. CASE Terminated \/ UNCHANGED vars
  BY <1>7, SilenceKept DEF Terminated, vars, Silence
<1>. QED  BY <1>1, <1>2, <1>3, <1>4, <1>5, <1>6, <1>7 DEF Next

\* A role that is left out of the system has no communication in its tree,
\* to whatever depth.
THEOREM OnlySilentRemoved == Spec => []OnlySilentRolesRemoved
<1>1. Init => Silence
  BY DEF Init, Silence
<1>2. IInv /\ Silence /\ [Next]_vars => Silence'
  BY NextSilence
<1>3. IInv /\ Silence => OnlySilentRolesRemoved
  <2> SUFFICES ASSUME IInv, Silence, pc = "done", NEW r \in DOMAIN session.root \ roles
               PROVE  \A n \in TreeOf(session, r) : session.kind[n] \notin CommKind
    BY DEF OnlySilentRolesRemoved
  <2>1. todo = {}
    BY DEF Silence
  <2>2. PICK S \in SUBSET Node : Walked(r, S, {})
    BY <2>1 DEF Silence
  <2>3. IsSession(session) /\ session.root[r] \in Node
    BY DEF IInv, TypeOK, IsSession
  <2>4. session.root[r] \in S /\ \A n \in S : KidsOf(session, n) \subseteq S
    BY <2>2 DEF Walked
  <2>5. TreeOf(session, r) \subseteq S
    BY <2>3, <2>4, BelowWithin DEF TreeOf
  <2>. QED  BY <2>2, <2>5 DEF Walked
<1>. QED  BY <1>1, <1>2, <1>3, Inductive, PTL DEF Spec

-----------------------------------------------------------------------------
(* The tree of a role, and what is reached in it.                          *)

\* The tree of a role is finite, holds its root and is closed.
LEMMA TreeIs ==
    ASSUME NEW s, IsSession(s), NEW r \in DOMAIN s.root
    PROVE  /\ TreeOf(s, r) \subseteq Node /\ s.root[r] \in TreeOf(s, r)
           /\ \A n \in TreeOf(s, r) : KidsOf(s, n) \subseteq TreeOf(s, r)
           /\ IsFiniteSet(TreeOf(s, r))
<1>1. s.root[r] \in Node
  BY DEF IsSession
<1>2. /\ TreeOf(s, r) \subseteq Node /\ s.root[r] \in TreeOf(s, r)
      /\ \A n \in TreeOf(s, r) : KidsOf(s, n) \subseteq TreeOf(s, r)
  BY <1>1, BelowIs DEF TreeOf
<1>. QED  BY <1>2, NodeAssumption, FS_Subset

\* The nodes at one state hold their start and what they lead to.
LEMMA RegionIs ==
    ASSUME NEW s, IsSession(s), NEW r \in DOMAIN s.root, NEW P \in SUBSET TreeOf(s, r)
    PROVE  /\ Region(s, r, P) \subseteq TreeOf(s, r) /\ P \subseteq Region(s, r, P)
           /\ \A n \in Region(s, r, P) : KidsAt(s, r, n) \subseteq Region(s, r, P)
<1>. DEFINE T == TreeOf(s, r)
            step == [n \in T |-> KidsAt(s, r, n)]
<1>1. IsFiniteSet(T) /\ \A n \in T : KidsOf(s, n) \subseteq T
  BY TreeIs
<1>2. \A n \in T : KidsAt(s, r, n) \subseteq T
  BY <1>1 DEF KidsAt, SameLabel
<1>. HIDE DEF T
<1>3. step \in [T -> SUBSET T]
  BY <1>2
<1>4. P \in SUBSET T
  BY DEF T
<1>. HIDE DEF step
<1>5. /\ Closure(step, P) \subseteq T /\ P \subseteq Closure(step, P)
      /\ \A n \in Closure(step, P) : step[n] \subseteq Closure(step, P)
  BY <1>1, <1>3, <1>4, ClosureClosed
<1>6. Region(s, r, P) = Closure(step, P)
  BY DEF Region, step, T
<1>7. \A n \in T : step[n] = KidsAt(s, r, n)
  BY DEF step
<1>. QED  BY <1>5, <1>6, <1>7 DEF T

\* Any set that holds the start and what it leads to holds them.
LEMMA RegionWithin ==
    ASSUME NEW s, IsSession(s), NEW r \in DOMAIN s.root, NEW P \in SUBSET TreeOf(s, r),
           NEW S, P \subseteq S, \A n \in S \cap TreeOf(s, r) : KidsAt(s, r, n) \subseteq S
    PROVE  Region(s, r, P) \subseteq S
<1>. DEFINE T == TreeOf(s, r)
            step == [n \in T |-> KidsAt(s, r, n)]
<1>1. IsFiniteSet(T) /\ \A n \in T : KidsOf(s, n) \subseteq T
  BY TreeIs
<1>2. \A n \in T : KidsAt(s, r, n) \subseteq T
  BY <1>1 DEF KidsAt, SameLabel
<1>. HIDE DEF T
<1>3. step \in [T -> SUBSET T]
  BY <1>2
<1>4. P \in SUBSET T
  BY DEF T
<1>5. \A n \in S \cap T : step[n] \subseteq S
  BY DEF T
<1>. HIDE DEF step
<1>. QED  BY <1>1, <1>3, <1>4, <1>5, ClosureWithin DEF Region, step, T

\* So do the points a role is at.
LEMMA FromIs ==
    ASSUME NEW s, IsSession(s), NEW r \in DOMAIN s.root, NEW P \in SUBSET TreeOf(s, r)
    PROVE  /\ From(s, r, P) \subseteq TreeOf(s, r) /\ P \subseteq From(s, r, P)
           /\ \A n \in From(s, r, P) : SilentStep(s, TreeOf(s, r), n) \subseteq From(s, r, P)
<1>. DEFINE T == TreeOf(s, r)
            step == [n \in T |-> SilentStep(s, T, n)]
<1>1. IsFiniteSet(T) /\ \A n \in T : KidsOf(s, n) \subseteq T
  BY TreeIs
<1>. HIDE DEF T
<1>2. \A n \in T : SilentStep(s, T, n) \subseteq T
  BY <1>1 DEF SilentStep, SameLabel
<1>3. step \in [T -> SUBSET T]
  BY <1>2
<1>4. P \in SUBSET T
  BY DEF T
<1>. HIDE DEF step
<1>5. /\ Closure(step, P) \subseteq T /\ P \subseteq Closure(step, P)
      /\ \A n \in Closure(step, P) : step[n] \subseteq Closure(step, P)
  BY <1>1, <1>3, <1>4, ClosureClosed
<1>6. From(s, r, P) = Closure(step, P)
  BY DEF From, step, T
<1>7. \A n \in T : step[n] = SilentStep(s, T, n)
  BY DEF step
<1>. QED  BY <1>5, <1>6, <1>7 DEF T

\* Any set that holds P and is closed under silent steps holds them.
LEMMA FromWithin ==
    ASSUME NEW s, IsSession(s), NEW r \in DOMAIN s.root, NEW P \in SUBSET TreeOf(s, r),
           NEW S, P \subseteq S,
           \A n \in S \cap TreeOf(s, r) : SilentStep(s, TreeOf(s, r), n) \subseteq S
    PROVE  From(s, r, P) \subseteq S
<1>. DEFINE T == TreeOf(s, r)
            step == [n \in T |-> SilentStep(s, T, n)]
<1>1. IsFiniteSet(T) /\ \A n \in T : KidsOf(s, n) \subseteq T
  BY TreeIs
<1>. HIDE DEF T
<1>2. \A n \in T : SilentStep(s, T, n) \subseteq T
  BY <1>1 DEF SilentStep, SameLabel
<1>3. step \in [T -> SUBSET T]
  BY <1>2
<1>4. P \in SUBSET T
  BY DEF T
<1>5. \A n \in S \cap T : step[n] \subseteq S
  BY DEF T
<1>. HIDE DEF step
<1>. QED  BY <1>1, <1>3, <1>4, <1>5, ClosureWithin DEF From, step, T

-----------------------------------------------------------------------------
(* What a machine does is described by its session.                        *)

\* What is translated from one state is reached silently.
LEMMA RegionWithinFrom ==
    ASSUME NEW s, IsSession(s), NEW r \in DOMAIN s.root, NEW P \in SUBSET TreeOf(s, r)
    PROVE  Region(s, r, P) \subseteq From(s, r, P)
<1>1. /\ P \subseteq From(s, r, P)
      /\ \A n \in From(s, r, P) : SilentStep(s, TreeOf(s, r), n) \subseteq From(s, r, P)
  BY FromIs
<1>2. \A n : KidsAt(s, r, n) \subseteq SilentStep(s, TreeOf(s, r), n)
  BY DEF KidsAt, SilentStep
<1>3. \A n \in From(s, r, P) \cap TreeOf(s, r) : KidsAt(s, r, n) \subseteq From(s, r, P)
  BY <1>1, <1>2
<1>. QED  BY <1>1, <1>3, RegionWithin

\* What a loop holds is reached from the goto at its end.
LEMMA LoopWithinFrom ==
    ASSUME NEW s, IsSession(s), NEW r \in DOMAIN s.root,
           NEW g \in TreeOf(s, r), NEW l \in TreeOf(s, r), Jumps(s, g, l)
    PROVE  Region(s, r, {l}) \subseteq {l} \cup From(s, r, {g})
<1>1. /\ {g} \subseteq From(s, r, {g})
      /\ \A n \in From(s, r, {g}) : SilentStep(s, TreeOf(s, r), n) \subseteq From(s, r, {g})
  BY FromIs
<1>2. \A n : KidsAt(s, r, n) \subseteq SilentStep(s, TreeOf(s, r), n)
  BY DEF KidsAt, SilentStep
<1>3. KidsAt(s, r, l) \subseteq SilentStep(s, TreeOf(s, r), g)
  BY DEF KidsAt, SilentStep, SameLabel, Jumps
<1>. DEFINE S == {l} \cup From(s, r, {g})
<1>4. \A n \in S \cap TreeOf(s, r) : KidsAt(s, r, n) \subseteq S
  BY <1>1, <1>2, <1>3
<1>5. {l} \subseteq S
  OBVIOUS
<1>. HIDE DEF S
<1>6. Region(s, r, {l}) \subseteq S
  BY <1>4, <1>5, RegionWithin
<1>. QED  BY <1>6 DEF S

\* What the translation of role r starts from at a state of its machine.
Starts(s, r) ==
    {{s.root[r]}} \cup {KidsOf(s, c) : c \in Comms(s, TreeOf(s, r))}

\* Communication n leads from state q to q1, when f gives the starts.
Leads(r, f, n, q, q1) ==
    /\ n \in Comms(session, Region(session, r, f[q]))
    /\ \/ f[q1] = KidsOf(session, n)
       \/ q1 = q /\ \E g \in KidsOf(session, n) : \E l \in Region(session, r, f[q]) :
                       IsLoop(session, n, g, l)

TracedFrame(r, f, w) ==
    /\ w.node \in TreeOf(session, r)
    /\ w.at # Nil => IF w.do = "visit" THEN w.node \in Region(session, r, f[w.at])
                                       ELSE Leads(r, f, w.node, w.at, w.to)

TracedEdge(r, f, t) ==
    \E n \in TreeOf(session, r) :
       /\ Comm(session, n) = [dir |-> t.dir, peer |-> t.peer, msg |-> t.msg]
       /\ Leads(r, f, n, t.from, t.to)

TracedLabel(r, f, x) ==
    states[r][x] # Nil =>
       \E l \in Region(session, r, f[states[r][x]]) :
          session.kind[l] = "label" /\ session.arg[l] = x

\* Each state of the machine of role r starts at a place of the session, and
\* each transition, label and frame is that of a node translated there.
Traced(r, f) ==
    /\ size[r] > 0
    /\ f \in [0..(size[r]-1) -> Starts(session, r)] /\ f[Start] = {session.root[r]}
    /\ \A t \in trans[r] : TracedEdge(r, f, t)
    /\ \A x \in DOMAIN states[r] : TracedLabel(r, f, x)
    /\ r = role => \A i \in DOMAIN work : TracedFrame(r, f, work[i])

RolesTraced == \A r \in roles : \E f : Traced(r, f)

\* The starts are nodes of the tree.
LEMMA StartsInTree ==
    ASSUME NEW s, IsSession(s), NEW r \in DOMAIN s.root, NEW P \in Starts(s, r)
    PROVE  P \in SUBSET TreeOf(s, r)
BY TreeIs DEF Starts, Comms

\* A machine that a step leaves alone stays traced.
LEMMA TracedKept ==
    ASSUME NEW r, NEW f, Traced(r, f), session' = session, size'[r] = size[r],
           trans'[r] = trans[r], states'[r] = states[r],
           role' = r => role = r /\ work' = work
    PROVE  Traced(r, f)'
<1>1. \A n, q, q1 : Leads(r, f, n, q, q1)' = Leads(r, f, n, q, q1)
  BY DEF Leads
<1>2. \A t : TracedEdge(r, f, t)' = TracedEdge(r, f, t)
  BY <1>1 DEF TracedEdge
<1>3. \A w : TracedFrame(r, f, w)' = TracedFrame(r, f, w)
  BY <1>1 DEF TracedFrame
<1>4. \A x : TracedLabel(r, f, x)' = TracedLabel(r, f, x)
  BY DEF TracedLabel
<1>. QED  BY <1>2, <1>3, <1>4 DEF Traced

\* The stack v is the stack w with its top replaced by s.
Replaces(v, s, w) ==
    /\ Len(v) = Len(s) + Len(w) - 1 /\ DOMAIN v = 1..Len(v) /\ DOMAIN w = 1..Len(w)
    /\ Len(s) \in Nat /\ Len(w) \in Nat /\ Len(v) \in Nat
    /\ \A i \in 1..Len(s) : v[i] = s[i]
    /\ \A i \in (Len(s)+1)..Len(v) : i - Len(s) + 1 \in 2..Len(w) /\ v[i] = w[i - Len(s) + 1]
    /\ \A j \in 2..Len(w) :
          Len(s) + j - 1 \in (Len(s)+1)..Len(v) /\ v[Len(s) + j - 1] = w[j]

\* The frames after the top is replaced by s: those of s, and the others as before.
LEMMA Pushed ==
    ASSUME NEW S, NEW w \in Seq(S), w # << >>, NEW s \in Seq(S)
    PROVE  (s \o Tail(w)) \in Seq(S) /\ Replaces(s \o Tail(w), s, w)
<1>. DEFINE v == s \o Tail(w)
<1>1. /\ Tail(w) \in Seq(S) /\ Len(Tail(w)) = Len(w) - 1
      /\ \A j \in 1..Len(Tail(w)) : Tail(w)[j] = w[j+1]
  BY HeadTailProperties
<1>2. Len(w) \in Nat /\ Len(s) \in Nat /\ Len(Tail(w)) \in Nat
  BY <1>1, LenProperties
<1>3. /\ v \in Seq(S) /\ Len(v) = Len(s) + Len(Tail(w))
      /\ DOMAIN v = 1..Len(v) /\ DOMAIN w = 1..Len(w)
      /\ \A i \in 1..(Len(s) + Len(Tail(w))) :
            v[i] = IF i <= Len(s) THEN s[i] ELSE Tail(w)[i - Len(s)]
  BY <1>1, ConcatProperties, LenProperties
<1>. HIDE DEF v
<1>4. Len(v) = Len(s) + Len(w) - 1 /\ Len(v) \in Nat
  BY <1>1, <1>2, <1>3
<1>5. \A i \in 1..Len(s) : v[i] = s[i]
  BY <1>2, <1>3
<1>6. ASSUME NEW i \in (Len(s)+1)..Len(v)
      PROVE  i - Len(s) + 1 \in 2..Len(w) /\ v[i] = w[i - Len(s) + 1]
  <2>1. i - Len(s) \in 1..Len(Tail(w)) /\ i \in 1..(Len(s) + Len(Tail(w))) /\ ~(i <= Len(s))
    BY <1>1, <1>2, <1>3
  <2>2. v[i] = Tail(w)[i - Len(s)]
    BY <1>3, <2>1
  <2>. QED  BY <1>1, <1>2, <2>1, <2>2
<1>7. ASSUME NEW j \in 2..Len(w)
      PROVE  Len(s) + j - 1 \in (Len(s)+1)..Len(v) /\ v[Len(s) + j - 1] = w[j]
  <2>. DEFINE i == Len(s) + j - 1
  <2>1. i \in (Len(s)+1)..Len(v) /\ i - Len(s) + 1 = j
    BY <1>2, <1>4
  <2>. HIDE DEF i
  <2>2. v[i] = w[j]
    BY <1>6, <2>1
  <2>. QED  BY <2>1, <2>2 DEF i
<1>. QED  BY <1>2, <1>3, <1>4, <1>5, <1>6, <1>7 DEF v, Replaces

\* What is on it is what was pushed, or was on it below the top.
LEMMA Replaced ==
    ASSUME NEW v, NEW s, NEW w, Replaces(v, s, w)
    PROVE  \A i \in DOMAIN v : \/ \E j \in 1..Len(s) : v[i] = s[j]
                               \/ \E j \in DOMAIN w : v[i] = w[j]
<1>1. \A i \in 1..Len(v) : i \in 1..Len(s) \/ i \in (Len(s)+1)..Len(v)
  BY DEF Replaces
<1>2. \A i \in (Len(s)+1)..Len(v) : v[i] = w[i - Len(s) + 1] /\ i - Len(s) + 1 \in DOMAIN w
  BY DEF Replaces
<1>. QED  BY <1>1, <1>2 DEF Replaces

\* The frames of the calls on the children of a node.
LEMMA KidFrames ==
    ASSUME IInv, pc = "roles", work # << >>, NEW q \in Ref, q < size[role]
    PROVE  /\ VisitKids(Top.node, q) \in Seq(Frame)
           /\ Len(VisitKids(Top.node, q)) = Len(session.kids[Top.node])
           /\ Len(session.kids[Top.node]) \in Nat
           /\ \A i \in 1..Len(session.kids[Top.node]) :
                 VisitKids(Top.node, q)[i] = Visit(session.kids[Top.node][i], q)
<1>. USE TopFrame
<1>1. session.kids[Top.node] \in Seq(Node) /\ Len(session.kids[Top.node]) \in Nat
  BY LenProperties DEF IInv, TypeOK, IsSession
<1>2. VisitKids(Top.node, q) \in Seq(GoodFrame(size[role]))
  BY VisitKidsGood
<1>3. VisitKids(Top.node, q) \in Seq(Frame)
  BY <1>2, SeqMonotonic DEF GoodFrame
<1>4. /\ Len(VisitKids(Top.node, q)) = Len(session.kids[Top.node])
      /\ \A i \in 1..Len(session.kids[Top.node]) :
            VisitKids(Top.node, q)[i] = Visit(session.kids[Top.node][i], q)
  BY <1>1 DEF VisitKids
<1>. QED  BY <1>1, <1>3, <1>4

\* The frames after a visit that goes on to the children.
LEMMA FramesOfVisit ==
    ASSUME IInv, pc = "roles", work # << >>, NEW q \in Ref, q < size[role],
           work' = VisitKids(Top.node, q) \o Tail(work)
    PROVE  \A i \in DOMAIN work' :
              \/ \E k \in KidsOf(session, Top.node) : work'[i] = Visit(k, q)
              \/ \E j \in DOMAIN work : work'[i] = work[j]
<1>0. PICK s : s = VisitKids(Top.node, q)
  OBVIOUS
<1>1. /\ s \in Seq(Frame) /\ Len(s) = Len(session.kids[Top.node])
      /\ \A i \in 1..Len(session.kids[Top.node]) : s[i] = Visit(session.kids[Top.node][i], q)
  BY <1>0, KidFrames
<1>2. work \in Seq(Frame) /\ work' = s \o Tail(work)
  BY <1>0 DEF IInv, TypeOK
<1>3. Replaces(work', s, work)
  BY <1>1, <1>2, Pushed
<1>4. \A i \in 1..Len(s) : \E k \in KidsOf(session, Top.node) : s[i] = Visit(k, q)
  BY <1>1 DEF KidsOf
<1>5. \A i \in DOMAIN work' : \/ \E j \in 1..Len(s) : work'[i] = s[j]
                              \/ \E j \in DOMAIN work : work'[i] = work[j]
  BY ONLY <1>3, Replaced
<1>. QED  BY <1>4, <1>5

\* A visit of a node that is no communication, from whose state its children
\* are visited.
LEMMA VisitTraced ==
    ASSUME IInv, pc = "roles", work # << >>, role \in roles, NEW f, Traced(role, f),
           UNCHANGED <<session, role, size, trans>>,
           NEW q \in Ref, q < size[role], work' = VisitKids(Top.node, q) \o Tail(work),
           q # Nil => KidsOf(session, Top.node) \subseteq Region(session, role, f[q]),
           \A x \in DOMAIN states'[role] : TracedLabel(role, f, x)'
    PROVE  Traced(role, f)'
<1>. USE TopFrame
<1>1. IsSession(session) /\ role \in DOMAIN session.root
  BY DEF IInv, TypeOK
<1>2. work \in Seq(Frame) /\ DOMAIN work = 1..Len(work) /\ 1 \in DOMAIN work
  BY EmptySeq, LenProperties DEF IInv, TypeOK
<1>3. Top.node \in TreeOf(session, role)
  BY <1>2 DEF Traced, TracedFrame, Top
<1>4. KidsOf(session, Top.node) \subseteq TreeOf(session, role)
  BY <1>1, <1>3, TreeIs
<1>5. \A n, a, b : Leads(role, f, n, a, b)' = Leads(role, f, n, a, b)
  BY DEF Leads
<1>6. \A t : TracedEdge(role, f, t)' = TracedEdge(role, f, t)
  BY <1>5 DEF TracedEdge
<1>7. \A w : TracedFrame(role, f, w)' = TracedFrame(role, f, w)
  BY <1>5 DEF TracedFrame
<1>8. \A k \in KidsOf(session, Top.node) : TracedFrame(role, f, Visit(k, q))
  BY <1>4 DEF TracedFrame, Visit
<1>9. \A j \in DOMAIN work : TracedFrame(role, f, work[j])
  BY DEF Traced
<1>10. \A i \in DOMAIN work' : TracedFrame(role, f, work'[i])
  BY <1>8, <1>9, FramesOfVisit
<1>. QED  BY <1>6, <1>7, <1>10 DEF Traced

\* The frame at the top of the stack of a role that is traced.
LEMMA TopTraced ==
    ASSUME IInv, pc = "roles", work # << >>, role \in roles, NEW f, Traced(role, f)
    PROVE  /\ IsSession(session) /\ role \in DOMAIN session.root
           /\ TracedFrame(role, f, Top)
           /\ Top.at # Nil => /\ Top.at \in 0..(size[role]-1)
                              /\ f[Top.at] \in SUBSET TreeOf(session, role)
<1>. USE TopFrame
<1>1. IsSession(session) /\ role \in DOMAIN session.root
  BY DEF IInv, TypeOK
<1>2. work \in Seq(Frame) /\ DOMAIN work = 1..Len(work) /\ 1 \in DOMAIN work
  BY EmptySeq, LenProperties DEF IInv, TypeOK
<1>3. TracedFrame(role, f, Top)
  BY <1>2 DEF Traced, Top
<1>4. Top.at # Nil => Top.at \in 0..(size[role]-1)
  BY DEF GoodFrame, Ref
<1>5. Top.at # Nil => f[Top.at] \in Starts(session, role)
  BY <1>4 DEF Traced
<1>. QED  BY <1>1, <1>3, <1>4, <1>5, StartsInTree

\* A node that is skipped leaves its children to the same state.
LEMMA SkipTraced ==
    ASSUME IInv, role \in roles, NEW f, Traced(role, f), VisitSkip
    PROVE  Traced(role, f)'
<1>. USE TopFrame
<1>1. /\ pc = "roles" /\ work # << >> /\ Top.do = "visit" /\ session.kind[Top.node] = "skip"
      /\ UNCHANGED <<session, role, size, states, trans>>
      /\ work' = VisitKids(Top.node, Top.at) \o Tail(work)
  BY DEF VisitSkip, Visiting
<1>. USE <1>1
<1>. DEFINE q == Top.at
<1>2. q \in Ref /\ q < size[role]
  BY DEF GoodFrame
<1>3. ASSUME q # Nil PROVE KidsOf(session, Top.node) \subseteq Region(session, role, f[q])
  <2>1. /\ IsSession(session) /\ role \in DOMAIN session.root
        /\ Top.node \in Region(session, role, f[q]) /\ f[q] \in SUBSET TreeOf(session, role)
    BY <1>3, TopTraced DEF TracedFrame
  <2>2. KidsAt(session, role, Top.node) \subseteq Region(session, role, f[q])
    BY <2>1, RegionIs
  <2>. QED  BY <2>2 DEF KidsAt
<1>4. \A x \in DOMAIN states'[role] : TracedLabel(role, f, x)'
  BY DEF Traced, TracedLabel
<1>. HIDE DEF q
<1>. QED  BY <1>2, <1>3, <1>4, VisitTraced DEF q

\* A label is recorded with the state its children go on from.
LEMMA LabelTraced ==
    ASSUME IInv, role \in roles, NEW f, Traced(role, f), VisitLabel
    PROVE  Traced(role, f)'
<1>. USE TopFrame
<1>. DEFINE q == Top.at
            l == Top.node
            name == session.arg[l]
<1>1. /\ pc = "roles" /\ work # << >> /\ Top.do = "visit" /\ session.kind[l] = "label"
      /\ UNCHANGED <<session, role, size, trans>>
      /\ work' = VisitKids(l, q) \o Tail(work)
      /\ states' = [states EXCEPT ![role] =
                      [x \in DOMAIN states[role] \cup {name} |->
                         IF x = name THEN q ELSE states[role][x]]]
  BY DEF VisitLabel, Visiting
<1>. USE <1>1
<1>2. q \in Ref /\ q < size[role]
  BY DEF GoodFrame
<1>3. q # Nil => /\ IsSession(session) /\ role \in DOMAIN session.root
                 /\ l \in Region(session, role, f[q]) /\ f[q] \in SUBSET TreeOf(session, role)
                 /\ l \in TreeOf(session, role)
  BY TopTraced DEF TracedFrame
<1>4. ASSUME q # Nil PROVE KidsOf(session, l) \subseteq Region(session, role, f[q])
  <2>1. KidsAt(session, role, l) \subseteq Region(session, role, f[q])
    BY <1>3, <1>4, RegionIs
  <2>2. l \in SameLabel(session, TreeOf(session, role), l)
    BY <1>3, <1>4 DEF SameLabel
  <2>. QED  BY <2>1, <2>2 DEF KidsAt
<1>5. states'[role] = [x \in DOMAIN states[role] \cup {name} |->
                         IF x = name THEN q ELSE states[role][x]]
  BY DEF IInv, TypeOK
<1>6. ASSUME NEW x \in DOMAIN states'[role] PROVE TracedLabel(role, f, x)'
  <2>1. CASE x = name
    <3>1. states'[role][x] = q
      BY <1>5, <2>1
    <3>. QED  BY <1>3, <2>1, <3>1 DEF TracedLabel
  <2>2. CASE x # name
    <3>1. x \in DOMAIN states[role] /\ states'[role][x] = states[role][x]
      BY <1>5, <2>2
    <3>. QED  BY <3>1 DEF Traced, TracedLabel
  <2>. QED  BY <2>1, <2>2
<1>. HIDE DEF q, l
<1>7. KidsOf(session, l) = KidsOf(session, Top.node)
  BY DEF l
<1>. QED  BY <1>1, <1>2, <1>4, <1>6, <1>7, VisitTraced DEF l

\* What is attached to a goto goes on from the state of its label.
LEMMA GotoTraced ==
    ASSUME IInv, role \in roles, NEW f, Traced(role, f), VisitGoto
    PROVE  Traced(role, f)'
<1>. USE TopFrame
<1>. DEFINE g == Top.node
            name == session.arg[g]
            q == Target(name)
<1>1. /\ pc = "roles" /\ work # << >> /\ Top.do = "visit" /\ session.kind[g] = "goto"
      /\ UNCHANGED <<session, role, size, states, trans>>
      /\ work' = VisitKids(g, q) \o Tail(work)
  BY DEF VisitGoto, Visiting
<1>. USE <1>1
<1>2. q \in Ref /\ q < size[role]
  BY DEF Target, IInv, TypeOK, Ref, Nil
<1>3. /\ IsSession(session) /\ role \in DOMAIN session.root
      /\ g \in TreeOf(session, role)
  BY TopTraced DEF TracedFrame
<1>4. ASSUME q # Nil PROVE KidsOf(session, g) \subseteq Region(session, role, f[q])
  <2>1. name \in DOMAIN states[role] /\ states[role][name] = q
    BY <1>4 DEF Target
  <2>2. PICK l \in Region(session, role, f[q]) :
           session.kind[l] = "label" /\ session.arg[l] = name
    BY <1>4, <2>1 DEF Traced, TracedLabel
  <2>. HIDE DEF q
  <2>3. f[q] \in SUBSET TreeOf(session, role)
    <3>1. q \in 0..(size[role]-1)
      BY <1>2, <1>4 DEF Ref
    <3>2. f[q] \in Starts(session, role)
      BY <3>1 DEF Traced
    <3>. QED  BY <1>3, <3>2, StartsInTree
  <2>4. KidsAt(session, role, l) \subseteq Region(session, role, f[q])
    BY <1>3, <2>2, <2>3, RegionIs
  <2>5. g \in SameLabel(session, TreeOf(session, role), l)
    BY <1>3, <2>2 DEF SameLabel
  <2>. QED  BY <2>2, <2>4, <2>5 DEF KidsAt
<1>5. \A x \in DOMAIN states'[role] : TracedLabel(role, f, x)'
  BY DEF Traced, TracedLabel
<1>. HIDE DEF q, g
<1>6. KidsOf(session, g) = KidsOf(session, Top.node)
  BY DEF g
<1>. QED  BY <1>1, <1>2, <1>4, <1>5, <1>6, VisitTraced DEF g

\* Communication n, visited with state q, goes back to it.
GoesBack(n, q) == session.kind[n] # "end" /\ IsSelfLoop(n, q)

\* The frames a communication pushes, from its own to the state q1 it leads to.
CommFrames(s, n, q) ==
    \/ /\ GoesBack(n, q) /\ size' = size
       /\ Len(s) = 1 /\ s[1] = Link(n, q, q)
    \/ /\ ~GoesBack(n, q) /\ size' = [size EXCEPT ![role] = @ + 1]
       /\ Len(session.kids[n]) \in Nat /\ Len(s) = Len(session.kids[n]) + 1
       /\ \A i \in 1..Len(session.kids[n]) : s[i] = Visit(session.kids[n][i], size[role])
       /\ s[Len(s)] = Link(n, q, size[role])

\* A communication leaves its children, unless it loops, and its link.
LEMMA CommPushed ==
    ASSUME IInv, VisitComm
    PROVE  \/ UNCHANGED <<work, size>>
           \/ \E s : Replaces(work', s, work) /\ CommFrames(s, Top.node, Top.at)
<1>. USE TopFrame
<1>. DEFINE n    == Top.node
            q    == Top.at
            back == GoesBack(n, q)
            q1   == IF back THEN q ELSE size[role]
            kids == IF back THEN << >> ELSE VisitKids(n, q1)
            s    == kids \o <<Link(n, q, q1)>>
<1>1. pc = "roles" /\ work # << >>
  BY DEF VisitComm, Visiting
<1>. USE <1>1
<1>2. CASE UNCHANGED <<work, size>>
  BY <1>2
<1>3. CASE ~UNCHANGED <<work, size>>
  <2>1. size' = NewState(back) /\ work' = s \o Tail(work)
    BY <1>3 DEF VisitComm, GoesBack
  <2>2. work \in Seq(Frame) /\ size[role] \in Ref
    BY DEF IInv, TypeOK, Ref
  <2>3. session.kids[n] \in Seq(Node) /\ Len(session.kids[n]) \in Nat
    BY LenProperties DEF IInv, TypeOK, IsSession
  <2>4. q1 \in Ref /\ q1 < size[role] + 1 /\ q \in Ref
    BY <2>2 DEF GoodFrame, Ref, Nil
  <2>5. Link(n, q, q1) \in Frame
    BY <2>4 DEF Link, Frame
  <2>6. kids \in Seq(Frame)
    <3>1. VisitKids(n, q1) \in Seq(GoodFrame(size[role] + 1))
      BY <2>4, VisitKidsGood
    <3>2. VisitKids(n, q1) \in Seq(Frame)
      BY <3>1, SeqMonotonic DEF GoodFrame
    <3>. QED  BY <3>2
  <2>7. /\ ~back => /\ Len(kids) = Len(session.kids[n])
                    /\ \A i \in 1..Len(session.kids[n]) : kids[i] = Visit(session.kids[n][i], q1)
        /\ back => Len(kids) = 0
    BY <2>3 DEF VisitKids
  <2>8. size' = IF back THEN size ELSE [size EXCEPT ![role] = @ + 1]
    BY <2>1 DEF NewState
  <2>9. q1 = IF back THEN q ELSE size[role]
    OBVIOUS
  <2>. HIDE DEF kids, q1, back, n, q
  <2>10. /\ s \in Seq(Frame) /\ Len(s) = Len(kids) + 1 /\ Len(kids) \in Nat
         /\ s[Len(kids) + 1] = Link(n, q, q1)
         /\ \A i \in 1..Len(kids) : s[i] = kids[i]
    BY <2>5, <2>6, ConcatProperties, LenProperties
  <2>. HIDE DEF s
  <2>11. Replaces(work', s, work)
    BY <2>1, <2>2, <2>10, Pushed
  <2>12. CommFrames(s, n, q)
    <3>1. CASE back
      BY <2>7, <2>8, <2>9, <2>10, <3>1 DEF CommFrames, back
    <3>2. CASE ~back
      BY <2>3, <2>7, <2>8, <2>9, <2>10, <3>2 DEF CommFrames, back
    <3>. QED  BY <3>1, <3>2
  <2>. QED  BY <2>11, <2>12 DEF n, q
<1>. QED  BY <1>2, <1>3

\* A new state starts at the children of the communication that leads to it.
LEMMA CommTraced ==
    ASSUME IInv, role \in roles, NEW f, Traced(role, f), VisitComm
    PROVE  \E f2 : Traced(role, f2)'
<1>. USE TopFrame
<1>. DEFINE n == Top.node
            q == Top.at
            R(h, x) == Region(session, role, h[x])
            T == TreeOf(session, role)
<1>1. /\ pc = "roles" /\ work # << >> /\ Top.do = "visit" /\ session.kind[n] \in CommKind
      /\ UNCHANGED <<session, role, roles, states, trans>>
  BY DEF VisitComm, Visiting
<1>. USE <1>1
<1>2. /\ IsSession(session) /\ role \in DOMAIN session.root
      /\ n \in T
      /\ q # Nil => q \in 0..(size[role]-1) /\ n \in Comms(session, R(f, q))
  BY TopTraced DEF TracedFrame, Comms
<1>3. KidsOf(session, n) \subseteq T /\ KidsOf(session, n) \in Starts(session, role)
  BY <1>2, TreeIs DEF Starts, Comms
<1>4. CASE UNCHANGED <<work, size>>
  BY <1>4, TracedKept
<1>5. CASE ~UNCHANGED <<work, size>>
  <2>1. PICK s : Replaces(work', s, work) /\ CommFrames(s, n, q)
    BY <1>5, CommPushed
  <2>2. \A i \in DOMAIN work' : \/ \E j \in 1..Len(s) : work'[i] = s[j]
                                \/ \E j \in DOMAIN work : work'[i] = work[j]
    BY <2>1, Replaced
  <2>3. \A j \in DOMAIN work : TracedFrame(role, f, work[j])
    BY DEF Traced
  <2>4. CASE GoesBack(n, q)
    <3>1. size' = size /\ Len(s) = 1 /\ s[1] = Link(n, q, q)
      BY <2>1, <2>4 DEF CommFrames
    <3>2. ASSUME q # Nil PROVE Leads(role, f, n, q, q)
      <4>. DEFINE g == session.kids[n][1]
      <4>1. /\ session.kids[n] = <<g>> /\ g \in KidsOf(session, n)
            /\ session.kind[g] = "goto" /\ session.kind[n] # "end"
            /\ session.arg[g] \in DOMAIN states[role] /\ states[role][session.arg[g]] = q
        <5>1. session.kids[n] \in Seq(Node) /\ Len(session.kids[n]) = 1
          BY <2>4 DEF GoesBack, IsSelfLoop, IInv, TypeOK, IsSession
        <5>2. session.kids[n] = <<g>>
          BY <5>1
        <5>. QED  BY <2>4, <5>1, <5>2 DEF GoesBack, IsSelfLoop, KidsOf
      <4>. HIDE DEF g
      <4>2. PICK l \in R(f, q) : session.kind[l] = "label" /\ session.arg[l] = session.arg[g]
        BY <3>2, <4>1 DEF Traced, TracedLabel
      <4>3. IsLoop(session, n, g, l)
        BY <4>1, <4>2 DEF IsLoop, Jumps
      <4>. QED  BY <1>2, <3>2, <4>1, <4>2, <4>3 DEF Leads
    <3>3. TracedFrame(role, f, Link(n, q, q))
      BY <1>2, <3>2 DEF TracedFrame, Link
    <3>4. \A i \in DOMAIN work' : TracedFrame(role, f, work'[i])
      BY <2>2, <2>3, <3>1, <3>3
    <3>5. \A a, b, c : Leads(role, f, a, b, c)' = Leads(role, f, a, b, c)
      BY DEF Leads
    <3>6. \A t : TracedEdge(role, f, t)' = TracedEdge(role, f, t)
      BY <3>5 DEF TracedEdge
    <3>7. \A w : TracedFrame(role, f, w)' = TracedFrame(role, f, w)
      BY <3>5 DEF TracedFrame
    <3>8. \A x : TracedLabel(role, f, x)' = TracedLabel(role, f, x)
      BY DEF TracedLabel
    <3>. QED  BY <3>1, <3>4, <3>6, <3>7, <3>8 DEF Traced
  <2>5. CASE ~GoesBack(n, q)
    <3>. DEFINE k == size[role]
    <3>1. /\ size'[role] = k + 1 /\ k \in Nat /\ k > 0
          /\ Len(session.kids[n]) \in Nat /\ Len(s) = Len(session.kids[n]) + 1
          /\ \A i \in 1..Len(session.kids[n]) : s[i] = Visit(session.kids[n][i], k)
          /\ s[Len(s)] = Link(n, q, k)
      BY <2>1, <2>5 DEF CommFrames, IInv, TypeOK, Traced
    <3>2. /\ f \in [0..(k-1) -> Starts(session, role)] /\ f[Start] = {session.root[role]}
      BY DEF Traced
    <3>3. PICK f2 : /\ f2 \in [0..k -> Starts(session, role)]
                    /\ f2[Start] = {session.root[role]}
                    /\ \A x \in 0..(k-1) : f2[x] = f[x]
                    /\ f2[k] = KidsOf(session, n)
      <4>. DEFINE h == [x \in 0..k |-> IF x = k THEN KidsOf(session, n) ELSE f[x]]
      <4>1. /\ h \in [0..k -> Starts(session, role)] /\ h[Start] = {session.root[role]}
            /\ \A x \in 0..(k-1) : h[x] = f[x]
            /\ h[k] = KidsOf(session, n)
        BY <1>3, <3>1, <3>2 DEF Start
      <4>. HIDE DEF h
      <4>. QED  BY <4>1
    <3>. HIDE DEF k
    <3>4. \A a : \A b, c \in 0..(k-1) : Leads(role, f, a, b, c) => Leads(role, f2, a, b, c)
      BY <3>3 DEF Leads
    <3>5. \A w \in GoodFrame(k) : TracedFrame(role, f, w) => TracedFrame(role, f2, w)
      <4>1. ASSUME NEW w \in GoodFrame(k), TracedFrame(role, f, w), w.at # Nil
            PROVE  IF w.do = "visit" THEN w.node \in R(f2, w.at)
                                     ELSE Leads(role, f2, w.node, w.at, w.to)
        <5>1. w.at \in 0..(k-1) /\ w.to \in 0..(k-1)
          BY <3>1, <4>1 DEF GoodFrame, Frame, Ref
        <5>. QED  BY <3>3, <3>4, <4>1, <5>1 DEF TracedFrame
      <4>. QED  BY <4>1 DEF TracedFrame
    <3>6. \A j \in DOMAIN work : TracedFrame(role, f2, work[j])
      <4>1. \A j \in DOMAIN work : work[j] \in GoodFrame(k)
        BY ElementOfSeq, LenProperties DEF IInv, k
      <4>. QED  BY <2>3, <3>5, <4>1
    <3>7. \A c \in KidsOf(session, n) : TracedFrame(role, f2, Visit(c, k))
      <4>1. KidsOf(session, n) \subseteq R(f2, k)
        BY <1>2, <1>3, <3>3, RegionIs
      <4>. QED  BY <1>3, <4>1 DEF TracedFrame, Visit
    <3>8. TracedFrame(role, f2, Link(n, q, k))
      <4>1. ASSUME q # Nil PROVE Leads(role, f2, n, q, k)
        <5>1. q \in 0..(k-1) /\ n \in Comms(session, R(f, q))
          BY <1>2, <4>1 DEF k
        <5>. QED  BY <3>3, <5>1 DEF Leads
      <4>. QED  BY <1>2, <4>1 DEF TracedFrame, Link
    <3>9. \A i \in DOMAIN work' : TracedFrame(role, f2, work'[i])
      <4>1. \A j \in 1..Len(s) : s[j] = Link(n, q, k) \/ \E c \in KidsOf(session, n) : s[j] = Visit(c, k)
        <5>1. \A j \in 1..Len(s) : j = Len(s) \/ j \in 1..Len(session.kids[n])
          BY <3>1
        <5>. QED  BY <3>1, <5>1 DEF KidsOf
      <4>. QED  BY <2>2, <3>6, <3>7, <3>8, <4>1
    <3>10. \A t \in trans[role] : TracedEdge(role, f2, t)
      <4>1. \A t \in trans[role] : t.from \in 0..(k-1) /\ t.to \in 0..(k-1)
        BY <3>1 DEF IInv, TypeOK, EndpointsAllocated, Transition, k
      <4>. QED  BY <3>4, <4>1 DEF Traced, TracedEdge
    <3>11. \A x \in DOMAIN states[role] : TracedLabel(role, f2, x)
      <4>1. \A x \in DOMAIN states[role] : states[role][x] # Nil => states[role][x] \in 0..(k-1)
        BY <3>1 DEF IInv, TypeOK, Ref, k
      <4>. QED  BY <3>3, <4>1 DEF Traced, TracedLabel
    <3>12. \A a, b, c : Leads(role, f2, a, b, c)' = Leads(role, f2, a, b, c)
      BY DEF Leads
    <3>13. \A t : TracedEdge(role, f2, t)' = TracedEdge(role, f2, t)
      BY <3>12 DEF TracedEdge
    <3>14. \A w : TracedFrame(role, f2, w)' = TracedFrame(role, f2, w)
      BY <3>12 DEF TracedFrame
    <3>15. \A x : TracedLabel(role, f2, x)' = TracedLabel(role, f2, x)
      BY DEF TracedLabel
    <3>16. 0..(size'[role] - 1) = 0..k /\ size'[role] > 0
      BY <3>1
    <3>17. Traced(role, f2)'
      BY <3>3, <3>9, <3>10, <3>11, <3>13, <3>14, <3>15, <3>16 DEF Traced
    <3>. QED  BY <3>17
  <2>. QED  BY <2>4, <2>5
<1>. QED  BY <1>4, <1>5

\* A link adds the transition its frame stands for.
LEMMA LinkTraced ==
    ASSUME IInv, role \in roles, NEW f, Traced(role, f), LinkComm
    PROVE  Traced(role, f)'
<1>. USE TopFrame
<1>1. /\ pc = "roles" /\ work # << >> /\ Top.do = "link"
      /\ UNCHANGED <<session, role, size, states>>
  BY DEF LinkComm
<1>. USE <1>1
<1>2. CASE OnNil
  BY <1>2, TracedKept DEF LinkComm
<1>3. CASE ~OnNil
  <2>. DEFINE n == Top.node
              c == Comm(session, n)
              e == Edge(Top.at, c.dir, c.peer, c.msg, Top.to)
  <2>1. trans' = [trans EXCEPT ![role] = @ \cup {e}] /\ work' = Tail(work)
    BY <1>3 DEF LinkComm
  <2>2. trans'[role] = trans[role] \cup {e}
    BY <2>1 DEF IInv, TypeOK
  <2>3. n \in TreeOf(session, role) /\ Leads(role, f, n, Top.at, Top.to)
    BY <1>3, TopTraced DEF TracedFrame, OnNil
  <2>4. TracedEdge(role, f, e)
    <3>1. c = [dir |-> e.dir, peer |-> e.peer, msg |-> e.msg]
      BY DEF Comm, Event, Edge
    <3>2. e.from = Top.at /\ e.to = Top.to
      BY DEF Edge
    <3>. QED  BY <2>3, <3>1, <3>2 DEF TracedEdge
  <2>. HIDE DEF e
  <2>5. \A t \in trans'[role] : TracedEdge(role, f, t)
    BY <2>2, <2>4 DEF Traced
  <2>6. \A i \in DOMAIN work' : \E j \in DOMAIN work : work'[i] = work[j]
    <3>1. work \in Seq(Frame) /\ DOMAIN work = 1..Len(work) /\ Len(work) \in Nat
      BY LenProperties DEF IInv, TypeOK
    <3>2. /\ Tail(work) \in Seq(Frame) /\ Len(Tail(work)) = Len(work) - 1
          /\ \A i \in 1..Len(Tail(work)) : Tail(work)[i] = work[i+1]
          /\ DOMAIN Tail(work) = 1..Len(Tail(work))
      BY <3>1, HeadTailProperties, LenProperties
    <3>3. \A i \in 1..Len(Tail(work)) : i + 1 \in 1..Len(work)
      BY <3>1, <3>2
    <3>. QED  BY <2>1, <3>1, <3>2, <3>3
  <2>7. \A i \in DOMAIN work' : TracedFrame(role, f, work'[i])
    BY <2>6 DEF Traced
  <2>8. \A a, b, d : Leads(role, f, a, b, d)' = Leads(role, f, a, b, d)
    BY DEF Leads
  <2>9. \A t : TracedEdge(role, f, t)' = TracedEdge(role, f, t)
    BY <2>8 DEF TracedEdge
  <2>10. \A w : TracedFrame(role, f, w)' = TracedFrame(role, f, w)
    BY <2>8 DEF TracedFrame
  <2>11. \A x : TracedLabel(role, f, x)' = TracedLabel(role, f, x)
    BY DEF TracedLabel
  <2>. QED  BY <2>5, <2>7, <2>9, <2>10, <2>11 DEF Traced
<1>. QED  BY <1>2, <1>3

\* A machine begins with the root of its role, at its start.
LEMMA BeginTraced ==
    ASSUME IInv, NEW r \in Role, BeginRole(r)
    PROVE  \E f : Traced(r, f)'
<1>1. /\ r \in todo /\ role' = r /\ session' = session
      /\ UNCHANGED <<states, trans>>
      /\ size' = [size EXCEPT ![r] = 1]
      /\ work' = <<Visit(session.root[r], Start)>>
  BY DEF BeginRole
<1>2. /\ IsSession(session) /\ r \in DOMAIN session.root
      /\ size'[r] = 1 /\ trans[r] = {} /\ DOMAIN states[r] = {}
  BY <1>1 DEF IInv, TypeOK, Machine
<1>3. PICK f : f = [x \in 0..0 |-> {session.root[r]}]
  OBVIOUS
<1>4. f \in [0..0 -> Starts(session, r)] /\ f[Start] = {session.root[r]}
  BY <1>3 DEF Starts, Start
<1>5. /\ session.root[r] \in TreeOf(session, r)
      /\ {session.root[r]} \in SUBSET TreeOf(session, r)
  BY <1>2, TreeIs
<1>6. session.root[r] \in Region(session, r, f[Start])
  BY <1>2, <1>4, <1>5, RegionIs
<1>7. TracedFrame(r, f, Visit(session.root[r], Start))'
  BY <1>1, <1>5, <1>6 DEF TracedFrame, Visit
<1>8. \A i \in DOMAIN work' : work'[i] = Visit(session.root[r], Start)
  BY <1>1
<1>9. (\A i \in DOMAIN work : TracedFrame(r, f, work[i]))'
  BY <1>1, <1>7, <1>8
<1>10. 0..(size'[r]-1) = 0..0 /\ size'[r] > 0
  BY <1>2
<1>. QED  BY <1>1, <1>2, <1>4, <1>9, <1>10 DEF Traced

\* Every step keeps the machines of the roles traced.
LEMMA NextTraced ==
    ASSUME IInv, RolesTraced, [Next]_vars
    PROVE  RolesTraced'
<1>. SUFFICES ASSUME NEW r \in roles' PROVE \E f : Traced(r, f)'
  BY DEF RolesTraced
<1>0. roles \subseteq Role /\ \A x \in roles : x \in DOMAIN session.root
  BY DEF IInv, TypeOK, IsSession
<1>1. CASE VisitSkip \/ VisitLabel \/ VisitGoto \/ VisitComm \/ LinkComm
  <2>1. /\ pc = "roles" /\ work # << >>
        /\ UNCHANGED <<session, role, roles>>
    BY <1>1 DEF VisitSkip, VisitLabel, VisitGoto, VisitComm, LinkComm, Visiting
  <2>2. PICK f : Traced(r, f)
    BY <2>1 DEF RolesTraced
  <2>3. CASE r = role
    BY <1>1, <2>1, <2>2, <2>3, SkipTraced, LabelTraced, GotoTraced, CommTraced, LinkTraced
  <2>4. CASE r # role
    <3>1. r \in Role /\ role \in Role
      BY <1>0, <2>1, TopFrame
    <3>2. size'[r] = size[r]
      BY <1>1, <2>4, <3>1 DEF VisitSkip, VisitLabel, VisitGoto, VisitComm, LinkComm,
                              NewState, IInv, TypeOK, Machine
    <3>3. trans'[r] = trans[r]
      BY <1>1, <2>4, <3>1 DEF VisitSkip, VisitLabel, VisitGoto, VisitComm, LinkComm,
                              IInv, TypeOK, Machine
    <3>4. states'[r] = states[r]
      BY <1>1, <2>4, <3>1 DEF VisitSkip, VisitLabel, VisitGoto, VisitComm, LinkComm,
                              IInv, TypeOK
    <3>. QED  BY <2>1, <2>2, <2>4, <3>2, <3>3, <3>4, TracedKept
  <2>. QED  BY <2>3, <2>4
<1>2. ASSUME NEW x \in Role, BeginRole(x) PROVE \E f : Traced(r, f)'
  <2>1. /\ role = NoRole /\ role' = x /\ roles' = roles \cup {x}
        /\ UNCHANGED <<session, states, trans>>
        /\ size' = [size EXCEPT ![x] = 1]
    BY <1>2 DEF BeginRole
  <2>2. CASE r = x
    BY <1>2, <2>2, BeginTraced
  <2>3. CASE r # x
    <3>1. PICK f : Traced(r, f)
      BY <2>1, <2>3 DEF RolesTraced
    <3>2. size'[r] = size[r]
      BY <2>1, <2>3 DEF IInv, TypeOK
    <3>. QED  BY <2>1, <2>3, <3>1, <3>2, TracedKept
  <2>. QED  BY <2>2, <2>3
<1>3. CASE EndRole
  <2>1. /\ role' = NoRole /\ UNCHANGED <<session, size, trans>>
        /\ \/ roles' = roles /\ states' = states
           \/ roles' = roles \ {role} /\ states' = [states EXCEPT ![role] = << >>]
    BY <1>3 DEF EndRole
  <2>2. r \in roles /\ r # NoRole
    BY <1>0, <2>1, NameAssumption
  <2>3. PICK f : Traced(r, f)
    BY <2>2 DEF RolesTraced
  <2>4. states'[r] = states[r]
    BY <1>0, <2>1, <2>2 DEF IInv, TypeOK
  <2>. QED  BY <2>1, <2>2, <2>3, <2>4, TracedKept
<1>4. CASE ChanToMachine
  <2>1. /\ UNCHANGED <<session, role, work, roles, states>>
        /\ Head(deferred) \in Chan
        /\ \E E : trans' = [trans EXCEPT ![Head(deferred)] = E]
        /\ \E k : size' = [size EXCEPT ![Head(deferred)] = k]
    <3>1. UNCHANGED <<session, role, work, roles, states>> /\ deferred # << >>
      BY <1>4 DEF ChanToMachine
    <3>2. Head(deferred) \in Chan
      BY <3>1 DEF IInv, TypeOK
    <3>3. PICK mid \in Numbering(Relayed) :
             /\ trans' = [trans EXCEPT ![Head(deferred)] = RelayEdges(Relayed, mid)]
             /\ size' = [size EXCEPT ![Head(deferred)] = Cardinality(Relayed) + 2]
      BY <1>4 DEF ChanToMachine
    <3>. QED  BY <3>1, <3>2, <3>3
  <2>2. PICK f : Traced(r, f)
    BY <2>1 DEF RolesTraced
  <2>3. r # Head(deferred)
    BY <1>0, <2>1, NameAssumption
  <2>4. trans'[r] = trans[r] /\ size'[r] = size[r]
    BY <2>1, <2>3 DEF IInv, TypeOK
  <2>. QED  BY <2>1, <2>2, <2>4, TracedKept
<1>5. CASE \/ (\E c \in Chan : MakeChanMachine(c)) \/ ChansMade \/ RolesMade
           \/ Return \/ Terminated \/ UNCHANGED vars
  <2>1. UNCHANGED <<session, role, work, roles, size, states, trans>>
    BY <1>5 DEF MakeChanMachine, ChansMade, RolesMade, Return, Terminated, vars
  <2>. QED  BY <2>1, TracedKept DEF RolesTraced
<1>. QED  BY <1>1, <1>2, <1>3, <1>4, <1>5 DEF Next

\* The places of a session are the points reached from its starts.
LEMMA PlacesAre ==
    ASSUME NEW s, NEW r, NEW n \in TreeOf(s, r), s.kind[n] \in CommKind
    PROVE  After(s, r, n) \in Places(s, r)
BY DEF Places, Comms

\* At the end, each state offers only what its session can do at the points
\* that lead there.
LEMMA TracedWithin ==
    ASSUME IInv, NEW r \in roles, NEW f, Traced(r, f), LoopsOwnState(session, r),
           NEW d \in Nat
    PROVE  MachineTraces(r, d) \subseteq SessionTraces(session, r, d)
<1>. DEFINE T    == TreeOf(session, r)
            R(q) == Region(session, r, f[q])
            S    == {x \in (0..(size[r]-1)) \X Places(session, r) :
                       \A n \in Comms(session, R(x[1])) : n \in x[2]}
            E    == MachineEdges(r)
            F    == SessionEdges(session, r)
<1>1. IsSession(session) /\ r \in DOMAIN session.root
  BY DEF IInv, TypeOK
<1>2. \A q \in 0..(size[r]-1) : f[q] \in Starts(session, r) /\ f[q] \in SUBSET T
  BY <1>1, StartsInTree DEF Traced
<1>3. r \in Machine /\ size[r] \in Nat /\ 0 \in 0..(size[r]-1)
  <2>1. r \in Machine
    BY <1>1 DEF IsSession, Machine
  <2>2. size[r] \in Nat /\ size[r] > 0
    BY <2>1 DEF IInv, TypeOK, Traced
  <2>. QED  BY <2>1, <2>2
<1>4. <<Start, Begin(session, r)>> \in S
  <2>1. R(Start) \subseteq Begin(session, r)
    <3>1. {session.root[r]} \in SUBSET T
      BY <1>1, TreeIs
    <3>2. Region(session, r, {session.root[r]}) \subseteq From(session, r, {session.root[r]})
      BY <1>1, <3>1, RegionWithinFrom
    <3>. QED  BY <3>2 DEF Begin, Traced
  <2>2. Begin(session, r) \in Places(session, r)
    BY DEF Places
  <2>. QED  BY <1>3, <2>1, <2>2 DEF Comms, Start
<1>5. ASSUME NEW e \in E, NEW b, <<e[1], b>> \in S
      PROVE  \E g \in F : g[1] = b /\ g[2] = e[2] /\ <<e[3], g[3]>> \in S
  <2>1. PICK t \in trans[r] :
           e = <<t.from, [dir |-> t.dir, peer |-> t.peer, msg |-> t.msg], t.to>>
    BY DEF MachineEdges
  <2>2. PICK n \in T : /\ Comm(session, n) = e[2]
                       /\ Leads(r, f, n, t.from, t.to)
    BY <2>1 DEF Traced, TracedEdge
  <2>3. n \in Comms(session, R(t.from)) /\ n \in b /\ b \in Places(session, r)
    BY <2>1, <2>2, <1>5 DEF Leads
  <2>4. session.kind[n] \in CommKind /\ n \in R(t.from)
    BY <2>3 DEF Comms
  <2>. DEFINE A == After(session, r, n)
              g == <<b, Comm(session, n), A>>
  <2>5. g \in F
    BY <2>3, <2>4 DEF SessionEdges, Comms
  <2>6. A \in Places(session, r)
    BY <2>4, PlacesAre
  <2>7. t.from \in 0..(size[r]-1) /\ t.to \in 0..(size[r]-1)
    BY <1>3 DEF IInv, TypeOK, EndpointsAllocated, Transition
  <2>8. KidsOf(session, n) \in SUBSET T
    BY <1>1, TreeIs
  <2>9. \A m \in Comms(session, R(t.to)) : m \in A
    <3>1. CASE f[t.to] = KidsOf(session, n)
      <4>1. Region(session, r, KidsOf(session, n)) \subseteq From(session, r, KidsOf(session, n))
        BY <1>1, <2>8, RegionWithinFrom
      <4>. QED  BY <3>1, <4>1 DEF After, Comms
    <3>2. ASSUME t.to = t.from, NEW c \in KidsOf(session, n), NEW l \in R(t.from),
                 IsLoop(session, n, c, l)
          PROVE  \A m \in Comms(session, R(t.to)) : m \in A
      <4>1. R(t.from) \in Regions(session, r)
        BY <1>2, <2>7 DEF Regions, Starts
      <4>2. \A m \in Comms(session, R(t.from)) : m \in Region(session, r, {l})
        BY <2>4, <3>2, <4>1 DEF LoopsOwnState, Comms
      <4>3. c \in T /\ Jumps(session, c, l) /\ session.kind[l] = "label"
            /\ KidsOf(session, n) = {c}
        BY <2>8, <3>2 DEF IsLoop, Jumps, KidsOf
      <4>4. l \in T
        BY <1>1, <1>2, <2>7, <3>2, RegionIs
      <4>5. Region(session, r, {l}) \subseteq {l} \cup From(session, r, {c})
        BY <1>1, <4>3, <4>4, LoopWithinFrom
      <4>6. \A m \in Comms(session, R(t.from)) : m # l
        BY <4>3 DEF Comms, CommKind
      <4>. QED  BY <3>2, <4>2, <4>3, <4>5, <4>6 DEF After
    <3>. QED  BY <2>2, <3>1, <3>2 DEF Leads
  <2>10. <<t.to, A>> \in S
    BY <2>6, <2>7, <2>9
  <2>11. g[1] = b /\ g[2] = e[2] /\ e[3] = t.to /\ g[3] = A
    BY <2>1, <2>2
  <2>. HIDE DEF S, F, A, g
  <2>. QED  BY <2>5, <2>10, <2>11
<1>. HIDE DEF S, E, F
<1>6. Words(E, Start, d) \subseteq Words(F, Begin(session, r), d)
  BY <1>4, <1>5, WordsSimulated
<1>. QED  BY <1>6 DEF MachineTraces, SessionTraces, E, F

\* To whatever depth, a machine performs only what its session describes,
\* unless the state of a loop is shared with what precedes or avoids the loop.
THEOREM MachineSound == Spec => []MachineWithinSession
<1>1. Init => RolesTraced
  BY DEF Init, RolesTraced
<1>2. IInv /\ RolesTraced /\ [Next]_vars => RolesTraced'
  BY NextTraced
<1>3. IInv /\ RolesTraced => MachineWithinSession
  BY TracedWithin, DepthAssumption DEF RolesTraced, MachineWithinSession
<1>. QED  BY <1>1, <1>2, <1>3, Inductive, PTL DEF Spec

-----------------------------------------------------------------------------
(* A machine does all that its session describes.                          *)

\* The sessions whose machines are complete.
Shaped(r) ==
    OneParent(session, r) /\ LabelsFirst(session, r) /\ ShortLoops(session, r)

\* Node k is translated from state q, or will be; at gives the states of the
\* nodes translated so far.
Sent(r, at, k, q) ==
    \/ k \in DOMAIN at /\ at[k] = q
    \/ r = role /\ \E i \in DOMAIN work : work[i] = Visit(k, q)

\* Communication n, or its link, leads to q1, as its children do; it is a self
\* loop when it can be.
CommMapped(r, at, n, q1) ==
    /\ \/ LET c == Comm(session, n)
          IN  Edge(at[n], c.dir, c.peer, c.msg, q1) \in trans[r]
       \/ r = role /\ \E i \in DOMAIN work : work[i] = Link(n, at[n], q1)
    /\ \A k \in KidsOf(session, n) : Sent(r, at, k, q1)
    /\ \A g, l \in TreeOf(session, r) :
          IsLoop(session, n, g, l) => l \in DOMAIN at /\ (at[l] = at[n] => q1 = at[n])

NodeMapped(r, at, n) ==
    /\ session.kind[n] \in {"skip", "label"} =>
          \A k \in KidsOf(session, n) : Sent(r, at, k, at[n])
    /\ session.kind[n] = "label" =>
          session.arg[n] \in DOMAIN states[r] /\ states[r][session.arg[n]] = at[n]
    /\ session.kind[n] = "goto" =>
          \E l \in DOMAIN at : /\ Jumps(session, n, l)
                               /\ \A k \in KidsOf(session, n) : Sent(r, at, k, at[l])
    /\ session.kind[n] \in CommKind => \E q1 : CommMapped(r, at, n, q1)

Rooted(r, V, n) ==
    n = session.root[r] \/ \E m \in V : n \in KidsOf(session, m)

\* The nodes still to be visited are new, and none of them leads to a goto
\* whose label is below a later one.
FramesApart(r, V) ==
    /\ \A i \in DOMAIN work : work[i].do = "visit" =>
          work[i].node \in TreeOf(session, r) \ V /\ Rooted(r, V, work[i].node)
    /\ \A i, j \in DOMAIN work :
          i < j /\ work[i].do = "visit" /\ work[j].do = "visit" =>
             /\ work[i].node # work[j].node
             /\ \A g \in Below(session, work[i].node), l \in Below(session, work[j].node) :
                   ~Jumps(session, g, l)

Mapped(r, at) ==
    /\ DOMAIN at \subseteq TreeOf(session, r)
    /\ Sent(r, at, session.root[r], Start)
    /\ \A n \in DOMAIN at : Rooted(r, DOMAIN at, n) /\ NodeMapped(r, at, n)
    /\ r = role => FramesApart(r, DOMAIN at)

RolesMapped == \A r \in roles : Shaped(r) => \E at : Mapped(r, at)

\* A child has one parent, and is not the root.
LEMMA ParentIs ==
    ASSUME NEW s, IsSession(s), NEW r \in DOMAIN s.root, OneParent(s, r),
           NEW m \in TreeOf(s, r), NEW k \in KidsOf(s, m)
    PROVE  k # s.root[r] /\ \A n \in TreeOf(s, r) : k \in KidsOf(s, n) => n = m
<1>1. PICK i \in 1..Len(s.kids[m]) : k = s.kids[m][i]
  BY DEF KidsOf
<1>2. k # s.root[r]
  BY <1>1 DEF OneParent
<1>3. ASSUME NEW n \in TreeOf(s, r), k \in KidsOf(s, n) PROVE n = m
  <2>1. PICK j \in 1..Len(s.kids[n]) : k = s.kids[n][j]
    BY <1>3 DEF KidsOf
  <2>. QED  BY <1>1, <2>1 DEF OneParent
<1>. QED  BY <1>2, <1>3

\* A loop of one communication ends with its goto.
LEMMA LoopKidless ==
    ASSUME NEW s, IsSession(s), NEW r \in DOMAIN s.root, OneParent(s, r), ShortLoops(s, r),
           NEW c \in TreeOf(s, r), s.kind[c] \in CommKind, NEW g, s.kids[c] = <<g>>,
           s.kind[g] = "goto"
    PROVE  KidsOf(s, g) = {}
<1>. DEFINE T == TreeOf(s, r)
<1>1. KidsOf(s, c) = {g} /\ g \in T /\ Len(s.kids[c]) = 1 /\ s.kids[c][1] = g
  <2>1. KidsOf(s, c) = {g}
    BY DEF KidsOf
  <2>2. KidsOf(s, c) \subseteq T
    BY TreeIs
  <2>. QED  BY <2>1, <2>2
<1>2. PICK R \in Regions(s, r) : \E l \in R :
         /\ Jumps(s, g, l)
         /\ \/ g \in R
            \/ s.kids[g] = << >> /\ \E d \in R : IsLoop(s, d, g, l)
  BY <1>1 DEF ShortLoops
<1>3. PICK l \in R : /\ Jumps(s, g, l)
                     /\ g \in R \/ s.kids[g] = << >>
  BY <1>2
<1>4. ASSUME g \in R PROVE FALSE
  <2>1. PICK P \in Starts(s, r) : R = Region(s, r, P)
    BY <1>2 DEF Regions, Starts
  <2>2. P \in SUBSET T
    BY <2>1, StartsInTree
  <2>3. CASE g \in P
    <3>1. P # {s.root[r]}
      BY <1>1, <2>3, ParentIs
    <3>2. PICK d \in Comms(s, T) : P = KidsOf(s, d)
      BY <2>1, <3>1 DEF Starts
    <3>3. d = c
      BY <1>1, <2>3, <3>2, ParentIs DEF Comms
    <3>4. P = {g}
      BY <1>1, <3>2, <3>3
    <3>5. KidsAt(s, r, g) = {}
      BY DEF KidsAt
    <3>6. R \subseteq P
      BY <2>1, <2>2, <3>4, <3>5, RegionWithin
    <3>. QED  BY <1>3, <3>4, <3>6 DEF Jumps
  <2>4. CASE g \notin P
    <3>. DEFINE S == T \ {g}
    <3>1. ASSUME NEW n \in T PROVE KidsAt(s, r, n) \subseteq S
      <4>1. ASSUME NEW m \in T, s.kind[m] \notin CommKind PROVE KidsOf(s, m) \subseteq S
        <5>1. m # c
          BY <4>1
        <5>2. g \notin KidsOf(s, m)
          BY <1>1, <5>1, ParentIs
        <5>. QED  BY <5>2, TreeIs
      <4>2. CASE s.kind[n] = "skip"
        BY <4>1, <4>2 DEF KidsAt, CommKind
      <4>3. CASE s.kind[n] = "label"
        <5>1. \A m \in SameLabel(s, T, n) : m \in T /\ s.kind[m] \notin CommKind
          BY DEF SameLabel, CommKind
        <5>. QED  BY <4>1, <4>3, <5>1 DEF KidsAt
      <4>4. CASE s.kind[n] \notin {"skip", "label"}
        BY <4>4 DEF KidsAt
      <4>. QED  BY <4>2, <4>3, <4>4
    <3>2. P \subseteq S
      BY <2>2, <2>4
    <3>3. \A n \in S \cap T : KidsAt(s, r, n) \subseteq S
      BY <3>1
    <3>. HIDE DEF S
    <3>4. R \subseteq S
      BY <2>1, <2>2, <3>2, <3>3, RegionWithin
    <3>. QED  BY <1>4, <3>4 DEF S
  <2>. QED  BY <2>3, <2>4
<1>. QED  BY <1>3, <1>4 DEF KidsOf

\* A goto of such a session has its label.
LEMMA LabelInTree ==
    ASSUME NEW s, IsSession(s), NEW r \in DOMAIN s.root, ShortLoops(s, r),
           NEW g \in TreeOf(s, r), s.kind[g] = "goto"
    PROVE  \E l \in TreeOf(s, r) : Jumps(s, g, l)
<1>1. PICK R \in Regions(s, r) : \E l \in R : Jumps(s, g, l)
  BY DEF ShortLoops
<1>2. PICK P \in Starts(s, r) : R = Region(s, r, P)
  BY DEF Regions, Starts
<1>3. P \in SUBSET TreeOf(s, r)
  BY StartsInTree
<1>4. R \subseteq TreeOf(s, r)
  BY <1>2, <1>3, RegionIs
<1>. QED  BY <1>1, <1>4

\* What is below a child is below its parent.
LEMMA BelowKid ==
    ASSUME NEW s, IsSession(s), NEW n \in Node, NEW k \in KidsOf(s, n)
    PROVE  k \in Node /\ Below(s, k) \subseteq Below(s, n)
<1>1. k \in Node
  BY ElementOfSeq DEF KidsOf, IsSession
<1>2. /\ k \in Below(s, n)
      /\ \A m \in Below(s, n) : KidsOf(s, m) \subseteq Below(s, n)
  BY BelowIs
<1>. QED  BY <1>1, <1>2, BelowWithin

\* A machine that a step leaves alone, or that is finished, stays mapped.
LEMMA MappedKept ==
    ASSUME NEW r, NEW at, Mapped(r, at), session' = session,
           trans'[r] = trans[r], states'[r] = states[r],
           role' = r => role = r,
           role = r => work' = work /\ (role' = r \/ work = << >>)
    PROVE  Mapped(r, at)'
<1>1. ASSUME NEW k, NEW q, Sent(r, at, k, q) PROVE Sent(r, at, k, q)'
  <2>1. CASE k \in DOMAIN at /\ at[k] = q
    BY <2>1 DEF Sent
  <2>2. CASE r = role /\ \E i \in DOMAIN work : work[i] = Visit(k, q)
    <3>1. PICK i \in DOMAIN work : work[i] = Visit(k, q)
      BY <2>2
    <3>2. work # << >>
      OBVIOUS
    <3>3. role' = r /\ work' = work
      BY <2>2, <3>2
    <3>. QED  BY <3>1, <3>3 DEF Sent, Visit
  <2>. QED  BY <1>1, <2>1, <2>2 DEF Sent
<1>2. ASSUME NEW n, NEW q1, CommMapped(r, at, n, q1) PROVE CommMapped(r, at, n, q1)'
  <2>1. \/ LET c == Comm(session, n)
           IN  Edge(at[n], c.dir, c.peer, c.msg, q1) \in trans'[r]
        \/ r = role' /\ \E i \in DOMAIN work' : work'[i] = Link(n, at[n], q1)
    <3>1. CASE r = role /\ \E i \in DOMAIN work : work[i] = Link(n, at[n], q1)
      <4>1. PICK i \in DOMAIN work : work[i] = Link(n, at[n], q1)
        BY <3>1
      <4>2. work # << >>
        OBVIOUS
      <4>. QED  BY <3>1, <4>1, <4>2
    <3>. QED  BY <1>2, <3>1 DEF CommMapped
  <2>2. \A k \in KidsOf(session, n) : Sent(r, at, k, q1)'
    BY <1>1, <1>2 DEF CommMapped
  <2>. QED  BY <1>2, <2>1, <2>2 DEF CommMapped
<1>3. ASSUME NEW n, NodeMapped(r, at, n) PROVE NodeMapped(r, at, n)'
  BY <1>1, <1>2, <1>3 DEF NodeMapped
<1>4. role' = r => FramesApart(r, DOMAIN at)'
  BY DEF Mapped, FramesApart, Rooted
<1>. QED  BY <1>1, <1>3, <1>4 DEF Mapped, Rooted

\* What was mapped stays so when more nodes are, at2 giving their states.
LEMMA MappedOld ==
    ASSUME NEW at, Mapped(role, at), UNCHANGED <<session, role>>,
           NEW at2, DOMAIN at \subseteq DOMAIN at2, \A m \in DOMAIN at : at2[m] = at[m],
           \A k, q : Sent(role, at, k, q) => Sent(role, at2, k, q)',
           \A n, q, q1 : LET c == Comm(session, n)
                         IN  Edge(q, c.dir, c.peer, c.msg, q1) \in trans[role] =>
                               Edge(q, c.dir, c.peer, c.msg, q1) \in trans'[role],
           \A n, q, q1 : (\E i \in DOMAIN work : work[i] = Link(n, q, q1)) =>
              \/ \E i \in DOMAIN work' : work'[i] = Link(n, q, q1)
              \/ LET c == Comm(session, n)
                 IN  Edge(q, c.dir, c.peer, c.msg, q1) \in trans'[role],
           \A l \in DOMAIN at : session.kind[l] = "label" =>
              /\ session.arg[l] \in DOMAIN states'[role]
              /\ states'[role][session.arg[l]] = states[role][session.arg[l]]
    PROVE  /\ Sent(role, at2, session.root[role], Start)'
           /\ \A n \in DOMAIN at : NodeMapped(role, at2, n)'
<1>1. Sent(role, at2, session.root[role], Start)'
  BY DEF Mapped
<1>2. ASSUME NEW n \in DOMAIN at, NEW q1, CommMapped(role, at, n, q1)
      PROVE  CommMapped(role, at2, n, q1)'
  <2>1. \/ LET c == Comm(session, n)
           IN  Edge(at2[n], c.dir, c.peer, c.msg, q1) \in trans'[role]
        \/ \E i \in DOMAIN work' : work'[i] = Link(n, at2[n], q1)
    BY <1>2 DEF CommMapped
  <2>2. \A k \in KidsOf(session, n) : Sent(role, at2, k, q1)'
    BY <1>2 DEF CommMapped
  <2>3. \A g, l \in TreeOf(session, role) :
           IsLoop(session, n, g, l) => l \in DOMAIN at2 /\ (at2[l] = at2[n] => q1 = at2[n])
    BY <1>2 DEF CommMapped
  <2>. QED  BY <2>1, <2>2, <2>3 DEF CommMapped
<1>3. ASSUME NEW n \in DOMAIN at PROVE NodeMapped(role, at2, n)'
  <2>. NodeMapped(role, at, n) /\ at2[n] = at[n]
    BY DEF Mapped
  <2>1. session.kind[n] \in {"skip", "label"} =>
           \A k \in KidsOf(session, n) : Sent(role, at2, k, at2[n])'
    BY DEF NodeMapped
  <2>2. session.kind[n] = "label" =>
           /\ session.arg[n] \in DOMAIN states'[role]
           /\ states'[role][session.arg[n]] = at2[n]
    BY DEF NodeMapped
  <2>3. session.kind[n] = "goto" =>
           \E l \in DOMAIN at2 : /\ Jumps(session, n, l)
                                 /\ \A k \in KidsOf(session, n) : Sent(role, at2, k, at2[l])'
    <3>1. SUFFICES ASSUME session.kind[n] = "goto"
                   PROVE  \E l \in DOMAIN at2 : /\ Jumps(session, n, l)
                                                /\ \A k \in KidsOf(session, n) : Sent(role, at2, k, at2[l])'
      OBVIOUS
    <3>2. PICK l \in DOMAIN at : /\ Jumps(session, n, l)
                                 /\ \A k \in KidsOf(session, n) : Sent(role, at, k, at[l])
      BY <3>1 DEF NodeMapped
    <3>3. l \in DOMAIN at2 /\ at2[l] = at[l]
      OBVIOUS
    <3>4. \A k \in KidsOf(session, n) : Sent(role, at2, k, at2[l])'
      BY <3>2, <3>3
    <3>. QED  BY <3>2, <3>3, <3>4
  <2>4. session.kind[n] \in CommKind => \E q1 : CommMapped(role, at2, n, q1)'
    BY <1>2 DEF NodeMapped
  <2>. QED  BY <2>1, <2>2, <2>3, <2>4 DEF NodeMapped
<1>. QED  BY <1>1, <1>3

\* The frames stay apart when node n is visited, with those of X among its
\* children, and frames on its other children are pushed.
LEMMA FramesStayApart ==
    ASSUME IInv, pc = "roles", work # << >>, Top.do = "visit", role \in roles,
           Shaped(role), NEW at, Mapped(role, at), UNCHANGED <<session, role>>,
           NEW n, n = Top.node, NEW s, Replaces(work', s, work),
           NEW X, X \subseteq KidsOf(session, n), NEW V2, V2 = DOMAIN at \cup {n} \cup X,
           \A i \in 1..Len(s) : s[i].do = "visit" =>
              /\ i \in 1..Len(session.kids[n])
              /\ s[i].node = session.kids[n][i] /\ X = {}
    PROVE  /\ FramesApart(role, V2)' /\ V2 \subseteq TreeOf(session, role)
           /\ \A m \in V2 : Rooted(role, V2, m)'
           /\ n \notin DOMAIN at /\ \A k \in KidsOf(session, n) : k \notin DOMAIN at /\ k # n
<1>. USE TopFrame
<1>. DEFINE T == TreeOf(session, role)
            V == DOMAIN at
            Apart(a, b) == \A g \in Below(session, a), l \in Below(session, b) :
                              ~Jumps(session, g, l)
<1>1. /\ IsSession(session) /\ role \in DOMAIN session.root /\ n \in Node
      /\ OneParent(session, role) /\ LabelsFirst(session, role)
  BY DEF IInv, TypeOK, Shaped
<1>2. /\ work \in Seq(Frame) /\ DOMAIN work = 1..Len(work) /\ Len(work) \in Nat
      /\ 1 \in DOMAIN work /\ work[1] = Top
  BY EmptySeq, LenProperties DEF IInv, TypeOK, Top
<1>3. /\ V \subseteq T /\ FramesApart(role, V)
      /\ \A m \in V : Rooted(role, V, m)
  BY DEF Mapped
<1>4. n \in T \ V /\ Rooted(role, V, n)
  BY <1>2, <1>3 DEF FramesApart
<1>5. KidsOf(session, n) \subseteq T
  BY <1>1, <1>4, TreeIs
<1>6. ASSUME NEW k \in KidsOf(session, n)
      PROVE  k \in T \ V /\ k # n /\ ~Rooted(role, V, k)
  <2>1. k # session.root[role] /\ \A m \in T : k \in KidsOf(session, m) => m = n
    BY <1>1, <1>4, ParentIs
  <2>2. ~Rooted(role, V, k)
    BY <1>3, <1>4, <2>1 DEF Rooted
  <2>. QED  BY <1>3, <1>4, <1>5, <2>2
<1>7. \A m : Rooted(role, V, m) => Rooted(role, V2, m)
  BY DEF Rooted
<1>8. \A k \in KidsOf(session, n) : Rooted(role, V2, k)
  BY DEF Rooted
<1>9. ASSUME NEW j \in 2..Len(work), work[j].do = "visit"
      PROVE  /\ work[j].node \in T \ V2 /\ Rooted(role, V2, work[j].node)
             /\ \A k \in KidsOf(session, n) : k # work[j].node
             /\ Apart(n, work[j].node)
  <2>1. j \in DOMAIN work /\ 1 < j
    BY <1>2
  <2>2. work[j].node \in T \ V /\ Rooted(role, V, work[j].node)
    BY <1>3, <1>9, <2>1 DEF FramesApart
  <2>3. n # work[j].node /\ Apart(n, work[j].node)
    BY <1>2, <1>3, <1>9, <2>1 DEF FramesApart
  <2>4. \A k \in KidsOf(session, n) : k # work[j].node
    BY <1>6, <2>2
  <2>. QED  BY <1>7, <2>2, <2>3, <2>4
<1>10. ASSUME NEW i \in 1..Len(s), s[i].do = "visit"
       PROVE  /\ i \in 1..Len(session.kids[n]) /\ s[i].node = session.kids[n][i]
              /\ s[i].node \in KidsOf(session, n)
              /\ s[i].node \in T \ V2 /\ Rooted(role, V2, s[i].node)
  <2>1. i \in 1..Len(session.kids[n]) /\ s[i].node = session.kids[n][i] /\ X = {}
    BY <1>10
  <2>2. s[i].node \in KidsOf(session, n)
    BY <2>1 DEF KidsOf
  <2>. QED  BY <1>6, <1>8, <2>1, <2>2
<1>11. /\ DOMAIN work' = 1..Len(work') /\ Len(s) \in Nat /\ Len(work') \in Nat
       /\ \A i \in 1..Len(s) : work'[i] = s[i]
       /\ \A i \in (Len(s)+1)..Len(work') : /\ i - Len(s) + 1 \in 2..Len(work)
                                            /\ work'[i] = work[i - Len(s) + 1]
  BY DEF Replaces
<1>12. ASSUME NEW i \in DOMAIN work', work'[i].do = "visit"
       PROVE  work'[i].node \in T \ V2 /\ Rooted(role, V2, work'[i].node)
  <2>1. CASE i \in 1..Len(s)
    BY <1>10, <1>11, <1>12, <2>1
  <2>2. CASE i \in (Len(s)+1)..Len(work')
    <3>. DEFINE j == i - Len(s) + 1
    <3>1. j \in 2..Len(work) /\ work'[i] = work[j]
      BY <1>11, <2>2
    <3>. HIDE DEF j
    <3>. QED  BY <1>9, <1>12, <3>1
  <2>. QED  BY <1>11, <2>1, <2>2
<1>13. ASSUME NEW i \in DOMAIN work', NEW j \in DOMAIN work', i < j,
              work'[i].do = "visit", work'[j].do = "visit"
       PROVE  work'[i].node # work'[j].node /\ Apart(work'[i].node, work'[j].node)
  <2>1. CASE i \in 1..Len(s) /\ j \in 1..Len(s)
    <3>1. /\ i \in 1..Len(session.kids[n]) /\ work'[i].node = session.kids[n][i]
          /\ j \in 1..Len(session.kids[n]) /\ work'[j].node = session.kids[n][j]
      BY <1>10, <1>11, <1>13, <2>1
    <3>2. session.kids[n][i] # session.kids[n][j]
      BY <1>1, <1>4, <1>13, <3>1 DEF OneParent
    <3>3. Apart(session.kids[n][i], session.kids[n][j])
      BY <1>1, <1>4, <1>13, <3>1 DEF LabelsFirst
    <3>. QED  BY <3>1, <3>2, <3>3
  <2>2. CASE i \in 1..Len(s) /\ j \in (Len(s)+1)..Len(work')
    <3>. DEFINE k == work'[i].node
                j0 == j - Len(s) + 1
    <3>1. k \in KidsOf(session, n)
      BY <1>10, <1>11, <1>13, <2>2
    <3>2. j0 \in 2..Len(work) /\ work'[j] = work[j0]
      BY <1>11, <2>2
    <3>. HIDE DEF k, j0
    <3>3. k # work[j0].node /\ Apart(n, work[j0].node)
      BY <1>9, <1>13, <3>1, <3>2
    <3>4. Below(session, k) \subseteq Below(session, n)
      BY <1>1, <3>1, BelowKid
    <3>. QED  BY <3>2, <3>3, <3>4 DEF k
  <2>3. CASE i \in (Len(s)+1)..Len(work') /\ j \in (Len(s)+1)..Len(work')
    <3>. DEFINE i0 == i - Len(s) + 1
                j0 == j - Len(s) + 1
    <3>1. /\ i0 \in 2..Len(work) /\ work'[i] = work[i0]
          /\ j0 \in 2..Len(work) /\ work'[j] = work[j0]
      BY <1>11, <2>3
    <3>2. i0 < j0
      BY <1>11, <1>13, <2>3
    <3>. HIDE DEF i0, j0
    <3>3. i0 \in DOMAIN work /\ j0 \in DOMAIN work
      BY <1>2, <3>1
    <3>. QED  BY <1>3, <1>13, <3>1, <3>2, <3>3 DEF FramesApart
  <2>. QED  BY <1>11, <1>13, <2>1, <2>2, <2>3
<1>14. FramesApart(role, V2)'
  BY <1>12, <1>13 DEF FramesApart, Rooted
<1>15. \A m \in V2 : Rooted(role, V2, m)
  BY <1>3, <1>4, <1>7, <1>8
<1>16. \A m \in V2 : Rooted(role, V2, m)'
  BY <1>15 DEF Rooted
<1>. QED  BY <1>3, <1>4, <1>5, <1>6, <1>14, <1>16

\* When a goto that is not above its label is reached, the label was visited.
LEMMA LabelVisited ==
    ASSUME IInv, pc = "roles", work # << >>, Top.do = "visit", role \in roles,
           NEW at, Mapped(role, at),
           NEW g \in Below(session, Top.node), NEW l \in TreeOf(session, role),
           Jumps(session, g, l), l \notin Below(session, Top.node)
    PROVE  l \in DOMAIN at
<1>. USE TopFrame
<1>. DEFINE V == DOMAIN at
            T == TreeOf(session, role)
            Visits == {i \in DOMAIN work : work[i].do = "visit"}
            B(i) == Below(session, work[i].node)
            S == V \cup UNION {B(i) : i \in Visits}
<1>1. /\ IsSession(session) /\ role \in DOMAIN session.root
      /\ session.root[role] \in Node /\ T \subseteq Node
  <2>1. IsSession(session) /\ role \in DOMAIN session.root
    BY DEF IInv, TypeOK
  <2>. QED  BY <2>1, TreeIs DEF IsSession
<1>2. /\ work \in Seq(Frame) /\ DOMAIN work = 1..Len(work) /\ Len(work) \in Nat
      /\ 1 \in DOMAIN work /\ work[1] = Top
  BY EmptySeq, LenProperties DEF IInv, TypeOK, Top
<1>3. /\ V \subseteq T /\ FramesApart(role, V)
      /\ Sent(role, at, session.root[role], Start)
      /\ \A m \in V : NodeMapped(role, at, m)
  BY DEF Mapped
<1>4. \A i \in Visits : /\ B(i) \subseteq Node /\ work[i].node \in B(i)
                        /\ \A m \in B(i) : KidsOf(session, m) \subseteq B(i)
  <2>1. \A i \in Visits : work[i].node \in Node
    BY <1>1, <1>3 DEF FramesApart
  <2>. QED  BY <1>1, <2>1, BelowIs
<1>5. ASSUME NEW k, NEW q, Sent(role, at, k, q) PROVE k \in S
  <2>1. CASE k \in V
    BY <2>1
  <2>2. CASE \E i \in DOMAIN work : work[i] = Visit(k, q)
    <3>1. PICK i \in DOMAIN work : work[i] = Visit(k, q)
      BY <2>2
    <3>2. i \in Visits /\ work[i].node = k
      BY <3>1 DEF Visit
    <3>3. k \in B(i)
      BY <1>4, <3>2
    <3>. QED  BY <3>2, <3>3
  <2>. QED  BY <1>5, <2>1, <2>2 DEF Sent
<1>6. session.root[role] \in S
  BY <1>3, <1>5
<1>7. ASSUME NEW m \in S \cap Node PROVE KidsOf(session, m) \subseteq S
  <2>1. CASE m \in V
    <3>1. \A k \in KidsOf(session, m) : \E q : Sent(role, at, k, q)
      <4>1. session.kind[m] \in Kind
        BY <1>1 DEF IsSession
      <4>2. CASE session.kind[m] \in {"skip", "label"}
        BY <1>3, <2>1, <4>2 DEF NodeMapped
      <4>3. CASE session.kind[m] = "goto"
        BY <1>3, <2>1, <4>3 DEF NodeMapped
      <4>4. CASE session.kind[m] \in CommKind
        BY <1>3, <2>1, <4>4 DEF NodeMapped, CommMapped
      <4>. QED  BY <4>1, <4>2, <4>3, <4>4 DEF Kind
    <3>. HIDE DEF S
    <3>. QED  BY <1>5, <3>1
  <2>2. CASE m \notin V
    <3>1. PICK i \in Visits : m \in B(i)
      BY <2>2
    <3>2. KidsOf(session, m) \subseteq B(i)
      BY <1>4, <3>1
    <3>. QED  BY <3>1, <3>2
  <2>. QED  BY <2>1, <2>2
<1>8. T \subseteq S
  <2>. HIDE DEF S
  <2>. QED  BY <1>1, <1>6, <1>7, BelowWithin DEF TreeOf
<1>9. ASSUME l \notin V PROVE FALSE
  <2>1. PICK i \in Visits : l \in B(i)
    BY <1>8, <1>9
  <2>2. i # 1
    BY <1>2, <2>1
  <2>3. 1 < i /\ 1 \in Visits
    BY <1>2, <2>2
  <2>. QED  BY <1>2, <1>3, <2>1, <2>3 DEF FramesApart
<1>. QED  BY <1>9

\* What is sent stays so when the node at the top is translated.
LEMMA SentOn ==
    ASSUME IInv, pc = "roles", work # << >>, role' = role, NEW n, n = Top.node,
           NEW s, Replaces(work', s, work), NEW at, NEW at2,
           DOMAIN at \subseteq DOMAIN at2, \A m \in DOMAIN at : at2[m] = at[m],
           Top.do = "visit", n \in DOMAIN at2, at2[n] = Top.at
    PROVE  /\ \A k, q : Sent(role, at, k, q) => Sent(role, at2, k, q)'
           /\ \A m, q, q1 : (\E i \in DOMAIN work : work[i] = Link(m, q, q1)) =>
                                \E i \in DOMAIN work' : work'[i] = Link(m, q, q1)
           /\ \A i \in 1..Len(s) : i \in DOMAIN work' /\ work'[i] = s[i]
<1>1. work[1] = Top /\ DOMAIN work = 1..Len(work) /\ Len(work) \in Nat
  BY LenProperties DEF IInv, TypeOK, Top
<1>2. /\ \A i \in 1..Len(s) : i \in DOMAIN work' /\ work'[i] = s[i]
      /\ \A j \in 2..Len(work) : \E i \in DOMAIN work' : work'[i] = work[j]
  <2>1. DOMAIN work' = 1..Len(work') /\ Len(s) \in Nat /\ Len(work') \in Nat
        /\ Len(work') = Len(s) + Len(work) - 1
        /\ \A i \in 1..Len(s) : work'[i] = s[i]
    BY DEF Replaces
  <2>2. Len(s) <= Len(work')
    <3>1. Len(work) # 0
      BY <1>1 DEF IInv, TypeOK
    <3>. QED  BY <1>1, <2>1, <3>1
  <2>3. ASSUME NEW j \in 2..Len(work) PROVE \E i \in DOMAIN work' : work'[i] = work[j]
    <3>1. Len(s) + j - 1 \in (Len(s)+1)..Len(work') /\ work'[Len(s) + j - 1] = work[j]
      BY DEF Replaces
    <3>2. Len(s) + j - 1 \in DOMAIN work'
      BY <2>1, <3>1
    <3>. QED  BY <3>1, <3>2
  <2>. QED  BY <2>1, <2>2, <2>3
<1>3. \A j \in DOMAIN work : work[j] = Top \/ j \in 2..Len(work)
  BY <1>1
<1>4. ASSUME NEW k, NEW q, Sent(role, at, k, q) PROVE Sent(role, at2, k, q)'
  <2>1. CASE k \in DOMAIN at /\ at[k] = q
    BY <2>1 DEF Sent
  <2>2. CASE \E i \in DOMAIN work : work[i] = Visit(k, q)
    <3>1. PICK j \in DOMAIN work : work[j] = Visit(k, q)
      BY <2>2
    <3>2. CASE work[j] = Top
      <4>1. k = n /\ q = Top.at
        BY <3>1, <3>2 DEF Visit
      <4>. QED  BY <4>1 DEF Sent
    <3>3. CASE j \in 2..Len(work)
      <4>1. PICK i \in DOMAIN work' : work'[i] = Visit(k, q)
        BY <1>2, <3>1, <3>3
      <4>2. Visit(k, q)' = Visit(k, q)
        BY DEF Visit
      <4>. QED  BY <4>1, <4>2 DEF Sent
    <3>. QED  BY <1>3, <3>2, <3>3
  <2>. QED  BY <1>4, <2>1, <2>2 DEF Sent
<1>5. ASSUME NEW m, NEW q, NEW q1, \E i \in DOMAIN work : work[i] = Link(m, q, q1)
      PROVE  \E i \in DOMAIN work' : work'[i] = Link(m, q, q1)
  <2>1. PICK j \in DOMAIN work : work[j] = Link(m, q, q1)
    BY <1>5
  <2>2. work[j] # Top
    BY <2>1 DEF Link
  <2>. QED  BY <1>2, <1>3, <2>1, <2>2
<1>. QED  BY <1>2, <1>4, <1>5

\* The children of a node are sent once their frames are pushed.
LEMMA KidsSent ==
    ASSUME role' = role, session' = session, NEW n, NEW q, NEW at2,
           \A i \in 1..Len(session.kids[n]) :
              i \in DOMAIN work' /\ work'[i] = Visit(session.kids[n][i], q)
    PROVE  \A k \in KidsOf(session, n) : Sent(role, at2, k, q)'
<1>. TAKE k \in KidsOf(session, n)
<1>1. PICK i \in 1..Len(session.kids[n]) : k = session.kids[n][i]
  BY DEF KidsOf
<1>2. i \in DOMAIN work' /\ work'[i] = Visit(k, q)
  BY <1>1
<1>. QED  BY <1>2 DEF Sent, Visit

\* The nodes that are no communication.
LEMMA OtherMapped ==
    ASSUME IInv, role \in roles, Shaped(role), NEW at, Mapped(role, at),
           VisitSkip \/ VisitLabel \/ VisitGoto
    PROVE  \E at2 : Mapped(role, at2)'
<1>. USE TopFrame
<1>1. /\ pc = "roles" /\ work # << >> /\ Top.do = "visit"
      /\ session.kind[Top.node] \in {"skip", "label", "goto"}
      /\ UNCHANGED <<session, role, roles, trans>>
  BY DEF VisitSkip, VisitLabel, VisitGoto, Visiting
<1>. USE <1>1
<1>. DEFINE T == TreeOf(session, role)
<1>2. PICK n : n = Top.node
  OBVIOUS
<1>3. PICK q \in Ref : /\ q < size[role] /\ work' = VisitKids(n, q) \o Tail(work)
                       /\ session.kind[n] \in {"skip", "label"} => q = Top.at
                       /\ session.kind[n] = "goto" => q = Target(session.arg[n])
  <2>1. CASE VisitSkip \/ VisitLabel
    <3>1. Top.at \in Ref /\ Top.at < size[role] /\ work' = VisitKids(n, Top.at) \o Tail(work)
      BY <1>2, <2>1 DEF VisitSkip, VisitLabel, GoodFrame
    <3>2. session.kind[n] # "goto"
      BY <1>2, <2>1 DEF VisitSkip, VisitLabel, Visiting
    <3>. QED  BY <3>1, <3>2
  <2>2. CASE VisitGoto
    <3>1. Target(session.arg[n]) \in Ref /\ Target(session.arg[n]) < size[role]
      BY <1>2 DEF Target, IInv, TypeOK, Ref, Nil
    <3>2. session.kind[n] = "goto" /\ work' = VisitKids(n, Target(session.arg[n])) \o Tail(work)
      BY <1>2, <2>2 DEF VisitGoto, Visiting
    <3>. QED  BY <3>1, <3>2
  <2>. QED  BY <2>1, <2>2
<1>4. PICK s : s = VisitKids(n, q)
  OBVIOUS
<1>5. /\ s \in Seq(Frame) /\ Len(s) = Len(session.kids[n])
      /\ \A i \in 1..Len(session.kids[n]) : s[i] = Visit(session.kids[n][i], q)
  BY <1>2, <1>3, <1>4, KidFrames
<1>6. Replaces(work', s, work)
  <2>1. work \in Seq(Frame) /\ work' = s \o Tail(work)
    BY <1>3, <1>4 DEF IInv, TypeOK
  <2>. QED  BY <1>5, <2>1, Pushed
<1>7. PICK V2, X : V2 = DOMAIN at \cup {n} \cup X /\ X = {}
  OBVIOUS
<1>8. /\ FramesApart(role, V2)' /\ V2 \subseteq T
      /\ \A m \in V2 : Rooted(role, V2, m)'
      /\ n \notin DOMAIN at
  <2>1. ASSUME NEW i \in 1..Len(s)
        PROVE  i \in 1..Len(session.kids[n]) /\ s[i].node = session.kids[n][i]
    <3>1. i \in 1..Len(session.kids[n]) /\ s[i] = Visit(session.kids[n][i], q)
      BY ONLY <1>5, i \in 1..Len(s)
    <3>. QED  BY <3>1 DEF Visit
  <2>. QED  BY <1>2, <1>6, <1>7, <2>1, FramesStayApart
<1>9. PICK at2 : at2 = [x \in V2 |-> IF x \in DOMAIN at THEN at[x] ELSE Top.at]
  OBVIOUS
<1>10. /\ V2 = DOMAIN at2 /\ DOMAIN at2 = DOMAIN at \cup {n}
       /\ \A m \in DOMAIN at : at2[m] = at[m]
       /\ at2[n] = Top.at
  BY <1>7, <1>8, <1>9
<1>11. /\ \A k, x : Sent(role, at, k, x) => Sent(role, at2, k, x)'
       /\ \A m, x, x1 : (\E i \in DOMAIN work : work[i] = Link(m, x, x1)) =>
                            \E i \in DOMAIN work' : work'[i] = Link(m, x, x1)
       /\ \A i \in 1..Len(s) : i \in DOMAIN work' /\ work'[i] = s[i]
  BY <1>2, <1>6, <1>10, SentOn
<1>12. \A k \in KidsOf(session, n) : Sent(role, at2, k, q)'
  BY <1>5, <1>11, KidsSent
<1>13. n \in T /\ IsSession(session) /\ role \in DOMAIN session.root
       /\ LabelsFirst(session, role)
  BY <1>7, <1>8 DEF IInv, TypeOK, Shaped
<1>14. \A l \in DOMAIN at : session.kind[l] = "label" =>
          /\ session.arg[l] \in DOMAIN states'[role]
          /\ states'[role][session.arg[l]] = states[role][session.arg[l]]
  <2>. SUFFICES ASSUME NEW l \in DOMAIN at, session.kind[l] = "label"
                PROVE  /\ session.arg[l] \in DOMAIN states'[role]
                       /\ states'[role][session.arg[l]] = states[role][session.arg[l]]
    OBVIOUS
  <2>1. session.arg[l] \in DOMAIN states[role]
    BY DEF Mapped, NodeMapped
  <2>2. CASE VisitSkip \/ VisitGoto
    BY <2>1, <2>2 DEF VisitSkip, VisitGoto
  <2>3. CASE VisitLabel
    <3>1. session.kind[n] = "label" /\ l \in T /\ l # n
      BY <1>2, <1>7, <1>8, <2>3 DEF VisitLabel, Visiting
    <3>2. session.arg[l] # session.arg[n]
      BY <1>13, <3>1 DEF LabelsFirst
    <3>3. states'[role] = [x \in DOMAIN states[role] \cup {session.arg[n]} |->
                             IF x = session.arg[n] THEN Top.at ELSE states[role][x]]
      BY <1>2, <2>3 DEF VisitLabel, IInv, TypeOK
    <3>. QED  BY <2>1, <3>2, <3>3
  <2>. QED  BY <2>2, <2>3
<1>15. /\ Sent(role, at2, session.root[role], Start)'
       /\ \A m \in DOMAIN at : NodeMapped(role, at2, m)'
  <2>1. /\ UNCHANGED <<session, role>> /\ trans' = trans /\ DOMAIN at \subseteq DOMAIN at2
    BY <1>10
  <2>. QED  BY <1>10, <1>11, <1>14, <2>1, MappedOld
<1>16. NodeMapped(role, at2, n)'
  <2>1. session.kind[n] \in {"skip", "label"} =>
           \A k \in KidsOf(session, n) : Sent(role, at2, k, at2[n])'
    BY <1>3, <1>10, <1>12
  <2>2. session.kind[n] = "label" =>
           session.arg[n] \in DOMAIN states'[role] /\ states'[role][session.arg[n]] = at2[n]
    <3>1. SUFFICES ASSUME session.kind[n] = "label"
                   PROVE  session.arg[n] \in DOMAIN states'[role] /\ states'[role][session.arg[n]] = at2[n]
      OBVIOUS
    <3>2. VisitLabel
      BY <1>2, <3>1 DEF VisitSkip, VisitGoto, Visiting
    <3>3. states'[role] = [x \in DOMAIN states[role] \cup {session.arg[n]} |->
                             IF x = session.arg[n] THEN Top.at ELSE states[role][x]]
      BY <1>2, <3>2 DEF VisitLabel, IInv, TypeOK
    <3>. QED  BY <1>10, <3>3
  <2>3. session.kind[n] = "goto" =>
           \E l \in DOMAIN at2 : /\ Jumps(session, n, l)
                                 /\ \A k \in KidsOf(session, n) : Sent(role, at2, k, at2[l])'
    <3>1. SUFFICES ASSUME session.kind[n] = "goto"
                   PROVE  \E l \in DOMAIN at2 :
                             /\ Jumps(session, n, l)
                             /\ \A k \in KidsOf(session, n) : Sent(role, at2, k, at2[l])'
      OBVIOUS
    <3>2. PICK l \in T : Jumps(session, n, l)
      BY <1>13, <3>1, LabelInTree DEF Shaped
    <3>3. n \in Below(session, n) /\ l \notin Below(session, n)
      BY <1>13, <3>2, TreeIs, BelowIs DEF LabelsFirst
    <3>4. l \in DOMAIN at
      BY <1>2, <3>2, <3>3, LabelVisited
    <3>5. q = at[l]
      <4>1. session.kind[l] = "label" /\ session.arg[n] = session.arg[l]
        BY <3>2 DEF Jumps
      <4>2. /\ session.arg[l] \in DOMAIN states[role]
            /\ states[role][session.arg[l]] = at[l]
        BY <3>4, <4>1 DEF Mapped, NodeMapped
      <4>. QED  BY <1>3, <3>1, <4>1, <4>2 DEF Target
    <3>6. l \in DOMAIN at2 /\ at2[l] = q
      BY <1>10, <3>4, <3>5
    <3>. QED  BY <1>12, <3>2, <3>6
  <2>4. session.kind[n] \notin CommKind
    BY <1>2 DEF CommKind
  <2>. QED  BY <2>1, <2>2, <2>3, <2>4 DEF NodeMapped
<1>17. \A m \in DOMAIN at2 : NodeMapped(role, at2, m)'
  BY <1>10, <1>15, <1>16
<1>. QED  BY <1>8, <1>10, <1>15, <1>17 DEF Mapped

\* When a communication that may be a loop is reached, its label was visited.
LEMMA LoopLabelVisited ==
    ASSUME IInv, pc = "roles", work # << >>, Top.do = "visit", role \in roles,
           Shaped(role), NEW at, Mapped(role, at), NEW n, n = Top.node,
           NEW g, NEW l \in TreeOf(session, role), IsLoop(session, n, g, l)
    PROVE  /\ l \in DOMAIN at /\ session.arg[g] \in DOMAIN states[role]
           /\ states[role][session.arg[g]] = at[l]
<1>. USE TopFrame
<1>1. /\ IsSession(session) /\ role \in DOMAIN session.root /\ n \in Node
      /\ LabelsFirst(session, role)
  BY DEF IInv, TypeOK, Shaped
<1>2. /\ session.kids[n] = <<g>> /\ KidsOf(session, n) = {g}
      /\ Jumps(session, g, l) /\ session.kind[n] \in CommKind
      /\ session.kind[l] = "label" /\ session.arg[g] = session.arg[l]
  BY DEF IsLoop, Jumps, KidsOf
<1>3. n \in TreeOf(session, role)
  <2>1. work \in Seq(Frame) /\ DOMAIN work = 1..Len(work) /\ 1 \in DOMAIN work /\ work[1] = Top
    BY EmptySeq, LenProperties DEF IInv, TypeOK, Top
  <2>. QED  BY <2>1 DEF Mapped, FramesApart
<1>4. g \in TreeOf(session, role) /\ g \in Node
  BY <1>1, <1>2, <1>3, TreeIs
<1>5. /\ g \in Below(session, g) /\ Below(session, g) \subseteq Below(session, n)
      /\ \A m \in Below(session, g) : KidsOf(session, m) \subseteq Below(session, g)
  BY <1>1, <1>2, <1>4, BelowIs, BelowKid
<1>6. Below(session, n) \subseteq {n} \cup Below(session, g)
  <2>. DEFINE S == {n} \cup Below(session, g)
  <2>1. n \in S /\ \A m \in S \cap Node : KidsOf(session, m) \subseteq S
    BY <1>2, <1>5
  <2>. HIDE DEF S
  <2>2. Below(session, n) \subseteq S
    BY <1>1, <2>1, BelowWithin
  <2>. QED  BY <2>2 DEF S
<1>7. l \notin Below(session, n)
  <2>1. l # n
    BY <1>2 DEF CommKind
  <2>2. l \notin Below(session, g)
    BY <1>1, <1>2, <1>4 DEF LabelsFirst
  <2>. QED  BY <1>6, <2>1, <2>2
<1>8. l \in DOMAIN at
  BY <1>2, <1>5, <1>7, LabelVisited
<1>. QED  BY <1>2, <1>8 DEF Mapped, NodeMapped

\* A communication that goes back to its state.
LEMMA BackMapped ==
    ASSUME IInv, role \in roles, Shaped(role), NEW at, Mapped(role, at), VisitComm,
           NEW n, n = Top.node, GoesBack(n, Top.at),
           NEW s, Replaces(work', s, work), CommFrames(s, n, Top.at)
    PROVE  \E at2 : Mapped(role, at2)'
<1>. USE TopFrame
<1>1. /\ pc = "roles" /\ work # << >> /\ Top.do = "visit"
      /\ session.kind[n] \in CommKind
      /\ UNCHANGED <<session, role, roles, states, trans>>
  BY DEF VisitComm, Visiting
<1>. USE <1>1
<1>. DEFINE T == TreeOf(session, role)
<1>2. PICK q : q = Top.at
  OBVIOUS
<1>3. /\ IsSession(session) /\ role \in DOMAIN session.root
      /\ OneParent(session, role) /\ ShortLoops(session, role) /\ n \in Node
  BY DEF IInv, TypeOK, Shaped
<1>4. PICK g : /\ session.kids[n] = <<g>> /\ KidsOf(session, n) = {g}
               /\ session.kind[g] = "goto" /\ session.kind[n] # "end"
               /\ session.arg[g] \in DOMAIN states[role]
               /\ states[role][session.arg[g]] = q
  <2>. DEFINE g == session.kids[n][1]
  <2>1. session.kids[n] \in Seq(Node) /\ Len(session.kids[n]) = 1
    BY <1>3 DEF GoesBack, IsSelfLoop, IsSession
  <2>2. session.kids[n] = <<g>>
    BY <2>1
  <2>3. KidsOf(session, n) = {g}
    BY <2>1 DEF KidsOf
  <2>. QED  BY <1>2, <2>2, <2>3 DEF GoesBack, IsSelfLoop
<1>5. Len(s) = 1 /\ s[1] = Link(n, q, q)
  BY <1>2 DEF CommFrames
<1>6. PICK V2, X : V2 = DOMAIN at \cup {n} \cup X /\ X = {g}
  OBVIOUS
<1>7. /\ FramesApart(role, V2)' /\ V2 \subseteq T
      /\ \A m \in V2 : Rooted(role, V2, m)'
      /\ n \notin DOMAIN at /\ g \notin DOMAIN at /\ g # n
  <2>1. \A i \in 1..Len(s) : s[i].do # "visit"
    BY <1>5 DEF Link
  <2>2. X \subseteq KidsOf(session, n) /\ g \in KidsOf(session, n)
    BY <1>4, <1>6
  <2>. QED  BY <1>6, <2>1, <2>2, FramesStayApart
<1>8. PICK at2 : at2 = [x \in V2 |-> IF x \in DOMAIN at THEN at[x] ELSE q]
  OBVIOUS
<1>9. /\ V2 = DOMAIN at2 /\ DOMAIN at2 = DOMAIN at \cup {n} \cup {g}
      /\ DOMAIN at \subseteq DOMAIN at2
      /\ \A m \in DOMAIN at : at2[m] = at[m]
      /\ n \in DOMAIN at2 /\ at2[n] = q /\ g \in DOMAIN at2 /\ at2[g] = q
  BY <1>6, <1>7, <1>8
<1>10. /\ \A k, x : Sent(role, at, k, x) => Sent(role, at2, k, x)'
       /\ \A m, x, x1 : (\E i \in DOMAIN work : work[i] = Link(m, x, x1)) =>
                            \E i \in DOMAIN work' : work'[i] = Link(m, x, x1)
       /\ \A i \in 1..Len(s) : i \in DOMAIN work' /\ work'[i] = s[i]
  BY <1>2, <1>9, SentOn
<1>11. /\ Sent(role, at2, session.root[role], Start)'
       /\ \A m \in DOMAIN at : NodeMapped(role, at2, m)'
  <2>1. \A l \in DOMAIN at : session.kind[l] = "label" =>
           /\ session.arg[l] \in DOMAIN states'[role]
           /\ states'[role][session.arg[l]] = states[role][session.arg[l]]
    BY DEF Mapped, NodeMapped
  <2>2. trans' = trans /\ UNCHANGED <<session, role>>
    OBVIOUS
  <2>. QED  BY <1>9, <1>10, <2>1, <2>2, MappedOld
<1>12. n \in T /\ g \in T
  BY <1>6, <1>7
<1>13. NodeMapped(role, at2, n)'
  <2>1. CommMapped(role, at2, n, q)'
    <3>1. 1 \in DOMAIN work' /\ work'[1] = Link(n, at2[n], q)
      BY <1>5, <1>9, <1>10
    <3>2. \A k \in KidsOf(session, n) : Sent(role, at2, k, q)'
      BY <1>4, <1>9 DEF Sent
    <3>3. ASSUME NEW g2 \in T, NEW l \in T, IsLoop(session, n, g2, l)
          PROVE  l \in DOMAIN at2 /\ (at2[l] = at2[n] => q = at2[n])
      BY <1>9, <3>3, LoopLabelVisited
    <3>4. \E i \in DOMAIN work' : work'[i] = Link(n, at2[n], q)
      BY <3>1
    <3>5. (\E i \in DOMAIN work : work[i] = Link(n, at2[n], q))'
      BY <3>4 DEF Link
    <3>. QED  BY <3>2, <3>3, <3>5 DEF CommMapped
  <2>2. session.kind[n] \notin {"skip", "label", "goto"}
    BY DEF CommKind
  <2>. QED  BY <2>1, <2>2 DEF NodeMapped
<1>14. NodeMapped(role, at2, g)'
  <2>1. PICK l \in T : Jumps(session, g, l)
    BY <1>3, <1>4, <1>12, LabelInTree
  <2>2. IsLoop(session, n, g, l)
    BY <1>4, <2>1 DEF IsLoop
  <2>3. l \in DOMAIN at
    BY <2>2, LoopLabelVisited
  <2>4. KidsOf(session, g) = {}
    BY <1>3, <1>4, <1>12, LoopKidless
  <2>5. session.kind[g] \notin CommKind
    BY <1>4 DEF CommKind
  <2>. QED  BY <1>4, <1>9, <2>1, <2>3, <2>4, <2>5 DEF NodeMapped
<1>15. \A m \in DOMAIN at2 : NodeMapped(role, at2, m)'
  BY <1>9, <1>11, <1>13, <1>14
<1>16. /\ FramesApart(role, DOMAIN at2)' /\ DOMAIN at2 \subseteq T
       /\ \A m \in DOMAIN at2 : Rooted(role, DOMAIN at2, m)'
  BY <1>7, <1>9
<1>. QED  BY <1>11, <1>15, <1>16 DEF Mapped

\* A communication that leads to a new state.
LEMMA ForthMapped ==
    ASSUME IInv, role \in roles, Shaped(role), NEW at, Mapped(role, at), VisitComm,
           NEW n, n = Top.node, ~GoesBack(n, Top.at),
           NEW s, Replaces(work', s, work), CommFrames(s, n, Top.at)
    PROVE  \E at2 : Mapped(role, at2)'
<1>. USE TopFrame
<1>1. /\ pc = "roles" /\ work # << >> /\ Top.do = "visit"
      /\ session.kind[n] \in CommKind
      /\ UNCHANGED <<session, role, roles, states, trans>>
  BY DEF VisitComm, Visiting
<1>. USE <1>1
<1>. DEFINE T == TreeOf(session, role)
<1>2. PICK q, q1 : q = Top.at /\ q1 = size[role]
  OBVIOUS
<1>3. IsSession(session) /\ role \in DOMAIN session.root /\ n \in Node
  BY DEF IInv, TypeOK
<1>4. /\ Len(session.kids[n]) \in Nat /\ Len(s) = Len(session.kids[n]) + 1
      /\ \A i \in 1..Len(session.kids[n]) : s[i] = Visit(session.kids[n][i], q1)
      /\ s[Len(s)] = Link(n, q, q1)
  BY <1>2 DEF CommFrames
<1>5. PICK V2, X : V2 = DOMAIN at \cup {n} \cup X /\ X = {}
  OBVIOUS
<1>6. /\ FramesApart(role, V2)' /\ V2 \subseteq T
      /\ \A m \in V2 : Rooted(role, V2, m)'
      /\ n \notin DOMAIN at
  <2>1. ASSUME NEW i \in 1..Len(s), s[i].do = "visit"
        PROVE  i \in 1..Len(session.kids[n]) /\ s[i].node = session.kids[n][i] /\ X = {}
    <3>1. i # Len(s)
      BY <1>4, <2>1 DEF Link
    <3>2. i \in 1..Len(session.kids[n])
      BY <1>4, <2>1, <3>1
    <3>3. s[i] = Visit(session.kids[n][i], q1)
      BY <1>4, <3>2
    <3>. QED  BY <1>5, <3>2, <3>3 DEF Visit
  <2>. QED  BY <1>5, <2>1, FramesStayApart
<1>7. PICK at2 : at2 = [x \in V2 |-> IF x \in DOMAIN at THEN at[x] ELSE q]
  OBVIOUS
<1>8. /\ V2 = DOMAIN at2 /\ DOMAIN at2 = DOMAIN at \cup {n}
      /\ DOMAIN at \subseteq DOMAIN at2
      /\ \A m \in DOMAIN at : at2[m] = at[m]
      /\ n \in DOMAIN at2 /\ at2[n] = q
  BY <1>5, <1>6, <1>7
<1>9. /\ \A k, x : Sent(role, at, k, x) => Sent(role, at2, k, x)'
      /\ \A m, x, x1 : (\E i \in DOMAIN work : work[i] = Link(m, x, x1)) =>
                           \E i \in DOMAIN work' : work'[i] = Link(m, x, x1)
      /\ \A i \in 1..Len(s) : i \in DOMAIN work' /\ work'[i] = s[i]
  BY <1>2, <1>8, SentOn
<1>10. /\ Sent(role, at2, session.root[role], Start)'
       /\ \A m \in DOMAIN at : NodeMapped(role, at2, m)'
  <2>1. \A l \in DOMAIN at : session.kind[l] = "label" =>
           /\ session.arg[l] \in DOMAIN states'[role]
           /\ states'[role][session.arg[l]] = states[role][session.arg[l]]
    BY DEF Mapped, NodeMapped
  <2>2. trans' = trans /\ UNCHANGED <<session, role>>
    OBVIOUS
  <2>. QED  BY <1>8, <1>9, <2>1, <2>2, MappedOld
<1>11. CommMapped(role, at2, n, q1)'
  <2>1. Len(s) \in DOMAIN work' /\ work'[Len(s)] = Link(n, at2[n], q1)
    <3>1. Len(s) \in 1..Len(s)
      BY <1>4
    <3>. QED  BY <1>4, <1>8, <1>9, <3>1
  <2>2. \A k \in KidsOf(session, n) : Sent(role, at2, k, q1)'
    <3>1. \A i \in 1..Len(session.kids[n]) :
             i \in DOMAIN work' /\ work'[i] = Visit(session.kids[n][i], q1)
      BY <1>4, <1>9
    <3>. QED  BY <3>1, KidsSent
  <2>3. ASSUME NEW g \in T, NEW l \in T, IsLoop(session, n, g, l)
        PROVE  l \in DOMAIN at2 /\ (at2[l] = at2[n] => q1 = at2[n])
    <3>1. /\ l \in DOMAIN at /\ session.arg[g] \in DOMAIN states[role]
          /\ states[role][session.arg[g]] = at[l]
      BY <2>3, LoopLabelVisited
    <3>2. at[l] # q
      <4>1. /\ session.kids[n] = <<g>> /\ session.kind[g] = "goto"
            /\ session.kind[n] # "end"
        BY <2>3 DEF IsLoop, Jumps
      <4>2. Len(session.kids[n]) = 1 /\ session.kids[n][1] = g
        BY <4>1
      <4>. QED  BY <1>2, <3>1, <4>1, <4>2 DEF GoesBack, IsSelfLoop
    <3>. QED  BY <1>8, <3>1, <3>2
  <2>4. (\E i \in DOMAIN work : work[i] = Link(n, at2[n], q1))'
    BY <2>1 DEF Link
  <2>. QED  BY <2>2, <2>3, <2>4 DEF CommMapped
<1>12. NodeMapped(role, at2, n)'
  <2>1. session.kind[n] \notin {"skip", "label", "goto"}
    BY DEF CommKind
  <2>. QED  BY <1>11, <2>1 DEF NodeMapped
<1>13. \A m \in DOMAIN at2 : NodeMapped(role, at2, m)'
  BY <1>8, <1>10, <1>12
<1>14. /\ FramesApart(role, DOMAIN at2)' /\ DOMAIN at2 \subseteq T
       /\ \A m \in DOMAIN at2 : Rooted(role, DOMAIN at2, m)'
  BY <1>6, <1>8
<1>. QED  BY <1>10, <1>13, <1>14 DEF Mapped

\* A link adds the transition its frame stands for.
LEMMA LinkMapped ==
    ASSUME IInv, role \in roles, NEW at, Mapped(role, at), LinkComm
    PROVE  Mapped(role, at)'
<1>. USE TopFrame
<1>1. /\ pc = "roles" /\ work # << >> /\ Top.do = "link"
      /\ UNCHANGED <<session, role, roles, states>>
  BY DEF LinkComm
<1>. USE <1>1
<1>2. CASE OnNil
  BY <1>2, MappedKept DEF LinkComm
<1>3. CASE ~OnNil
  <2>. DEFINE c == Comm(session, Top.node)
              e == Edge(Top.at, c.dir, c.peer, c.msg, Top.to)
  <2>1. trans' = [trans EXCEPT ![role] = @ \cup {e}] /\ work' = Tail(work)
    BY <1>3 DEF LinkComm
  <2>2. trans'[role] = trans[role] \cup {e}
    BY <2>1 DEF IInv, TypeOK
  <2>3. /\ DOMAIN work = 1..Len(work) /\ Len(work) \in Nat /\ work[1] = Top
        /\ DOMAIN work' = 1..(Len(work) - 1)
        /\ \A i \in 1..(Len(work) - 1) : work'[i] = work[i+1]
    <3>1. work \in Seq(Frame) /\ DOMAIN work = 1..Len(work) /\ Len(work) \in Nat
      BY LenProperties DEF IInv, TypeOK
    <3>2. /\ Tail(work) \in Seq(Frame) /\ Len(Tail(work)) = Len(work) - 1
          /\ \A i \in 1..Len(Tail(work)) : Tail(work)[i] = work[i+1]
          /\ DOMAIN Tail(work) = 1..Len(Tail(work))
      BY <3>1, HeadTailProperties, LenProperties
    <3>. QED  BY <2>1, <3>1, <3>2 DEF Top
  <2>4. \A j \in DOMAIN work : work[j] = Top \/ \E i \in DOMAIN work' : work'[i] = work[j]
    <3>. TAKE j \in DOMAIN work
    <3>1. CASE j = 1
      BY <2>3, <3>1
    <3>2. CASE j # 1
      <4>. DEFINE i == j - 1
      <4>1. i \in 1..(Len(work) - 1) /\ i + 1 = j
        BY <2>3, <3>2
      <4>. HIDE DEF i
      <4>. QED  BY <2>3, <4>1
    <3>. QED  BY <3>1, <3>2
  <2>5. ASSUME NEW k, NEW q, Sent(role, at, k, q) PROVE Sent(role, at, k, q)'
    <3>1. CASE k \in DOMAIN at /\ at[k] = q
      BY <3>1 DEF Sent
    <3>2. CASE \E j \in DOMAIN work : work[j] = Visit(k, q)
      <4>1. PICK j \in DOMAIN work : work[j] = Visit(k, q)
        BY <3>2
      <4>2. work[j] # Top
        BY <4>1 DEF Visit
      <4>3. \E i \in DOMAIN work' : work'[i] = Visit(k, q)
        BY <2>4, <4>1, <4>2
      <4>4. (\E i \in DOMAIN work : work[i] = Visit(k, q))'
        BY <4>3 DEF Visit
      <4>. QED  BY <4>4 DEF Sent
    <3>. QED  BY <2>5, <3>1, <3>2 DEF Sent
  <2>6. ASSUME NEW n, NEW q, NEW q1, \E j \in DOMAIN work : work[j] = Link(n, q, q1)
        PROVE  \/ \E i \in DOMAIN work' : work'[i] = Link(n, q, q1)
               \/ LET d == Comm(session, n)
                  IN  Edge(q, d.dir, d.peer, d.msg, q1) \in trans'[role]
    <3>1. PICK j \in DOMAIN work : work[j] = Link(n, q, q1)
      BY <2>6
    <3>2. CASE work[j] = Top
      <4>1. Top.node = n /\ Top.at = q /\ Top.to = q1
        BY <3>1, <3>2 DEF Link
      <4>. QED  BY <2>2, <4>1
    <3>. QED  BY <2>4, <3>1, <3>2
  <2>7. \A n, q, q1 : LET d == Comm(session, n)
                      IN  Edge(q, d.dir, d.peer, d.msg, q1) \in trans[role] =>
                            Edge(q, d.dir, d.peer, d.msg, q1) \in trans'[role]
    BY <2>2
  <2>8. \A l \in DOMAIN at : session.kind[l] = "label" =>
           /\ session.arg[l] \in DOMAIN states'[role]
           /\ states'[role][session.arg[l]] = states[role][session.arg[l]]
    BY DEF Mapped, NodeMapped
  <2>. HIDE DEF e
  <2>9. /\ Sent(role, at, session.root[role], Start)'
        /\ \A n \in DOMAIN at : NodeMapped(role, at, n)'
    BY <2>5, <2>6, <2>7, <2>8, MappedOld
  <2>10. FramesApart(role, DOMAIN at)'
    <3>1. FramesApart(role, DOMAIN at)
      BY DEF Mapped
    <3>2. ASSUME NEW i \in DOMAIN work', work'[i].do = "visit"
          PROVE  work'[i].node \in TreeOf(session, role) \ DOMAIN at /\ Rooted(role, DOMAIN at, work'[i].node)
      <4>1. i + 1 \in DOMAIN work /\ work'[i] = work[i+1]
        BY <2>3
      <4>. QED  BY <3>1, <3>2, <4>1 DEF FramesApart
    <3>3. ASSUME NEW i \in DOMAIN work', NEW j \in DOMAIN work', i < j,
                 work'[i].do = "visit", work'[j].do = "visit"
          PROVE  /\ work'[i].node # work'[j].node
                 /\ \A g \in Below(session, work'[i].node), l \in Below(session, work'[j].node) :
                       ~Jumps(session, g, l)
      <4>1. /\ i + 1 \in DOMAIN work /\ work'[i] = work[i+1]
            /\ j + 1 \in DOMAIN work /\ work'[j] = work[j+1]
            /\ i + 1 < j + 1
        BY <2>3, <3>3
      <4>. QED  BY <3>1, <3>3, <4>1 DEF FramesApart
    <3>. QED  BY <3>2, <3>3 DEF FramesApart, Rooted
  <2>. QED  BY <2>9, <2>10 DEF Mapped, Rooted
<1>. QED  BY <1>2, <1>3

\* At the beginning the root is sent to the start.
LEMMA BeginMapped ==
    ASSUME IInv, NEW r \in Role, BeginRole(r)
    PROVE  \E at : Mapped(r, at)'
<1>1. /\ r \in todo /\ role' = r /\ session' = session
      /\ work' = <<Visit(session.root[r], Start)>>
  BY DEF BeginRole
<1>2. IsSession(session) /\ r \in DOMAIN session.root
  BY <1>1 DEF IInv, TypeOK
<1>3. PICK at : at = [x \in {} |-> 0]
  OBVIOUS
<1>4. DOMAIN at = {} /\ session.root[r] \in TreeOf(session, r)
  BY <1>2, <1>3, TreeIs
<1>5. DOMAIN work' = {1} /\ work'[1] = Visit(session.root[r], Start)
  BY <1>1
<1>6. Sent(r, at, session.root[r], Start)'
  BY <1>1, <1>5 DEF Sent, Visit, Start
<1>7. FramesApart(r, DOMAIN at)'
  BY <1>1, <1>4, <1>5 DEF FramesApart, Rooted, Visit
<1>. QED  BY <1>4, <1>6, <1>7 DEF Mapped

\* Every step keeps the machines of the roles mapped.
LEMMA NextMapped ==
    ASSUME IInv, RolesMapped, [Next]_vars
    PROVE  RolesMapped'
<1>. SUFFICES ASSUME NEW r \in roles', Shaped(r)' PROVE \E at : Mapped(r, at)'
  BY DEF RolesMapped
<1>0. roles \subseteq Role /\ \A x \in roles : x \in DOMAIN session.root
  BY DEF IInv, TypeOK, IsSession
<1>1. CASE VisitSkip \/ VisitLabel \/ VisitGoto \/ VisitComm \/ LinkComm
  <2>1. /\ pc = "roles" /\ work # << >>
        /\ UNCHANGED <<session, role, roles>>
    BY <1>1 DEF VisitSkip, VisitLabel, VisitGoto, VisitComm, LinkComm, Visiting
  <2>2. Shaped(r)
    BY <2>1 DEF Shaped
  <2>3. PICK at : Mapped(r, at)
    BY <2>1, <2>2 DEF RolesMapped
  <2>4. CASE r = role
    <3>1. CASE VisitSkip \/ VisitLabel \/ VisitGoto
      BY <2>1, <2>2, <2>3, <2>4, <3>1, OtherMapped
    <3>2. CASE VisitComm
      <4>1. CASE UNCHANGED <<work, size>>
        <5>1. UNCHANGED <<states, trans>>
          BY <3>2 DEF VisitComm
        <5>. QED  BY <2>1, <2>3, <4>1, <5>1, MappedKept
      <4>2. CASE ~UNCHANGED <<work, size>>
        <5>1. PICK n : n = Top.node
          OBVIOUS
        <5>2. PICK s : Replaces(work', s, work) /\ CommFrames(s, n, Top.at)
          BY <3>2, <4>2, <5>1, CommPushed
        <5>3. CASE GoesBack(n, Top.at)
          BY <2>1, <2>2, <2>3, <2>4, <3>2, <5>1, <5>2, <5>3, BackMapped
        <5>4. CASE ~GoesBack(n, Top.at)
          BY <2>1, <2>2, <2>3, <2>4, <3>2, <5>1, <5>2, <5>4, ForthMapped
        <5>. QED  BY <5>3, <5>4
      <4>. QED  BY <4>1, <4>2
    <3>3. CASE LinkComm
      BY <2>1, <2>3, <2>4, <3>3, LinkMapped
    <3>. QED  BY <1>1, <3>1, <3>2, <3>3
  <2>5. CASE r # role
    <3>1. r \in Role /\ role \in Role
      BY <1>0, <2>1, TopFrame
    <3>2. trans'[r] = trans[r]
      BY <1>1, <2>5, <3>1 DEF VisitSkip, VisitLabel, VisitGoto, VisitComm, LinkComm,
                              IInv, TypeOK, Machine
    <3>3. states'[r] = states[r]
      BY <1>1, <2>5, <3>1 DEF VisitSkip, VisitLabel, VisitGoto, VisitComm, LinkComm,
                              IInv, TypeOK
    <3>. QED  BY <2>1, <2>3, <2>5, <3>2, <3>3, MappedKept
  <2>. QED  BY <2>4, <2>5
<1>2. ASSUME NEW x \in Role, BeginRole(x) PROVE \E at : Mapped(r, at)'
  <2>1. /\ role = NoRole /\ role' = x /\ roles' = roles \cup {x}
        /\ UNCHANGED <<session, states, trans>>
    BY <1>2 DEF BeginRole
  <2>2. CASE r = x
    BY <1>2, <2>2, BeginMapped
  <2>3. CASE r # x
    <3>1. r \in roles /\ Shaped(r) /\ r # NoRole
      BY <1>0, <2>1, <2>3, NameAssumption DEF Shaped
    <3>2. PICK at : Mapped(r, at)
      BY <3>1 DEF RolesMapped
    <3>. QED  BY <2>1, <2>3, <3>1, <3>2, MappedKept
  <2>. QED  BY <2>2, <2>3
<1>3. CASE EndRole
  <2>1. /\ role' = NoRole /\ work = << >> /\ UNCHANGED <<session, work, trans>>
        /\ \/ roles' = roles /\ states' = states
           \/ roles' = roles \ {role} /\ states' = [states EXCEPT ![role] = << >>]
    BY <1>3 DEF EndRole
  <2>2. r \in roles /\ r # NoRole /\ Shaped(r)
    BY <1>0, <2>1, NameAssumption DEF Shaped
  <2>3. PICK at : Mapped(r, at)
    BY <2>2 DEF RolesMapped
  <2>4. states'[r] = states[r]
    BY <1>0, <2>1, <2>2 DEF IInv, TypeOK
  <2>. QED  BY <2>1, <2>2, <2>3, <2>4, MappedKept
<1>4. CASE ChanToMachine
  <2>1. /\ UNCHANGED <<session, role, work, roles, states>>
        /\ Head(deferred) \in Chan
        /\ \E E : trans' = [trans EXCEPT ![Head(deferred)] = E]
    <3>1. UNCHANGED <<session, role, work, roles, states>> /\ deferred # << >>
      BY <1>4 DEF ChanToMachine
    <3>2. Head(deferred) \in Chan
      BY <3>1 DEF IInv, TypeOK
    <3>3. PICK mid \in Numbering(Relayed) :
             trans' = [trans EXCEPT ![Head(deferred)] = RelayEdges(Relayed, mid)]
      BY <1>4 DEF ChanToMachine
    <3>. QED  BY <3>1, <3>2, <3>3
  <2>2. PICK at : Mapped(r, at)
    BY <2>1 DEF RolesMapped, Shaped
  <2>3. r # Head(deferred)
    BY <1>0, <2>1, NameAssumption
  <2>4. trans'[r] = trans[r]
    BY <2>1, <2>3 DEF IInv, TypeOK
  <2>. QED  BY <2>1, <2>2, <2>4, MappedKept
<1>5. CASE \/ (\E c \in Chan : MakeChanMachine(c)) \/ ChansMade \/ RolesMade
           \/ Return \/ Terminated \/ UNCHANGED vars
  <2>1. UNCHANGED <<session, role, work, roles, states, trans>>
    BY <1>5 DEF MakeChanMachine, ChansMade, RolesMade, Return, Terminated, vars
  <2>2. PICK at : Mapped(r, at)
    BY <2>1 DEF RolesMapped, Shaped
  <2>. QED  BY <2>1, <2>2, MappedKept
<1>. QED  BY <1>1, <1>2, <1>3, <1>4, <1>5 DEF Next

-----------------------------------------------------------------------------
(* What a finished mapping says of the machine.                            *)

\* Every node of the tree of role r has a state, at; the transition of a
\* communication leads to that of its children.
Settled(r, at) ==
    /\ DOMAIN at = TreeOf(session, r)
    /\ at[session.root[r]] = Start
    /\ \A n \in TreeOf(session, r) :
         /\ session.kind[n] \in {"skip", "label"} =>
               \A k \in KidsOf(session, n) : at[k] = at[n]
         /\ session.kind[n] = "goto" =>
               \E l \in TreeOf(session, r) : /\ Jumps(session, n, l)
                                             /\ \A k \in KidsOf(session, n) : at[k] = at[l]
         /\ session.kind[n] \in CommKind =>
               \E q1 : /\ LET c == Comm(session, n)
                          IN  Edge(at[n], c.dir, c.peer, c.msg, q1) \in trans[r]
                       /\ \A k \in KidsOf(session, n) : at[k] = q1
                       /\ \A g, l \in TreeOf(session, r) :
                             IsLoop(session, n, g, l) /\ at[l] = at[n] => q1 = at[n]

\* When no frame is left, the nodes mapped are those of the tree.
LEMMA MappedSettled ==
    ASSUME IInv, role = NoRole, NEW r \in roles, NEW at, Mapped(r, at)
    PROVE  Settled(r, at)
<1>. DEFINE T == TreeOf(session, r)
            V == DOMAIN at
<1>1. IsSession(session) /\ r \in DOMAIN session.root /\ r # role
  BY NameAssumption DEF IInv, TypeOK, IsSession
<1>2. \A k, q : Sent(r, at, k, q) => k \in V /\ at[k] = q
  BY <1>1 DEF Sent
<1>3. \A n, q1 : CommMapped(r, at, n, q1) =>
         /\ LET c == Comm(session, n)
            IN  Edge(at[n], c.dir, c.peer, c.msg, q1) \in trans[r]
         /\ \A k \in KidsOf(session, n) : k \in V /\ at[k] = q1
         /\ \A g, l \in T : IsLoop(session, n, g, l) /\ at[l] = at[n] => q1 = at[n]
  BY <1>1, <1>2 DEF CommMapped
<1>4. V \subseteq T /\ session.root[r] \in V /\ at[session.root[r]] = Start
  BY <1>2 DEF Mapped
<1>5. \A n \in V : NodeMapped(r, at, n)
  BY DEF Mapped
<1>6. \A n \in V : KidsOf(session, n) \subseteq V
  <2>1. TAKE n \in V
  <2>2. session.kind[n] \in Kind
    BY <1>1, <1>4, TreeIs DEF IsSession
  <2>. QED  BY <1>2, <1>3, <1>5, <2>2 DEF NodeMapped, Kind
<1>7. T \subseteq V
  <2>1. session.root[r] \in Node
    BY <1>1 DEF IsSession
  <2>. HIDE DEF V
  <2>. QED  BY <1>1, <1>4, <1>6, <2>1, BelowWithin DEF TreeOf
<1>8. V = T
  BY <1>4, <1>7
<1>9. ASSUME NEW n \in T
      PROVE  /\ session.kind[n] \in {"skip", "label"} =>
                   \A k \in KidsOf(session, n) : at[k] = at[n]
             /\ session.kind[n] = "goto" =>
                   \E l \in T : /\ Jumps(session, n, l)
                                /\ \A k \in KidsOf(session, n) : at[k] = at[l]
  BY <1>2, <1>5, <1>8 DEF NodeMapped
<1>10. ASSUME NEW n \in T, session.kind[n] \in CommKind
       PROVE  \E q1 : /\ LET c == Comm(session, n)
                         IN  Edge(at[n], c.dir, c.peer, c.msg, q1) \in trans[r]
                      /\ \A k \in KidsOf(session, n) : at[k] = q1
                      /\ \A g, l \in T : IsLoop(session, n, g, l) /\ at[l] = at[n] => q1 = at[n]
  <2>1. PICK q1 : CommMapped(r, at, n, q1)
    BY <1>5, <1>8, <1>10 DEF NodeMapped
  <2>. QED  BY <1>3, <2>1
<1>. QED  BY <1>4, <1>8, <1>9, <1>10 DEF Settled

\* The nodes R are at state q.
AllAt(r, at, R, q) == \A n \in R : n \in TreeOf(session, r) /\ at[n] = q

\* What follows a label, or a goto to it, is at the state of the label.
LEMMA LabelKids ==
    ASSUME NEW r, NEW at, Settled(r, at), LabelsFirst(session, r),
           NEW l \in TreeOf(session, r), session.kind[l] = "label",
           NEW m \in SameLabel(session, TreeOf(session, r), l), NEW k \in KidsOf(session, m)
    PROVE  at[k] = at[l]
<1>1. /\ m \in TreeOf(session, r) /\ session.kind[m] \in {"label", "goto"}
      /\ session.arg[m] = session.arg[l]
  BY DEF SameLabel
<1>2. CASE session.kind[m] = "label"
  <2>1. m = l
    BY <1>1, <1>2 DEF LabelsFirst
  <2>. QED  BY <1>2, <2>1 DEF Settled
<1>3. CASE session.kind[m] = "goto"
  <2>1. PICK o \in TreeOf(session, r) : Jumps(session, m, o) /\ at[k] = at[o]
    BY <1>1, <1>3 DEF Settled
  <2>2. o = l
    BY <1>1, <2>1 DEF Jumps, LabelsFirst
  <2>. QED  BY <2>1, <2>2
<1>. QED  BY <1>1, <1>2, <1>3

\* The nodes that the session puts at one state are at one state.
LEMMA RegionAt ==
    ASSUME IInv, NEW r \in roles, NEW at, Settled(r, at), LabelsFirst(session, r),
           NEW R \in Regions(session, r)
    PROVE  \E q : AllAt(r, at, R, q)
<1>. DEFINE T == TreeOf(session, r)
<1>1. IsSession(session) /\ r \in DOMAIN session.root
  BY DEF IInv, TypeOK
<1>2. PICK P \in Starts(session, r) : R = Region(session, r, P)
  BY DEF Regions, Starts
<1>3. P \in SUBSET T
  BY <1>1, StartsInTree
<1>4. PICK q : \A n \in P : at[n] = q
  <2>1. CASE P = {session.root[r]}
    BY <2>1
  <2>2. CASE P # {session.root[r]}
    <3>1. PICK c \in T : session.kind[c] \in CommKind /\ P = KidsOf(session, c)
      BY <1>2, <2>2 DEF Starts, Comms
    <3>. QED  BY <3>1 DEF Settled
  <2>. QED  BY <2>1, <2>2
<1>. DEFINE S == {n \in T : at[n] = q}
<1>5. P \subseteq S
  BY <1>3, <1>4
<1>6. \A n \in S \cap T : KidsAt(session, r, n) \subseteq S
  <2>1. TAKE n \in S \cap T
  <2>2. CASE session.kind[n] = "skip"
    <3>1. KidsAt(session, r, n) = KidsOf(session, n) /\ KidsOf(session, n) \subseteq T
      BY <1>1, <2>2, TreeIs DEF KidsAt
    <3>. QED  BY <2>2, <3>1 DEF Settled
  <2>3. CASE session.kind[n] = "label"
    <3>1. KidsAt(session, r, n) = UNION {KidsOf(session, m) : m \in SameLabel(session, T, n)}
      BY <2>3 DEF KidsAt
    <3>2. ASSUME NEW m \in SameLabel(session, T, n), NEW k \in KidsOf(session, m)
          PROVE  k \in S
      <4>1. k \in T
        BY <1>1, TreeIs DEF SameLabel
      <4>2. at[k] = at[n]
        BY <2>3, LabelKids
      <4>. QED  BY <4>1, <4>2
    <3>. QED  BY <3>1, <3>2
  <2>4. CASE session.kind[n] \notin {"skip", "label"}
    BY <2>4 DEF KidsAt
  <2>. QED  BY <2>2, <2>3, <2>4
<1>. HIDE DEF S
<1>7. R \subseteq S
  BY <1>1, <1>2, <1>3, <1>5, <1>6, RegionWithin
<1>. QED  BY <1>7 DEF S, AllAt

\* A goto that jumps back over at most one communication is at the state of
\* its label.
LEMMA GotoAt ==
    ASSUME IInv, NEW r \in roles, NEW at, Settled(r, at), LabelsFirst(session, r),
           ShortLoops(session, r), NEW g \in TreeOf(session, r), session.kind[g] = "goto"
    PROVE  \E l \in TreeOf(session, r) : Jumps(session, g, l) /\ at[g] = at[l]
<1>1. PICK R \in Regions(session, r) : \E l \in R :
         /\ Jumps(session, g, l)
         /\ \/ g \in R
            \/ \E c \in R : IsLoop(session, c, g, l)
  BY DEF ShortLoops
<1>2. PICK l \in R : /\ Jumps(session, g, l)
                     /\ g \in R \/ \E c \in R : IsLoop(session, c, g, l)
  BY <1>1
<1>3. PICK q : \A n \in R : n \in TreeOf(session, r) /\ at[n] = q
  <2>1. \E q : AllAt(r, at, R, q)
    BY RegionAt
  <2>. QED  BY <2>1 DEF AllAt
<1>4. CASE g \in R
  BY <1>2, <1>3, <1>4
<1>5. ASSUME NEW c \in R, IsLoop(session, c, g, l) PROVE at[g] = at[l]
  <2>1. session.kind[c] \in CommKind /\ g \in KidsOf(session, c)
    BY <1>5 DEF IsLoop, KidsOf
  <2>2. c \in TreeOf(session, r) /\ l \in TreeOf(session, r) /\ at[l] = at[c]
    BY <1>3
  <2>. QED  BY <1>5, <2>1, <2>2 DEF Settled
<1>. QED  BY <1>2, <1>3, <1>4, <1>5

\* The points a role can be at together are at one state.
LEMMA FromAt ==
    ASSUME IInv, NEW r \in roles, NEW at, Settled(r, at), LabelsFirst(session, r),
           ShortLoops(session, r), NEW P \in SUBSET TreeOf(session, r), NEW q,
           \A n \in P : at[n] = q
    PROVE  \A n \in From(session, r, P) : at[n] = q
<1>. DEFINE T == TreeOf(session, r)
            S == {n \in T : at[n] = q}
<1>1. IsSession(session) /\ r \in DOMAIN session.root
  BY DEF IInv, TypeOK
<1>2. P \subseteq S
  OBVIOUS
<1>3. \A n \in S \cap T : SilentStep(session, T, n) \subseteq S
  <2>1. TAKE n \in S \cap T
  <2>2. CASE session.kind[n] = "skip"
    <3>1. SilentStep(session, T, n) = KidsOf(session, n) /\ KidsOf(session, n) \subseteq T
      BY <1>1, <2>2, TreeIs DEF SilentStep
    <3>. QED  BY <2>2, <3>1 DEF Settled
  <2>3. CASE session.kind[n] \in {"label", "goto"}
    <3>1. PICK l \in T : /\ session.kind[l] = "label" /\ session.arg[l] = session.arg[n]
                         /\ at[l] = q
      <4>1. CASE session.kind[n] = "label"
        BY <4>1
      <4>2. CASE session.kind[n] = "goto"
        <5>1. PICK l \in T : Jumps(session, n, l) /\ at[n] = at[l]
          BY <4>2, GotoAt
        <5>. QED  BY <5>1 DEF Jumps
      <4>. QED  BY <2>3, <4>1, <4>2
    <3>2. /\ SilentStep(session, T, n) = UNION {KidsOf(session, m) : m \in SameLabel(session, T, n)}
          /\ SameLabel(session, T, n) = SameLabel(session, T, l)
      BY <2>3, <3>1 DEF SilentStep, SameLabel
    <3>3. ASSUME NEW m \in SameLabel(session, T, l), NEW k \in KidsOf(session, m)
          PROVE  k \in S
      <4>1. k \in T
        BY <1>1, TreeIs DEF SameLabel
      <4>2. at[k] = at[l]
        BY <3>1, LabelKids
      <4>. QED  BY <3>1, <4>1, <4>2
    <3>. QED  BY <3>2, <3>3
  <2>4. CASE session.kind[n] \notin {"skip", "label", "goto"}
    BY <2>4 DEF SilentStep
  <2>. QED  BY <2>2, <2>3, <2>4
<1>. HIDE DEF S
<1>4. From(session, r, P) \subseteq S
  BY <1>1, <1>2, <1>3, FromWithin
<1>. QED  BY <1>4 DEF S

\* At the end, the machine follows its session: the state of the points the
\* role is at has a transition for each communication there.
LEMMA MappedWithin ==
    ASSUME IInv, role = NoRole, NEW r \in roles, Shaped(r), NEW at, Mapped(r, at),
           NEW d \in Nat
    PROVE  SessionTraces(session, r, d) \subseteq MachineTraces(r, d)
<1>. DEFINE T == TreeOf(session, r)
            S == {x \in Places(session, r) \X Nat :
                    \A n \in Comms(session, x[1]) : n \in T /\ at[n] = x[2]}
            E == SessionEdges(session, r)
            F == MachineEdges(r)
<1>1. IsSession(session) /\ r \in DOMAIN session.root /\ r \in Machine
  BY DEF IInv, TypeOK, IsSession, Machine
<1>2. Settled(r, at) /\ LabelsFirst(session, r) /\ ShortLoops(session, r)
  BY MappedSettled DEF Shaped
<1>3. ASSUME NEW P \in SUBSET T, NEW q, \A n \in P : at[n] = q
      PROVE  \A n \in Comms(session, From(session, r, P)) : n \in T /\ at[n] = q
  <2>1. From(session, r, P) \subseteq T
    BY <1>1, FromIs
  <2>2. \A n \in From(session, r, P) : at[n] = q
    BY <1>2, <1>3, FromAt
  <2>. QED  BY <2>1, <2>2 DEF Comms
<1>4. <<Begin(session, r), Start>> \in S
  <2>1. {session.root[r]} \in SUBSET T
    BY <1>1, TreeIs
  <2>2. at[session.root[r]] = Start
    BY <1>2 DEF Settled
  <2>3. Begin(session, r) = From(session, r, {session.root[r]}) /\ Begin(session, r) \in Places(session, r)
    BY DEF Begin, Places
  <2>4. \A n \in Comms(session, Begin(session, r)) : n \in T /\ at[n] = Start
    <3>1. \A n \in {session.root[r]} : at[n] = Start
      BY <2>2
    <3>. QED  BY <1>3, <2>1, <2>3, <3>1
  <2>. QED  BY <2>3, <2>4 DEF Start
<1>5. ASSUME NEW e \in E, NEW b, <<e[1], b>> \in S
      PROVE  \E f \in F : f[1] = b /\ f[2] = e[2] /\ <<e[3], f[3]>> \in S
  <2>0. PICK P \in Places(session, r) : \E n \in Comms(session, P) :
           e = <<P, Comm(session, n), After(session, r, n)>>
    BY DEF SessionEdges
  <2>1. PICK n \in Comms(session, P) : e = <<P, Comm(session, n), After(session, r, n)>>
    BY <2>0
  <2>2. n \in T /\ at[n] = b /\ session.kind[n] \in CommKind
    BY <1>5, <2>1 DEF Comms
  <2>3. PICK q1 : /\ LET c == Comm(session, n)
                     IN  Edge(at[n], c.dir, c.peer, c.msg, q1) \in trans[r]
                  /\ \A k \in KidsOf(session, n) : at[k] = q1
    BY <1>2, <2>2 DEF Settled
  <2>. DEFINE c == Comm(session, n)
              t == Edge(b, c.dir, c.peer, c.msg, q1)
              f == <<b, c, q1>>
  <2>4. t \in trans[r] /\ t.from = b /\ t.to = q1 /\ t.dir = c.dir /\ t.peer = c.peer
        /\ t.msg = c.msg
    BY <2>2, <2>3 DEF Edge
  <2>5. q1 \in Nat
    <3>1. trans[r] \subseteq Transition
      BY <1>1 DEF IInv, TypeOK
    <3>. QED  BY <2>4, <3>1 DEF Transition
  <2>6. c = [dir |-> t.dir, peer |-> t.peer, msg |-> t.msg]
    BY <2>4 DEF Comm, Event
  <2>7. f \in F
    <3>. HIDE DEF t, c
    <3>. QED  BY <2>4, <2>6 DEF MachineEdges
  <2>8. KidsOf(session, n) \in SUBSET T
    BY <1>1, <2>2, TreeIs
  <2>9. \A m \in Comms(session, After(session, r, n)) : m \in T /\ at[m] = q1
    BY <1>3, <2>3, <2>8 DEF After
  <2>10. After(session, r, n) \in Places(session, r)
    BY <2>2, PlacesAre
  <2>11. <<After(session, r, n), q1>> \in S
    BY <2>5, <2>9, <2>10
  <2>12. f[1] = b /\ f[2] = e[2] /\ e[3] = After(session, r, n) /\ f[3] = q1
    BY <2>1
  <2>. HIDE DEF S, F, f
  <2>. QED  BY <2>7, <2>11, <2>12
<1>. HIDE DEF S, E, F
<1>6. Words(E, Begin(session, r), d) \subseteq Words(F, Start, d)
  BY <1>4, <1>5, WordsSimulated
<1>. QED  BY <1>6 DEF MachineTraces, SessionTraces, E, F

\* To whatever depth, a machine performs all that its session describes, as
\* long as the session is a tree with its labels first and no goto jumps over
\* more than one communication.
THEOREM MachineComplete == Spec => []SessionWithinMachine
<1>1. Init => RolesMapped
  BY DEF Init, RolesMapped
<1>2. IInv /\ RolesMapped /\ [Next]_vars => RolesMapped'
  BY NextMapped
<1>3. IInv /\ RolesMapped => SessionWithinMachine
  <2>. SUFFICES ASSUME IInv, RolesMapped, pc = "done", NEW r \in roles, Shaped(r)
                PROVE  SessionTraces(session, r, Depth) \subseteq MachineTraces(r, Depth)
    BY DEF SessionWithinMachine, Shaped
  <2>1. role = NoRole
    BY DEF IInv
  <2>2. PICK at : Mapped(r, at)
    BY DEF RolesMapped
  <2>. QED  BY <2>1, <2>2, MappedWithin, DepthAssumption
<1>. QED  BY <1>1, <1>2, <1>3, Inductive, PTL DEF Spec
=============================================================================
