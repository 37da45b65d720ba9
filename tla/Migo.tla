-------------------------------- MODULE Migo --------------------------------
(***************************************************************************)
(* Run of migoextract: from a program to MiGo types.  Each function visited *)
(* has a definition, and so has each block that a jump enters first and    *)
(* other edges enter too; the statements of a block go to the current      *)
(* definition of its function.  Loops whose bounds are constant are        *)
(* unrolled: their blocks are visited again.                               *)
(*                                                                         *)
(* The recursion of visitBasicBlock is a stack of work items, top first:   *)
(*   block    visitBasicBlock of block b                                   *)
(*   ins      its loop over the instructions, at instruction i             *)
(*   back     visitJump after the visit of a new definition; at is the old *)
(*   else     visitIf after its first branch, endif after its second       *)
(*   case     visitIf after a case of a select, default after its default; *)
(*            at is the select                                             *)
(*   called   call after the visit of the callee, whose frame is at        *)
(*   defers   the loop of visitRunDefers, at deferred call i, deferred     *)
(*            after the visit of the callee, whose frame is at             *)
(* each in a frame fr, that is, a Function, with its Loop.  Loops, selects  *)
(* and definitions are shared by reference, as in the code.  Registers are *)
(* not modelled: an instruction names its channel, and parameters are left *)
(* out.                                                                    *)
(*                                                                         *)
(* Statements carry the number of their line, which is cut out of a        *)
(* position at its colon.  An If and a rundefers have no position in       *)
(* golang.org/x/tools: it is printed as a dash, there is nothing after a   *)
(* colon, and the index out of range is a panic.                           *)
(***************************************************************************)
EXTENDS Programs, Closures

CONSTANTS Program,     \* the programs that may be analysed
          MaxFrames,   \* the frames and
          MaxStmts     \* the statements of a definition for which there is memory

ASSUME MigoMemoryAssumption == MaxFrames \in Nat /\ MaxStmts \in Nat

\* What golang.org/x/tools builds: a block has an instruction, an If two successors
\* and a jump one; calls are of functions of the program.
CalledBy(i) ==
    (IF i.op \in {"call", "callclosure", "go"} THEN {i.x} ELSE {}) \cup
    (IF i.op = "defer" /\ i.args[1].op = "call" THEN {i.args[1].x} ELSE {})
NumbersOf(i) ==
    (IF i.op \in CmpOps THEN {i.n} ELSE {}) \cup
    (IF i.op = "phi" /\ i.args[1].op = "const" THEN {i.args[1].n} ELSE {}) \cup
    (IF i.op = "phi" /\ i.args[2].op \in {"add", "sub"} THEN {i.args[2].n} ELSE {})

Branching == {"if", "ifrecv", "ifcmp", "ifsel"}
IsBlock(p, f, b) ==
    LET ins == p[f][b].ins
        succs == p[f][b].succs
    IN  /\ Len(ins) \in Nat \ {0}
        /\ \A k \in 1..Len(succs) : succs[k] \in 1..Len(p[f])
        /\ \A i \in 1..Len(ins) :
              /\ CalledBy(ins[i]) \subseteq DOMAIN p /\ NumbersOf(ins[i]) \subseteq Int
              /\ ins[i].op \in Branching => Len(succs) = 2
              /\ ins[i].op = "jump" => Len(succs) = 1

IsProgram(p) ==
    \A f \in DOMAIN p :
       /\ Len(p[f]) \in Nat /\ DOMAIN p[f] = 1..Len(p[f])
       /\ p[f] # << >> => 1 \in 1..Len(p[f])
       /\ \A b \in 1..Len(p[f]) : IsBlock(p, f, b)

ASSUME MigoProgramAssumption == \A p \in Program : IsProgram(p)

VARIABLES
    prog,      \* the program analysed
    pc,        \* "start", "main", "gortns", or how the run ended: "done",
               \* "crashed" (panic, exit), "overflow" (memory)
    work,      \* the work left
    frames,    \* every Function made
    defs,      \* every migo.Function made
    funcs,     \* the definitions of MigoProg, in order
    loops,     \* every Loop made
    sels,      \* every select visited, with its cases so far
    chans,     \* the channels made so far
    queue,     \* infer.GQueue
    left       \* what is left of it to RunQueue

vars == <<prog, pc, work, frames, defs, funcs, loops, sels, chans, queue, left>>

\* The name of a function, of a block of it, and of a block in iteration k of
\* a loop.
FnName(f)         == <<f, 0, 0, 0>>
BlockName(f, b)   == <<f, b, 0, 0>>
LoopName(f, b, k) == <<f, b, 1, k>>

NoFrame == 0

\* prepareCallFn and NewMainFunction.
Frame(fn, caller, def) ==
    [fn |-> fn, caller |-> caller, def |-> def, visited |-> {}, defers |-> << >>,
     selects |-> {}, loopstack |-> << >>]
Def(name) == [name |-> name, stmts |-> << >>, stack |-> << >>]
\* The Loop of frame k that visitFunc or a nested loop starts with.
NewLoop(k) == [parent |-> k, state |-> "NonLoop", bound |-> "Unknown",
               index_var |-> "", cond |-> "", index |-> 0, start |-> 0,
               step |-> 0, end |-> 0, block |-> 0]

\* A statement: op newchan, send, recv, close or tau on a channel; call or
\* spawn of a definition; select, with its number in sels; if.
NoName == FnName("")
Stmt(op, x)  == [op |-> op, x |-> x, n |-> 0, then |-> << >>, else |-> << >>]
Tau          == Stmt("tau", NoName)
SelStmt(n)   == [Stmt("select", NoName) EXCEPT !.n = n]
IfStmt(s, t) == [Stmt("if", NoName) EXCEPT !.then = s, !.else = t]

Item(do, fr, b, i, l, at) ==
    [do |-> do, fr |-> fr, b |-> b, i |-> i, loop |-> l, at |-> at]

Top == work[1]
Pop == Tail(work)
Fr == frames[Top.fr]
Fn == Fr.fn
Cur == prog[Fn][Top.b].ins[Top.i]
L == loops[Top.loop]
SuccOf(k) == prog[Fn][Top.b].succs[k]
Succ(k) == Item("block", Top.fr, SuccOf(k), 0, Top.loop, 0)
Then(do, at) == [Top EXCEPT !.do = do, !.at = at]

Rest ==
    IF Top.i < Len(prog[Fn][Top.b].ins)
    THEN <<[Top EXCEPT !.i = @ + 1]>> \o Pop
    ELSE Pop

\* A loop unrolled without end ends the program when memory does.
Exhausted ==
    \/ Len(frames) > MaxFrames
    \/ \E d \in DOMAIN defs : Len(defs[d].stmts) + Len(defs[d].stack) > MaxStmts

Running == pc \in {"main", "gortns"} /\ work # << >> /\ ~Exhausted
Doing(k) == Running /\ Top.do = k
OnIns(ops) == Doing("ins") /\ Cur.op \in ops

-----------------------------------------------------------------------------
(* Definitions.                                                            *)

\* AddFunction keeps the first definition of a name.
AddFunction(ds, d) ==
    IF \E j \in DOMAIN funcs : ds[funcs[j]].name = ds[d].name
    THEN funcs
    ELSE Append(funcs, d)

AddStmts(d, ss) == [defs EXCEPT ![d].stmts = @ \o ss]

\* The statements of definition d are put away, for others.
PutAway(d) == [defs EXCEPT ![d].stmts = << >>,
                           ![d].stack = Append(@, defs[d].stmts)]

\* The statements of d are those put away last, and then ss.
Restored(d, ss) ==
    [defs EXCEPT ![d].stmts = Last(defs[d].stack) \o ss,
                 ![d].stack = Front(@)]

-----------------------------------------------------------------------------
(* Loops.                                                                  *)

HasNext_Exclusive(l) == l.bound = "Static" /\ l.start <= l.index /\ l.index < l.end
HasNext(l) == l.bound = "Static" /\ l.start <= l.index /\ l.index <= l.end

\* loopStateTransition at block b with a comment, for loop number l: the
\* loops, the loop from then on, the loop stack of the frame.
Entered(b, state) ==
    [L EXCEPT !.state = state, !.bound = "Unknown", !.block = b]

Transition(b, comment) ==
    LET same(l) == [loops |-> [loops EXCEPT ![Top.loop] = l],
                    loop |-> Top.loop, stack |-> Fr.loopstack]
    IN  CASE L.state = "NonLoop" /\ comment = "for.loop" -> same(Entered(b, "Enter"))
          [] L.state = "NonLoop" /\ comment = "for.body" -> same(Entered(b, "Body"))
          [] L.state = "Enter" /\ comment = "for.body" -> same([L EXCEPT !.state = "Body"])
          [] L.state = "Enter" /\ comment = "for.done" ->
                LET done == same([L EXCEPT !.state = "Exit"])
                IN  IF Fr.loopstack = << >> THEN done
                    ELSE [done EXCEPT !.loop = Last(Fr.loopstack),
                                      !.stack = Front(Fr.loopstack)]
          [] L.state = "Body" /\ comment = "for.loop" ->
                IF L.block = b THEN same([L EXCEPT !.state = "Enter"])
                ELSE [loops |-> Append(loops, [NewLoop(Top.fr) EXCEPT
                                               !.state = "Enter", !.block = b]),
                      loop |-> Len(loops) + 1,
                      stack |-> Append(Fr.loopstack, Top.loop)]
          [] L.state = "Body" /\ comment = "for.done" -> same([L EXCEPT !.state = "Exit"])
          [] L.state = "Exit" ->
                same([L EXCEPT !.state = "NonLoop", !.bound = "Unknown"])
          [] OTHER -> same(L)

-----------------------------------------------------------------------------
Init ==
    /\ prog \in Program
    /\ pc = "start"
    /\ work = << >>
    /\ frames = <<Frame("main", NoFrame, 1)>>
    /\ defs = <<Def(FnName("main"))>>
    /\ funcs = << >>
    /\ loops = << >>
    /\ sels = << >>
    /\ chans = {}
    /\ queue = << >>
    /\ left = << >>

\* visitFunc for frame k of the frames fs, and then rest: the definition is
\* added, and the first block visited with a new Loop.
VisitFunc(k, fs, ds, rest) ==
    /\ funcs' = AddFunction(ds, fs[k].def)
    /\ IF prog[fs[k].fn] = << >>
       THEN work' = rest /\ UNCHANGED loops
       ELSE /\ loops' = Append(loops, NewLoop(k))
            /\ work' = <<Item("block", k, 1, 0, Len(loops) + 1, 0)>> \o rest

\* Of init only the definition is made.  A program without main is a panic.
RunMain ==
    /\ pc = "start"
    /\ IF "main" \in DOMAIN prog
       THEN pc' = "main" /\ VisitFunc(1, frames, defs, << >>)
       ELSE pc' = "crashed" /\ UNCHANGED <<work, funcs, loops>>
    /\ UNCHANGED <<prog, frames, defs, sels, chans, queue, left>>

\* RunQueue ranges over the queue as it is now.
RunQueue ==
    /\ pc = "main"
    /\ work = << >> /\ ~Exhausted
    /\ pc' = "gortns"
    /\ left' = queue
    /\ UNCHANGED <<prog, work, frames, defs, funcs, loops, sels, chans, queue>>

NextGortn ==
    /\ pc = "gortns"
    /\ work = << >> /\ ~Exhausted
    /\ left # << >>
    /\ VisitFunc(Head(left), frames, defs, << >>)
    /\ left' = Tail(left)
    /\ UNCHANGED <<prog, pc, frames, defs, sels, chans, queue>>

EndRun ==
    /\ pc = "gortns"
    /\ work = << >> /\ ~Exhausted
    /\ left = << >>
    /\ pc' = "done"
    /\ UNCHANGED <<prog, work, frames, defs, funcs, loops, sels, chans, queue, left>>

-----------------------------------------------------------------------------
(* Blocks.                                                                 *)

\* A block that was visited is left at once, unless its loop l is being
\* unrolled.
Visits(l, b) == HasNext(l) \/ b \notin Fr.visited
VisitBasicBlock ==
    /\ Doing("block")
    /\ LET t == Transition(Top.b, prog[Fn][Top.b].comment) IN
       /\ loops' = t.loops
       /\ IF Visits(t.loops[t.loop], Top.b)
          THEN /\ frames' = [frames EXCEPT ![Top.fr].loopstack = t.stack,
                                           ![Top.fr].visited = @ \cup {Top.b}]
               /\ work' = <<Item("ins", Top.fr, Top.b, 1, t.loop, 0)>> \o Pop
          ELSE /\ frames' = [frames EXCEPT ![Top.fr].loopstack = t.stack]
               /\ work' = Pop
    /\ UNCHANGED <<prog, pc, defs, funcs, sels, chans, queue, left>>

\* Calls of a block that has, or will have, a definition of its own.
CallOf_Here(b) == Stmt("call", BlockName(Fn, Top.b))
CallOf(b) == Stmt("call", BlockName(Fn, b))

\* The name of the definition of the block that a jump enters.
NewName(b) == IF HasNext(L) THEN LoopName(Fn, b, L.index) ELSE BlockName(Fn, b)

\* A jump to a block that other edges enter is a call; if it is the first to
\* get there, the block is visited in a new definition.
VisitJump ==
    /\ OnIns({"jump"})
    /\ loops' = IF L.state = "Exit"
                THEN [loops EXCEPT ![Top.loop].state = "NonLoop"] ELSE loops
    /\ LET next == SuccOf(1)
           join == Cardinality(Preds(prog, Fn, next)) > 1
           ds   == IF join THEN AddStmts(Fr.def, <<CallOf(next)>>) ELSE defs
       IN  IF join /\ next \notin Fr.visited
           THEN LET new == Append(ds, Def(NewName(next)))
                IN  /\ defs' = new
                    /\ funcs' = AddFunction(new, Len(new))
                    /\ frames' = [frames EXCEPT ![Top.fr].def = Len(new)]
                    /\ work' = <<Succ(1), Then("back", Fr.def)>> \o Pop
           ELSE /\ defs' = ds
                /\ work' = <<Succ(1)>> \o Pop
                /\ UNCHANGED <<funcs, frames>>
    /\ UNCHANGED <<prog, pc, sels, chans, queue, left>>

RestoredDef_New(d) == Fr.def
RestoredDef(d) == d

EndJump ==
    /\ Doing("back")
    /\ frames' = [frames EXCEPT ![Top.fr].def = RestoredDef(Top.at)]
    /\ work' = Pop
    /\ UNCHANGED <<prog, pc, defs, funcs, loops, sels, chans, queue, left>>

-----------------------------------------------------------------------------
(* Instructions.                                                           *)

\* A channel is in locals once it is made, and in globals if init makes it.
Known(c) ==
    c \in chans \/ ("init" \in DOMAIN prog /\ Make(c) \in InstrsOf(prog, "init"))

\* MakeChan, send and receive, and the builtin close; an unknown channel ends
\* the program.
CommOps == {"make", "send", "recv", "recvok"}
StmtOf(i) ==
    Stmt(CASE i.op = "make" -> "newchan" [] i.op = "recvok" -> "recv" [] OTHER -> i.op,
         i.x)
AddComm ==
    /\ IF Cur.op = "make" \/ Known(Cur.x)
       THEN /\ defs' = AddStmts(Fr.def, <<StmtOf(Cur)>>)
            /\ chans' = chans \cup {Cur.x}
            /\ work' = Rest
            /\ UNCHANGED pc
       ELSE pc' = "crashed" /\ UNCHANGED <<work, defs, chans>>
    /\ UNCHANGED <<prog, frames, funcs, loops, sels, queue, left>>
VisitComm == OnIns(CommOps) /\ AddComm
CallClose == OnIns({"close"}) /\ AddComm

\* loopDetectBounds: the first time, the start and the step of the loop;
\* afterwards the next index.
SetInit(l, i) ==
    IF i.args[1].op = "const"
    THEN [l EXCEPT !.index_var = i.x, !.start = i.args[1].n, !.index = i.args[1].n]
    ELSE l
SetStep(l, i) ==
    CASE i.args[2].op = "add" -> [l EXCEPT !.step = i.args[2].n]
      [] i.args[2].op = "sub" -> [l EXCEPT !.step = -i.args[2].n]
      [] OTHER -> l

VisitPhi ==
    /\ OnIns({"phi"})
    /\ loops' = [loops EXCEPT ![Top.loop] =
          CASE L.state = "Enter" /\ L.bound = "Unknown" ->
                  SetStep(SetInit(L, Cur), Cur)
            [] L.state = "Enter" /\ L.bound = "Static" /\ Cur.x = L.index_var ->
                  [L EXCEPT !.index = @ + L.step]
            [] OTHER -> L]
    /\ work' = Rest
    /\ UNCHANGED <<prog, pc, frames, defs, funcs, sels, chans, queue, left>>

\* The last index for which the comparison i holds.
Limit(i) == CASE i.op = "lss" -> i.n - 1 [] i.op = "gtr" -> i.n + 1 [] OTHER -> i.n
Between(l, i) ==
    IF i.op \in {"lss", "leq"} THEN l.start < Limit(i) ELSE l.start > Limit(i)

VisitBinOp ==
    /\ OnIns(CmpOps)
    /\ loops' = [loops EXCEPT ![Top.loop] =
          IF L.state = "Enter" /\ L.bound = "Unknown"
          THEN [L EXCEPT !.cond = Cur.x, !.end = Limit(Cur),
                         !.bound = IF Cur.args # << >> /\ Between(L, Cur)
                                   THEN "Static" ELSE "Dynamic"]
          ELSE L]
    /\ work' = Rest
    /\ UNCHANGED <<prog, pc, frames, defs, funcs, sels, chans, queue, left>>

CallLen ==
    /\ OnIns({"len"})
    /\ loops' = IF L.state = "Enter" THEN [loops EXCEPT ![Top.loop].bound = "Dynamic"]
                ELSE loops
    /\ work' = Rest
    /\ UNCHANGED <<prog, pc, frames, defs, funcs, sels, chans, queue, left>>

\* The number of a new select.
SelNo_Next == Len(sels) + 2
SelNo == Len(sels) + 1

\* The statement of a select is filled in when its index is tested.
VisitSelect ==
    /\ OnIns({"select"})
    /\ IF \A k \in DOMAIN Cur.args : Known(Cur.args[k].x)
       THEN /\ sels' = Append(sels,
                 [id |-> Cur.x, blocking |-> Blocking(Cur),
                  cases |-> [k \in DOMAIN Cur.args |-> <<StmtOf(Cur.args[k])>>]
                            \o (IF Blocking(Cur) THEN << >> ELSE << <<Tau>> >>)])
            /\ frames' = [frames EXCEPT ![Top.fr].selects = @ \cup {SelNo}]
            /\ defs' = AddStmts(Fr.def, <<SelStmt(SelNo)>>)
            /\ work' = Rest
            /\ UNCHANGED pc
       ELSE pc' = "crashed" /\ UNCHANGED <<work, frames, defs, sels>>
    /\ UNCHANGED <<prog, funcs, loops, chans, queue, left>>

\* Return and what is skipped has no statement.
VisitReturn ==
    /\ OnIns({"return", "panic"})
    /\ work' = Rest
    /\ UNCHANGED <<prog, pc, frames, defs, funcs, loops, sels, chans, queue, left>>

-----------------------------------------------------------------------------
(* visitIf.                                                                *)

\* The condition of a loop that is unrolled is known.
Unrolls == OnIns({"ifcmp"}) /\ L.state # "NonLoop" /\ L.bound = "Static" /\ L.cond = Cur.x

VisitIfStatic ==
    /\ Unrolls
    /\ work' = <<Succ(IF HasNext(L) THEN 1 ELSE 2)>> \o Pop
    /\ UNCHANGED <<prog, pc, frames, defs, funcs, loops, sels, chans, queue, left>>

\* A select whose index is tested: any of those with the same index, in the
\* order of a map.
VisitIfSel ==
    /\ OnIns({"ifsel"})
    /\ \E s \in {k \in Fr.selects : sels[k].id = Cur.x} :
          work' = <<Succ(1), Then("case", s)>> \o Pop
    /\ defs' = PutAway(Fr.def)
    /\ UNCHANGED <<prog, pc, frames, funcs, loops, sels, chans, queue, left>>

\* Select s with the current statements at the end of case k.
CaseAdded_Before(s, k, ss) == [sels EXCEPT ![s].cases[k] = ss \o @]
CaseAdded(s, k, ss) == [sels EXCEPT ![s].cases[k] = @ \o ss]

DefaultOf(s) == Len(sels[s].cases)
TestsDefault_Off(s, n) == ~sels[s].blocking /\ n + 1 = Len(sels[s].cases)
TestsDefault(s, n) == ~sels[s].blocking /\ n + 1 = Len(sels[s].cases) - 1

\* After a case the default is visited, if it is the last, or the next test.
\* An empty default is to be a call, on the line of the If.
EndCase ==
    /\ Doing("case")
    /\ LET def   == Fr.def
           s     == Top.at
           last  == TestsDefault(s, Cur.n)
           empty == prog[Fn][SuccOf(2)].comment = "select.done"
       IN  /\ sels' = CaseAdded(s, Cur.n + 1, defs[def].stmts)
           /\ \/ /\ last /\ empty
                 /\ defs' = Restored(def, << >>)
                 /\ work' = Pop
                 /\ pc' = "crashed"
              \/ \* Restored, and put away again.
                 /\ last /\ ~empty
                 /\ defs' = [defs EXCEPT ![def].stmts = << >>]
                 /\ work' = <<Succ(2), Then("default", s)>> \o Pop
                 /\ UNCHANGED pc
              \/ /\ ~last
                 /\ defs' = Restored(def, << >>)
                 /\ work' = <<Succ(2)>> \o Pop
                 /\ UNCHANGED pc
    /\ UNCHANGED <<prog, frames, funcs, loops, chans, queue, left>>

EndDefault ==
    /\ Doing("default")
    /\ sels' = CaseAdded(Top.at, DefaultOf(Top.at), defs[Fr.def].stmts)
    /\ defs' = Restored(Fr.def, << >>)
    /\ work' = Pop
    /\ UNCHANGED <<prog, pc, frames, funcs, loops, chans, queue, left>>

\* Any other condition.
VisitIf ==
    /\ OnIns({"if", "ifrecv", "ifcmp"}) /\ ~Unrolls
    /\ defs' = PutAway(Fr.def)
    /\ work' = <<Succ(1), Then("else", 0)>> \o Pop
    /\ UNCHANGED <<prog, pc, frames, funcs, loops, sels, chans, queue, left>>

\* At the head of a loop without condition the second branch is a call of
\* the head.
VisitElse ==
    /\ Doing("else")
    /\ LET ds == PutAway(Fr.def) IN
       IF L.state = "Body" /\ L.block = Top.b
       THEN /\ defs' = [ds EXCEPT ![Fr.def].stmts = <<CallOf(Top.b)>>]
            /\ work' = <<Then("endif", 0)>> \o Pop
       ELSE /\ defs' = ds
            /\ work' = <<Succ(2), Then("endif", 0)>> \o Pop
    /\ UNCHANGED <<prog, pc, frames, funcs, loops, sels, chans, queue, left>>

\* Without the two that were put away, the program ends.
EndIf ==
    /\ Doing("endif")
    /\ LET def == Fr.def
           stack == defs[def].stack
       IN  IF Len(stack) < 2
           THEN pc' = "crashed" /\ UNCHANGED <<work, defs>>
           ELSE /\ defs' = [defs EXCEPT
                      ![def].stack = Front(Front(stack)),
                      ![def].stmts = Last(Front(stack)) \o
                                   <<IfStmt(Last(stack), defs[def].stmts)>>]
                /\ work' = Pop
                /\ UNCHANGED pc
    /\ UNCHANGED <<prog, frames, funcs, loops, sels, chans, queue, left>>

-----------------------------------------------------------------------------
(* Calls.                                                                  *)

\* prepareCallFn: a new frame, and a definition, for f called from frame k.
Prepared(f, k) ==
    /\ frames' = Append(frames, Frame(f, k, Len(defs) + 1))
    /\ defs' = Append(defs, Def(FnName(f)))

\* The frames from k on to the one before main's.
Callers(fs, k) ==
    LET up[j \in 0..Len(fs)] ==
          IF j = NoFrame \/ fs[j].caller = NoFrame THEN {} ELSE {j} \cup up[fs[j].caller]
    IN  up[k]

IsRecursiveCall(f, k) == \E j \in Callers(frames, k) : frames[j].fn = f

\* A recursive call is not visited and has no statement.
VisitCall ==
    /\ OnIns({"call"})
    /\ Prepared(Cur.x, Top.fr)
    /\ IF IsRecursiveCall(Cur.x, Top.fr)
       THEN work' = Rest /\ UNCHANGED <<funcs, loops>>
       ELSE VisitFunc(Len(frames) + 1, frames', defs',
                      <<Then("called", Len(frames) + 1)>> \o Rest)
    /\ UNCHANGED <<prog, pc, sels, chans, queue, left>>

EndCall ==
    /\ Doing("called")
    /\ LET f == frames[Top.at].fn
       IN  defs' = IF prog[f] = << >> THEN defs
                   ELSE AddStmts(Fr.def, <<Stmt("call", FnName(f))>>)
    /\ work' = Pop
    /\ UNCHANGED <<prog, pc, frames, funcs, loops, sels, chans, queue, left>>

\* callClosure calls the closure from a frame of its own, where each call of
\* it is recursive.
VisitCallClosure ==
    /\ OnIns({"callclosure"})
    /\ Prepared(Cur.x, Top.fr)
    /\ work' = Rest
    /\ UNCHANGED <<prog, pc, funcs, loops, sels, chans, queue, left>>

\* A goroutine is visited later.
VisitGo ==
    /\ OnIns({"go"})
    /\ frames' = Append(frames, Frame(Cur.x, Top.fr, Len(defs) + 1))
    /\ defs' = Append(AddStmts(Fr.def, <<Stmt("spawn", FnName(Cur.x))>>),
                      Def(FnName(Cur.x)))
    /\ queue' = Append(queue, Len(frames) + 1)
    /\ work' = Rest
    /\ UNCHANGED <<prog, pc, funcs, loops, sels, chans, left>>

VisitDefer ==
    /\ OnIns({"defer"})
    /\ frames' = [frames EXCEPT ![Top.fr].defers = Append(@, Cur.args[1])]
    /\ work' = Rest
    /\ UNCHANGED <<prog, pc, defs, funcs, loops, sels, chans, queue, left>>

VisitRunDefers ==
    /\ OnIns({"rundefers"})
    /\ work' = <<[Top EXCEPT !.do = "defers", !.i = Len(Fr.defers)]>> \o Rest
    /\ UNCHANGED <<prog, pc, frames, defs, funcs, loops, sels, chans, queue, left>>

\* One iteration of the loop of visitRunDefers, or its end; a builtin such as
\* close is not a static callee.
RunDefer ==
    /\ Doing("defers")
    /\ LET next == <<[Top EXCEPT !.i = @ - 1]>> \o Pop IN
       IF Top.i = 0
       THEN work' = Pop /\ UNCHANGED <<frames, defs, funcs, loops>>
       ELSE IF Fr.defers[Top.i].op # "call"
       THEN work' = next /\ UNCHANGED <<frames, defs, funcs, loops>>
       ELSE /\ Prepared(Fr.defers[Top.i].x, Top.fr)
            /\ VisitFunc(Len(frames) + 1, frames', defs',
                         <<Then("deferred", Len(frames) + 1)>> \o next)
    /\ UNCHANGED <<prog, pc, sels, chans, queue, left>>

\* The call of a function with a body is to be a statement, on the line of the
\* rundefers; what would follow, a Fatalf for a channel that is passed and the
\* statement, never does.
EndDefer ==
    /\ Doing("deferred")
    /\ work' = Pop
    /\ pc' = IF prog[frames[Top.at].fn] = << >> THEN pc ELSE "crashed"
    /\ UNCHANGED <<prog, frames, defs, funcs, loops, sels, chans, queue, left>>

Overflow ==
    /\ pc \in {"main", "gortns"}
    /\ Exhausted
    /\ pc' = "overflow"
    /\ UNCHANGED <<prog, work, frames, defs, funcs, loops, sels, chans, queue, left>>

Terminated ==
    /\ pc \in {"done", "crashed", "overflow"}
    /\ UNCHANGED vars

Next ==
    \/ RunMain
    \/ RunQueue
    \/ NextGortn
    \/ EndRun
    \/ VisitBasicBlock
    \/ VisitJump
    \/ EndJump
    \/ VisitComm
    \/ CallClose
    \/ VisitPhi
    \/ VisitBinOp
    \/ CallLen
    \/ VisitSelect
    \/ VisitReturn
    \/ VisitIfStatic
    \/ VisitIfSel
    \/ EndCase
    \/ EndDefault
    \/ VisitIf
    \/ VisitElse
    \/ EndIf
    \/ VisitCall
    \/ EndCall
    \/ VisitCallClosure
    \/ VisitGo
    \/ VisitDefer
    \/ VisitRunDefers
    \/ RunDefer
    \/ EndDefer
    \/ Overflow
    \/ Terminated

Spec == Init /\ [][Next]_vars
FairSpec == Spec /\ WF_vars(Next)

-----------------------------------------------------------------------------
(* Properties.                                                             *)

WorkKind == {"block", "ins", "back", "else", "endif", "case", "default",
             "called", "defers", "deferred"}

\* The types of the variables; every reference to a frame, a definition, a
\* loop or a select is to one that was made.
TypeOK ==
    /\ pc \in {"start", "main", "gortns", "done", "crashed", "overflow"}
    /\ \A j \in DOMAIN work :
          /\ work[j].do \in WorkKind
          /\ work[j].fr \in DOMAIN frames
          /\ work[j].b \in DOMAIN prog[frames[work[j].fr].fn]
          /\ work[j].loop \in DOMAIN loops
          /\ work[j].do \in {"called", "deferred"} => work[j].at \in DOMAIN frames
          /\ work[j].do \in {"case", "default"} => work[j].at \in DOMAIN sels
          /\ work[j].do = "back" => work[j].at \in DOMAIN defs
    /\ \A k \in DOMAIN frames :
          /\ frames[k].caller \in 0..(k-1)
          /\ frames[k].def \in DOMAIN defs
          /\ frames[k].fn \in DOMAIN prog =>
                frames[k].visited \subseteq DOMAIN prog[frames[k].fn]
          /\ frames[k].selects \subseteq DOMAIN sels
          /\ \A l \in Range(frames[k].loopstack) : loops[l].parent = k
    /\ Range(funcs) \subseteq DOMAIN defs
    /\ \A l \in Range(loops) :
          /\ l.state \in {"NonLoop", "Enter", "Body", "Exit"}
          /\ l.bound \in {"Unknown", "Static", "Dynamic"}
          /\ {l.index, l.start, l.step, l.end} \subseteq Int
    /\ Range(queue) \cup Range(left) \subseteq DOMAIN frames

\* The definition of the frame of item j of the work w while the items above it
\* are done: the one that visitJump left, if it did since.
DefAt(w, fs, j) ==
    LET backs == {i \in 1..(j-1) : w[i].do = "back" /\ w[i].fr = w[j].fr}
    IN  IF backs = {} THEN fs[w[j].fr].def ELSE w[Max(backs)].at

\* The items of some kinds for which statements of definition d are put away.
OpenFor(w, fs, kinds, d) == {j \in 1..Len(w) : w[j].do \in kinds /\ DefAt(w, fs, j) = d}
PutAwayFor(w, fs, d) ==
    Cardinality(OpenFor(w, fs, {"else", "endif", "case", "default"}, d))
    + Cardinality(OpenFor(w, fs, {"endif"}, d))

\* PutAway and Restore match: a definition has as many statement lists put
\* away as branches and cases are being visited for it, so that no list is
\* lost, taken for another, or missing when it is restored, whatever calls,
\* jumps into new definitions, and branches nest.
PutAwaysMatch ==
    \A d \in DOMAIN defs : Len(defs[d].stack) = PutAwayFor(work, frames, d)

-----------------------------------------------------------------------------
\* The inductive invariant, in parts.
IsSeq(s) == Len(s) \in Nat /\ s = [i \in 1..Len(s) |-> s[i]]

IsDef(d) ==
    /\ d = [name |-> d.name, stmts |-> d.stmts, stack |-> d.stack]
    /\ IsSeq(d.stack)
AreDefs(ds) == IsSeq(ds) /\ \A d \in 1..Len(ds) : IsDef(ds[d])

IsLoop(l) ==
    /\ l = [parent |-> l.parent, state |-> l.state, bound |-> l.bound,
            index_var |-> l.index_var, cond |-> l.cond, index |-> l.index,
            start |-> l.start, step |-> l.step, end |-> l.end, block |-> l.block]
    /\ l.state \in {"NonLoop", "Enter", "Body", "Exit"}
    /\ l.bound \in {"Unknown", "Static", "Dynamic"}
    /\ {l.index, l.start, l.step, l.end} \subseteq Int
AreLoops(ls) == IsSeq(ls) /\ \A l \in 1..Len(ls) : IsLoop(ls[l])

\* The calls that program p defers.
DefersIn(p, f, b) == {p[f][b].ins[i].args[1] : i \in {j \in 1..Len(p[f][b].ins) :
                                                      p[f][b].ins[j].op = "defer"}}
DeferredIn(p) == UNION {UNION {DefersIn(p, f, b) : b \in 1..Len(p[f])} : f \in DOMAIN p}

FrameOf(p) ==
    [fn : DOMAIN p \cup {"main"}, caller : Nat, def : Nat, visited : SUBSET Nat,
     defers : Seq(DeferredIn(p)), selects : SUBSET Nat, loopstack : Seq(Nat)]

\* The frames of p, with nd definitions, the loops ls and ns selects.
LoopsOf(ls, k) == {l \in 1..Len(ls) : ls[l].parent = k}
AreFrames(p, fs, nd, ls, ns) ==
    /\ fs \in Seq(FrameOf(p))
    /\ Len(fs) >= 1 /\ fs[1].fn = "main"
    /\ \A k \in 1..Len(fs) :
          /\ fs[k].caller < k
          /\ fs[k].def \in 1..nd
          /\ fs[k].fn \in DOMAIN p => fs[k].visited \subseteq 1..Len(p[fs[k].fn])
          /\ fs[k].selects \subseteq 1..ns
          /\ fs[k].loopstack \in Seq(LoopsOf(ls, k))

\* The frames of functions of p; main's is one if there is a main.
Called(p, fs) == {k \in 1..Len(fs) : fs[k].fn \in DOMAIN p}

\* The work that can be left: each item with a loop of its frame, each branch at
\* its If.
ItemsOf(p, fs, nd, ls, ns) ==
    {w \in [do : WorkKind, fr : Called(p, fs), b : Nat, i : Nat, loop : 1..Len(ls), at : Nat] :
       LET ins == p[fs[w.fr].fn][w.b].ins
       IN  /\ w.b \in 1..Len(p[fs[w.fr].fn])
           /\ ls[w.loop].parent = w.fr
           /\ w.do \notin {"block", "defers", "deferred"} => w.i \in 1..Len(ins)
           /\ w.do \in {"else", "endif", "case", "default"} => ins[w.i].op \in Branching
           /\ w.do \in {"case", "default"} => w.at \in 1..ns
           /\ w.do \in {"called", "deferred"} => w.at \in 1..Len(fs)
           /\ w.do = "back" => w.at \in 1..nd
           /\ w.do = "defers" => w.i <= Len(fs[w.fr].defers)}
Items == ItemsOf(prog, frames, Len(defs), loops, Len(sels))

IInv ==
    /\ pc \in {"start", "main", "gortns", "done", "crashed", "overflow"}
    /\ pc = "start" => work = << >>
    /\ IsProgram(prog)
    /\ AreDefs(defs) /\ AreLoops(loops) /\ IsSeq(sels)
    /\ AreFrames(prog, frames, Len(defs), loops, Len(sels))
    /\ work \in Seq(Items)
    /\ funcs \in Seq(1..Len(defs))
    /\ queue \in Seq(Called(prog, frames)) /\ left \in Seq(Called(prog, frames))
    /\ PutAwaysMatch
=============================================================================
