---------------------------- MODULE Definitions -----------------------------
(***************************************************************************)
(* Storage in cfsmextract: which channel a register stands for.  Extract   *)
(* lets an instruction name its channel; this module is how the code finds *)
(* it.  Every register of a frame has a definition, arrays and structs map *)
(* indices and fields to definitions, and a channel is a definition that   *)
(* the session knows.  Stores, calls, closures, interfaces and phis pass   *)
(* definitions on.                                                         *)
(*                                                                         *)
(* A function is [params, free, returns, code]: its parameters, captured   *)
(* variables, the types of its results, and the blocks before an if, of    *)
(* its first branch, after the if, and of its second branch, which is the  *)
(* order in which visitBlock visits them.  A function without              *)
(* code is external.  An instruction is [op, dst, x, n, args]:             *)
(*   dst   the register it defines                                         *)
(*   x     its operand; of a call the function, of an invoke the receiver  *)
(*   n     field or index; type of what is allocated or extracted; method  *)
(*   args  arguments, bindings, edges of a phi, value that is stored       *)
(* Registers are unique in the program, as ssa.Values are.                 *)
(***************************************************************************)
EXTENDS Integers, Sequences, FiniteSets, SequencesExt

CONSTANT Program       \* the programs: [globals: name -> type, fns: name -> function]

VARIABLES
    prog,      \* the program
    pc,        \* "run", "done", "crashed"
    frames,    \* every frame made
    stack,     \* the frames being visited, innermost first
    queue,     \* goQueue: the frames of goroutines
    globals,   \* env.globals
    envArrays, \* the keys of env.arrays,
    envStructs, \* of env.structs
    chans,     \* and of env.chans, which are those of session.Chans
    extern,    \* the channels marked external
    closures,  \* env.closures
    elems,     \* the elements of an array, the fields of a struct
    vers,      \* utils.VarVers
    args,      \* common.Args of the invokes whose Args were changed
    nodes      \* the communications added to the trees, with their channels

vars == <<prog, pc, frames, stack, queue, globals, envArrays, envStructs,
          chans, extern, closures, elems, vers, args, nodes>>

\* What the instructions change apart from frames.
memory == <<globals, envArrays, envStructs, chans, extern, closures, elems, vers, args, nodes>>

Op(op, dst, x, n, as) == [op |-> op, dst |-> dst, x |-> x, n |-> n, args |-> as]

Nil == <<"nil", 0>>
Toplevel == 1

StructKinds == {"Struct", "LocalStruct"}
ArrayKinds  == {"Array", "LocalArray"}
Stored      == StructKinds \cup ArrayKinds \cup {"Chan"}

\* A frame: at is the calls that lead to it; i the instruction it is at.
Frame(fn, caller, at) ==
    [fn |-> fn, caller |-> caller, at |-> at, i |-> 1, locals |-> << >>,
     arrays |-> {}, structs |-> {}, tuples |-> << >>,
     retvals |-> [k \in DOMAIN prog.fns[fn].returns |-> Nil]]

Code(fn) == FlattenSeq(prog.fns[fn].code)
Fr  == frames[stack[1]]
Cur == Code(Fr.fn)[Fr.i]
At  == Append(Fr.at, Fr.i)

\* A lookup in a map of definitions gives nil for a missing key.
Lookup(f, v) == IF v \in DOMAIN f THEN f[v] ELSE Nil

-----------------------------------------------------------------------------
(* Looking up registers.                                                   *)

\* Its second part, the lookup of a phi's edges, is for registers without a
\* definition; visitPhi gives every phi of channels one, be it nil.
Kind(fr, v) ==
    LET vd == Lookup(fr.locals, v)
    IN  CASE v \notin DOMAIN fr.locals -> "Nothing"
          [] vd \in envArrays  -> "Array"
          [] vd \in fr.arrays  -> "LocalArray"
          [] vd \in chans      -> "Chan"
          [] vd \in envStructs -> "Struct"
          [] vd \in fr.structs -> "LocalStruct"
          [] OTHER             -> "Untracked"

Vd(v) == Lookup(Fr.locals, v)
KindOf(v) == Kind(Fr, v)

\* The definition NewDef(v) makes next.
NewDef(v) == <<v, IF v \in DOMAIN vers THEN vers[v] + 1 ELSE 0>>
Made(V) == vers' = [v \in V |-> NewDef(v)[2]] @@ vers

\* The visit of an instruction ends: the frame's registers are set to those
\* of D, and the next instruction is due.
Define(D) ==
    frames' = [frames EXCEPT ![stack[1]].locals = D @@ @, ![stack[1]].i = @ + 1]

AtIns(ops) == pc = "run" /\ stack # << >> /\ Fr.i <= Len(Code(Fr.fn)) /\ Cur.op \in ops
OnIns(ops) == AtIns(ops) /\ UNCHANGED <<prog, stack, queue>>

Goes    == pc' = pc
Panics  == pc' = "crashed" /\ UNCHANGED <<frames, memory>>
Nothing == << >>      \* no register

-----------------------------------------------------------------------------
(* Run.                                                                    *)

Init ==
    /\ prog \in Program
    /\ pc = "run"
    /\ frames = <<Frame("main", 0, <<"main">>)>>
    /\ stack = <<Toplevel>>
    /\ queue = << >>
    /\ globals = [g \in DOMAIN prog.globals |-> <<g, 0>>]
    /\ vers = [g \in DOMAIN prog.globals |-> 0]
    /\ envArrays = {<<g, 0>> : g \in {h \in DOMAIN prog.globals : prog.globals[h] = "array"}}
    /\ envStructs = {<<g, 0>> : g \in {h \in DOMAIN prog.globals : prog.globals[h] = "struct"}}
    /\ elems = [d \in envArrays \cup envStructs |-> << >>]
    /\ chans = {} /\ extern = {} /\ closures = << >> /\ args = << >> /\ nodes = << >>

\* A goroutine is visited when main, or the one before it, has been.
NextGortn ==
    /\ pc = "run" /\ stack = << >> /\ queue # << >>
    /\ stack' = <<Head(queue)>> /\ queue' = Tail(queue)
    /\ UNCHANGED <<prog, pc, frames, memory>>

EndRun ==
    /\ pc = "run" /\ stack = << >> /\ queue = << >>
    /\ pc' = "done"
    /\ UNCHANGED <<prog, frames, stack, queue, memory>>

-----------------------------------------------------------------------------
(* Channels.                                                               *)

Node(op, vd) == [op |-> op, at |-> At, chan |-> vd]

VisitMakeChan ==
    /\ OnIns({"makechan"})
    /\ LET vd == NewDef(Cur.dst)
       IN  /\ chans' = chans \cup {vd}
           /\ nodes' = Append(nodes, Node("make", vd))
           /\ Define(Cur.dst :> vd)
    /\ Made({Cur.dst})
    /\ Goes /\ UNCHANGED <<globals, envArrays, envStructs, extern, closures, elems, args>>

\* A channel without definition becomes an external channel.
VisitComm ==
    /\ OnIns({"send", "recv"})
    /\ \/ /\ KindOf(Cur.x) = "Chan"
          /\ nodes' = Append(nodes, Node(Cur.op, Vd(Cur.x)))
          /\ Define(Nothing)
          /\ Goes /\ UNCHANGED <<chans, extern, vers>>
       \/ /\ KindOf(Cur.x) = "Nothing"
          /\ LET vd == NewDef(Cur.x)
             IN  /\ chans' = chans \cup {vd} /\ extern' = extern \cup {vd}
                 /\ nodes' = Append(nodes, Node(Cur.op, vd))
                 /\ Define(Cur.x :> vd)
          /\ Made({Cur.x})
          /\ Goes
       \/ /\ KindOf(Cur.x) \notin {"Chan", "Nothing"}
          /\ pc' = "crashed" /\ UNCHANGED <<frames, chans, extern, vers, nodes>>
    /\ UNCHANGED <<globals, envArrays, envStructs, closures, elems, args>>

VisitSelect ==
    /\ OnIns({"select"})
    /\ LET bad == {k \in DOMAIN Cur.args : KindOf(Cur.args[k]) # "Chan"}
       IN  IF bad # {} THEN Panics
           ELSE /\ nodes' = nodes \o [k \in DOMAIN Cur.args |-> Node("select", Vd(Cur.args[k]))]
                /\ Define(Nothing)
                /\ Goes
                /\ UNCHANGED <<globals, envArrays, envStructs, chans, extern, closures, elems, vers, args>>

\* close(x): only a channel that is known can be closed.
VisitClose ==
    /\ OnIns({"close"})
    /\ IF Vd(Cur.x) \in chans
       THEN /\ nodes' = Append(nodes, Node("close", Vd(Cur.x)))
            /\ Define(Nothing)
            /\ Goes
            /\ UNCHANGED <<globals, envArrays, envStructs, chans, extern, closures, elems, vers, args>>
       ELSE Panics

-----------------------------------------------------------------------------
(* Memory.                                                                 *)

\* A variable: a channel gets its definition from what is stored.
VisitAlloc ==
    /\ OnIns({"new", "local"})
    /\ LET vd   == NewDef(Cur.dst)
           heap == Cur.op = "new"
           own(kind, S) == IF Cur.n = kind /\ ~heap THEN S \cup {vd} ELSE S
       IN  IF Cur.n = "chan"
           THEN Define(Nothing) /\ UNCHANGED memory
           ELSE /\ envArrays'  = envArrays  \cup {d \in {vd} : heap /\ Cur.n = "array"}
                /\ envStructs' = envStructs \cup {d \in {vd} : heap /\ Cur.n = "struct"}
                /\ frames' = [frames EXCEPT ![stack[1]].locals = (Cur.dst :> vd) @@ @,
                                            ![stack[1]].arrays = own("array", @),
                                            ![stack[1]].structs = own("struct", @),
                                            ![stack[1]].i = @ + 1]
                /\ elems' = (vd :> << >>) @@ elems
                /\ Made({Cur.dst})
                /\ UNCHANGED <<globals, chans, extern, closures, args, nodes>>
    /\ Goes

\* The definition of a global is looked up anew; a slice becomes an array.
Loaded(p) ==
    IF p \notin DOMAIN globals THEN Fr
    ELSE [Fr EXCEPT !.locals = (p :> globals[p]) @@ @]

VisitDeref ==
    /\ OnIns({"deref"})
    /\ LET p  == Cur.x
           vd == Lookup(Loaded(p).locals, p)
           slice == /\ p \in DOMAIN globals
                    /\ prog.globals[p] = "slice" /\ vd \notin envArrays
           kind == IF slice THEN "Array" ELSE Kind(Loaded(p), p)
           val  == IF kind \in Stored THEN Cur.dst :> vd ELSE Nothing
           own  == IF p \in DOMAIN globals THEN p :> vd ELSE Nothing
       IN  /\ envArrays' = envArrays \cup {d \in {vd} : slice}
           /\ elems' = IF slice THEN (vd :> << >>) @@ elems ELSE elems
           /\ Define(val @@ own)
    /\ Goes /\ UNCHANGED <<globals, envStructs, chans, extern, closures, vers, args, nodes>>

\* Mutant: of the frame only.
UpdateDefs_Frame(old, new) ==
    LET within == Fr.arrays \cup Fr.structs
    IN  [d \in DOMAIN elems |->
           [k \in DOMAIN elems[d] |->
              IF d \in within /\ elems[d][k] = old THEN new ELSE elems[d][k]]]

\* updateDefs: elements and fields, of the frame and of the environment, that
\* held the old definition.
UpdateDefs(old, new) ==
    LET within == Fr.arrays \cup envArrays \cup Fr.structs \cup envStructs
    IN  [d \in DOMAIN elems |->
           [k \in DOMAIN elems[d] |->
              IF d \in within /\ elems[d][k] = old THEN new ELSE elems[d][k]]]

VisitStore ==
    /\ OnIns({"store"})
    /\ LET p    == Cur.x
           vd   == Vd(Cur.args[1])
           kind == KindOf(Cur.args[1])
       IN  \/ /\ p \in DOMAIN globals
              /\ globals' = IF kind \in {"Array", "Struct"} THEN [globals EXCEPT ![p] = vd] ELSE globals
              /\ elems' = IF kind \in {"Array", "Struct"} THEN UpdateDefs(globals[p], vd) ELSE elems
              /\ Define(Nothing)
           \/ /\ p \notin DOMAIN globals
              /\ elems' = IF kind \in Stored THEN UpdateDefs(Vd(p), vd) ELSE elems
              /\ Define(IF kind # "Nothing" THEN p :> vd ELSE Nothing)
              /\ UNCHANGED globals
    /\ Goes /\ UNCHANGED <<envArrays, envStructs, chans, extern, closures, vers, args, nodes>>

\* The first access to field or index n of vd gives it a definition; a field
\* that is a struct gets fields of its own, where the struct is.
VisitAccess(kinds, ops) ==
    /\ OnIns(ops)
    /\ LET kind  == KindOf(Cur.x)
           known == kind \in kinds
           vd    == IF known THEN Vd(Cur.x) ELSE NewDef(Cur.x)
           first == ~known \/ Cur.n \notin DOMAIN elems[vd]
           new   == NewDef(Cur.dst)
           deep  == first /\ Cur.args = <<"struct">>
           heap  == kind # "LocalStruct"
           outer == IF known THEN Nothing ELSE Cur.x :> vd
           was   == IF known THEN elems[vd] ELSE << >>
       IN  IF ~known /\ kind \notin {"Nothing", "Untracked"} THEN Panics
           ELSE /\ elems' = IF ~first THEN elems
                            ELSE (vd :> ((Cur.n :> new) @@ was))
                                 @@ (IF deep THEN new :> << >> ELSE << >>) @@ elems
                /\ envStructs' = envStructs \cup {d \in {vd} : ~known /\ "Struct" \in kinds}
                                            \cup {d \in {new} : deep /\ heap}
                /\ envArrays' = envArrays \cup {d \in {vd} : ~known /\ "Array" \in kinds}
                /\ frames' = [frames EXCEPT
                     ![stack[1]].locals = (Cur.dst :> IF first THEN new ELSE elems[vd][Cur.n])
                                          @@ outer @@ @,
                     ![stack[1]].structs = @ \cup {d \in {new} : deep /\ ~heap},
                     ![stack[1]].i = @ + 1]
                /\ Made({v \in {Cur.dst} : first} \cup {v \in {Cur.x} : ~known})
                /\ Goes
                /\ UNCHANGED <<globals, chans, extern, closures, args, nodes>>

VisitField == VisitAccess(StructKinds, {"field"})    \* FieldAddr and Field
VisitIndex == VisitAccess(ArrayKinds, {"index"})     \* IndexAddr and Index

\* A slice gets an array that no register leads to.
VisitSlice ==
    /\ OnIns({"slice"})
    /\ envArrays' = envArrays \cup {NewDef(Cur.dst)}
    /\ elems' = (NewDef(Cur.dst) :> << >>) @@ elems
    /\ Made({Cur.dst})
    /\ Define(Nothing)
    /\ Goes /\ UNCHANGED <<globals, envStructs, chans, extern, closures, args, nodes>>

-----------------------------------------------------------------------------
(* Registers that stand for what another register stands for.              *)

\* Mutant: the last edge.
PhiDef_Last(edges) == Vd(Last(edges))

\* Of the edges of a phi of channels the first is taken, be it defined or not.
PhiDef(edges) == Vd(edges[1])

\* What kinds of definition an instruction passes on, and what it puts where
\* it does not find one: nothing or nil.
Passed == CASE Cur.op = "changetype"    -> IF KindOf(Cur.x) # "Nothing" THEN Cur.dst :> Vd(Cur.x) ELSE Nothing
            [] Cur.op = "makeinterface" -> IF KindOf(Cur.x) \in Stored \ {"Chan"} THEN Cur.dst :> Vd(Cur.x) ELSE Nothing
            [] Cur.op \in {"changeinterface", "copy"} -> Cur.dst :> Vd(Cur.x)
            [] Cur.op = "phi"           -> Cur.dst :> PhiDef(Cur.args)

VisitConversion ==
    /\ OnIns({"changetype", "changeinterface", "makeinterface", "copy", "phi"})
    /\ Define(Passed)
    /\ Goes /\ UNCHANGED memory

\* The result of a type assertion is a tuple, also where it is one value; an
\* assertion of a concrete type is never identical to the interface's.
VisitTypeAssert ==
    /\ OnIns({"typeassert"})
    /\ frames' = [frames EXCEPT ![stack[1]].i = @ + 1,
                                ![stack[1]].tuples =
                   IF Cur.n = "iface" /\ KindOf(Cur.x) \in Stored
                   THEN (Cur.dst :> <<Vd(Cur.x), Nil>>) @@ @ ELSE @]
    /\ Goes /\ UNCHANGED memory

\* The results of external functions.
External == {i.dst : i \in {j \in Range(Code(Fr.fn)) : j.op = "call" /\ prog.fns[j.x].code = << >>}}

\* A part of a tuple; one of no tuple that is known, if it is of type args[1]
\* array or struct, gets storage in the frame.
VisitExtract ==
    /\ OnIns({"extract"})
    /\ \/ /\ Cur.x \in DOMAIN Fr.tuples
          /\ Define(Cur.dst :> Fr.tuples[Cur.x][Cur.n])
          /\ Goes /\ UNCHANGED memory
       \/ /\ Cur.x \in External
          /\ \/ Cur.args = <<"chan">> /\ Panics
             \/ Cur.args # <<"chan">> /\ Define(Nothing) /\ Goes /\ UNCHANGED memory
       \/ /\ Cur.x \notin DOMAIN Fr.tuples \cup External
          /\ LET new == {d \in {NewDef(Cur.dst)} : Cur.args[1] \in {"array", "struct"}}
             IN  /\ frames' = [frames EXCEPT
                        ![stack[1]].locals = [v \in {d[1] : d \in new} |-> NewDef(v)] @@ @,
                        ![stack[1]].arrays = @ \cup {d \in new : Cur.args[1] = "array"},
                        ![stack[1]].structs = @ \cup {d \in new : Cur.args[1] = "struct"},
                        ![stack[1]].i = @ + 1]
                 /\ elems' = [d \in new |-> << >>] @@ elems
                 /\ Made({d[1] : d \in new})
          /\ Goes /\ UNCHANGED <<globals, envArrays, envStructs, chans, extern, closures, args, nodes>>

-----------------------------------------------------------------------------
(* Calls.                                                                  *)

VisitMakeClosure ==
    /\ OnIns({"closure"})
    /\ closures' = (Cur.dst :> [k \in DOMAIN Cur.args |-> Vd(Cur.args[k])]) @@ closures
    /\ Define(Nothing)
    /\ Goes /\ UNCHANGED <<globals, envArrays, envStructs, chans, extern, elems, vers, args, nodes>>

\* translate: the frame of fn with what the caller knows of the arguments and
\* of the variables that the closure value captures.
Translated(fn, value, as) ==
    LET f      == prog.fns[fn]
        given  == {k \in DOMAIN f.params : as[k] \in DOMAIN Fr.locals}
        params == [p \in {f.params[k] : k \in given} |->
                      Vd(as[CHOOSE k \in given : f.params[k] = p])]
        passed == {params[p] : p \in DOMAIN params}
        local  == passed \ (chans \cup envStructs \cup envArrays)
        free   == IF value \in DOMAIN closures
                  THEN [v \in Range(f.free) |->
                           closures[value][CHOOSE k \in DOMAIN f.free : f.free[k] = v]]
                  ELSE << >>
    IN  [Frame(fn, stack[1], At) EXCEPT
            !.locals  = free @@ params,
            !.structs = local \cap Fr.structs,
            !.arrays  = local \cap Fr.arrays]

IsRecursive(fn) == fn = Fr.fn

Next1 == [frames EXCEPT ![stack[1]].i = @ + 1]

Push(fr) == frames' = Append(Next1, fr) /\ stack' = <<Len(frames) + 1>> \o stack

\* A function with code is visited at once, unless it is called by itself; of
\* one without, a single channel it returns becomes known to the session, but
\* no register holds it.
CallFn(fn, as) ==
    \/ /\ prog.fns[fn].code # << >> /\ ~IsRecursive(fn)
       /\ Push(Translated(fn, fn, as))
       /\ UNCHANGED <<chans, extern, vers>>
    \/ /\ IsRecursive(fn)
       /\ Define(Nothing)
       /\ UNCHANGED <<stack, chans, extern, vers>>
    \/ /\ prog.fns[fn].code = << >>
       /\ LET new == {d \in {NewDef(Cur.dst)} : prog.fns[fn].returns = <<"chan">>}
          IN  chans' = chans \cup new /\ extern' = extern \cup new
       /\ Made({v \in {Cur.dst} : prog.fns[fn].returns = <<"chan">>})
       /\ Define(Nothing)
       /\ UNCHANGED stack

CallStatic ==
    /\ AtIns({"call"})
    /\ CallFn(Cur.x, Cur.args)
    /\ Goes /\ UNCHANGED <<prog, queue, globals, envArrays, envStructs, closures, elems, args, nodes>>

\* A call of a closure is not followed.
CallClosure == OnIns({"callclosure"}) /\ Define(Nothing) /\ Goes /\ UNCHANGED memory

\* A call through an interface adds the receiver to common.Args, which are
\* the program's, each time it is visited.
Invoke ==
    /\ AtIns({"invoke"})
    /\ LET as == <<Cur.x>> \o (IF Cur.dst \in DOMAIN args THEN args[Cur.dst] ELSE Cur.args)
       IN  \/ /\ KindOf(Cur.x) \in StructKinds
              /\ args' = (Cur.dst :> as) @@ args
              /\ CallFn(Cur.n, as)
           \/ /\ KindOf(Cur.x) \notin StructKinds
              /\ Define(Nothing) /\ UNCHANGED <<stack, chans, extern, vers, args>>
    /\ Goes /\ UNCHANGED <<prog, queue, globals, envArrays, envStructs, closures, elems, nodes>>

\* go f(...), and go of the closure n.
CallGo ==
    /\ AtIns({"go"})
    /\ frames' = Append(Next1, Translated(Cur.x, Cur.n, Cur.args))
    /\ queue' = Append(queue, Len(frames) + 1)
    /\ Goes /\ UNCHANGED <<prog, stack, memory>>

\* The last return that is visited is the one that counts.
VisitReturn ==
    /\ OnIns({"return"})
    /\ frames' = [frames EXCEPT ![stack[1]].i = @ + 1,
                     ![stack[1]].retvals = [k \in DOMAIN Cur.args |-> Vd(Cur.args[k])]]
    /\ Goes /\ UNCHANGED memory

\* handleRetvals: the caller of an inlined call gets its results.
EndCall ==
    /\ pc = "run" /\ stack # << >> /\ Fr.i > Len(Code(Fr.fn))
    /\ stack' = Tail(stack)
    /\ IF Len(stack) = 1 THEN UNCHANGED frames
       ELSE LET caller == stack[2]
                call   == Code(frames[caller].fn)[frames[caller].i - 1]
            IN  frames' = [frames EXCEPT
                  ![caller].locals = IF Len(Fr.retvals) = 1 THEN (call.dst :> Fr.retvals[1]) @@ @ ELSE @,
                  ![caller].tuples = IF Len(Fr.retvals) > 1 THEN (call.dst :> Fr.retvals) @@ @ ELSE @]
    /\ Goes /\ UNCHANGED <<prog, queue, memory>>

-----------------------------------------------------------------------------
Next == \/ NextGortn \/ EndRun
        \/ VisitMakeChan \/ VisitComm \/ VisitSelect \/ VisitClose
        \/ VisitAlloc \/ VisitDeref \/ VisitStore \/ VisitField \/ VisitIndex \/ VisitSlice
        \/ VisitConversion \/ VisitTypeAssert \/ VisitExtract
        \/ VisitMakeClosure \/ CallStatic \/ CallClosure \/ Invoke \/ CallGo
        \/ VisitReturn \/ EndCall

Spec == Init /\ [][Next]_vars
=============================================================================
