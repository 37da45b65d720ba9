# Specifications of dingo-hunter

dingo-hunter infers a model of the concurrency of a Go program: a system of
communicating finite state machines (CFSMs), or a program of MiGo types. This
directory holds TLA+ specifications of that inference, TLC configurations that
check them on small inputs, and proofs that TLAPS checks for all inputs. The
source is the reference throughout; `PROJECT.json` gives the lines each
definition stands for.

The correctness of an analyser is a relation between what it reads and what it
writes. The specifications therefore model the *code* as state machines (one
action per handler, the recursion kept as an explicit stack) and compare the
result with an independent definition of what the input means.

## 1. Inventory

| part | state | operations | talks to |
|---|---|---|---|
| `ssabuilder` (`ssabuild.go`, `channel.go`, `pointer.go`, `callgraph/`) | SSA program, build configuration; call graph with two package-level `visited` maps | `Build`, `CallGraph`, `FindChan`, `MainPkg` | golang.org/x/tools |
| CFSM extraction (`cfsmextract/*.go`) | per run: session, queue of goroutines, stack of open ifs `ifparent` (in the environment), select nodes, receive tests; per goroutine: role, root, leaf, visited blocks; per frame: caller, definitions, deferred calls | `Run`, `visitFunc`/`visitBlock`/`visitInst` and one `visit…` per SSA instruction, `call…` | reads SSA, writes a `sesstype.Session`, signals `Done` |
| Definitions and storage of the extraction (`visit.go`, `func.go`, `utils/defs.go`) | `locals`, `globals`, `arrays`, `structs`, `tuples`, `closures`, a global version counter | `get`, `updateDefs`, `visitStore`, `visitFieldAddr`, `visitIndexAddr`, `visitPhi` | names the channel each instruction uses |
| Sessions (`cfsmextract/sesstype/sesstype.go`, `nodestack.go`, `nodes.go`) | roles, channels, one tree of nodes per role; a node stack | constructors, `Append`, `MakeChan`, `Push`/`Pop`/`Top` | between extraction and output |
| CFSM generation (`sesstype/cfsm.go`) | `sys.Chans`, `sys.Roles`, `sys.States`, the machines | `NewCFSMs`, `rootToMachine`, `nodeToMachine`, `isSelfLoop`, `chanToMachine` (deferred) | reads a session, builds on nickng/cfsm |
| dot output (`sesstype/dot.go`) | a graph | `visitNode` | reads a session |
| MiGo inference (`migoextract/*.go`) | per program: globals, storage, function instances; per function: `FuncDef` and its statement stack, visited blocks, loop and loop stack | `Run`, `RunQueue`, `visit…`, `Call`, `Go`, `storeRetvals` | reads SSA, writes a `migo.Program`, signals `Done`/`Error` |
| Loop unrolling (`migoextract/loop.go`, `loopstack.go`, parts of `visit.go`) | the current `Loop`, a locked stack of loops | `loopStateTransition`, `loopDetectBounds`, `HasNext`, `Next` | drives which successor `visitIf` takes |
| Fairness (`fairness/fairness.go`) | count of loops, and of those judged unsafe; per function the blocks visited | `Check`, `Visit`, `isLikelyUnsafe`, `isCondFair` | walks the call graph, asks `FindChan` |
| Drivers (`cmd/*.go`) | flags, log file | `migo`, `cfsms`, `checkfair`, `buildssa`, `serve` | start `Run` as a goroutine and select on its channels |
| Web service (`webservice/*.go`) | the listener under a mutex, a temporary directory, the working directory of the process | one handler per page | every request runs a driver of its own, concurrently |
| Log writer (`logwriter/logwriter.go`) | writer, clean-up closure | `Create`, `Cleanup` | used by the drivers |

### What is hard, and what would be correct

* **Extraction** inlines every call while appending to one tree per goroutine.
  Which node is the current leaf after a branch, a select case, a call or a
  jump is global state that each handler must leave right for the next.
  Correct: the tree of a role describes exactly the communications of the
  goroutine; labels come before their gotos; every goroutine is visited; the
  visit ends.
* **CFSM generation** recurses over that tree, decides from a local test if a
  loop needs a state, looks labels up by name, removes empty roles while the
  system is being built, and builds the channel machines when everything else
  is done. Correct: the machine of a role accepts what its tree describes; the
  system is closed; no state is lost or orphaned; only silent roles disappear.
* **Loop unrolling** is a state machine driven by comments on blocks, with
  bounds from a comparison. Correct: a loop with constant bounds is unrolled as
  often as it runs.
* **Definitions** are found through frames, environment, arrays and structs, and
  rewritten wherever they are stored when a variable is assigned. Correct: the
  channel named for a communication is one the program uses there, and no
  communication is missing.
* **Drivers** run the analysis in a goroutine and select on two channels, with a
  buffered log that is cleaned up by a deferred call. Correct: a failure is
  reported, nothing blocks for ever, the log is complete after an orderly end.
* **Service**: requests share files, the working directory and the process.
  Correct: an answer belongs to its request, and one request does not make
  another fail.
* **Fairness** finds loops from the order in which it sees blocks and judges them
  from a syntactic pattern. Correct: no loop is missed, and one that is not safe
  in the sense of its comments is reported.

`PROJECT.json` lists these as hazards at their lines, with the properties that
cover them.

## 2. Modules

| module | what it is | code |
|---|---|---|
| `Closures` | what is reached in a finite graph; the words of a labelled graph | – |
| `Sessions` | the session graph: trees of nodes, loops as labels and gotos | `sesstype/sesstype.go` |
| `CFSMGen` | `NewCFSMs` as a state machine | `sesstype/cfsm.go` |
| `SessionRuns` | what a session says a role can do (reference semantics) | – |
| `CFSMRef` | the machine of a role compared with its session | – |
| `CFSMProofs` | theorems about `CFSMGen`, and about `CFSMRef`: a machine and its session perform the same | – |
| `Programs` | programs in SSA form, as functions of blocks of instructions | external: golang.org/x/tools |
| `ProgramForms` | the blocks that Go statements compile to, and the control flow graphs of n blocks | – |
| `ProgramRuns` | what a goroutine of a program can do on channels (reference semantics) | – |
| `Extract` | `Run` of the CFSM extraction as a state machine | `cfsmextract/*.go` |
| `ExtractRef` | extracted sessions compared with their programs | – |
| `ExtractProofs` | theorems about `Extract`: what exists, what is visited | – |
| `FreshProofs` | theorems about `Extract`: where the visit goes on, and the order of labels and gotos | – |
| `Migo` | `Run` and `RunQueue` of the MiGo inference with loop unrolling | `migoextract/*.go` |
| `MigoRuns` | what MiGo types say a goroutine can do (reference semantics) | – |
| `MigoRef` | inferred types compared with their programs; unrolled loops with their runs | – |
| `MigoProofs` | theorems about `Migo` | – |
| `Definitions` | `get`, stores, fields, elements, phis, calls, closures, invokes, conversions: which channel a register stands for | `cfsmextract/visit.go`, `func.go`, `utils/defs.go` |
| `DefinitionsRef` | what the program does with its channels (a recursive interpreter), compared with the definitions | – |
| `Fairness` | `Check`, `Visit` and `FindChan` | `fairness/fairness.go`, `ssabuilder/channel.go` |
| `FairnessProofs` | a theorem about `Fairness` | – |
| `Process` | a process: requests, answers, `Report`, panics, the end | `webservice/*.go`, `main.go`, `cmd/serve.go` |
| `Drivers` | loading, `Run` in a goroutine against the `select` of its caller, the log, output | `cmd/*.go`, `logwriter`, `webservice/{migo,cfsm,ssa}.go` |
| `Synthesis` | the pages that run other programs on temporary and shared files | `webservice/{synthesis,gong}.go` |
| `Service` | the three composed, one action per command and page | the same |
| `Answers` | abstract specification: what a process promises to those who ask | – |
| `ServiceProofs` | theorems about `Service`, and the refinement | – |
| `CallGraph` | `Build`, `visitBlock` and `WriteTo`, for several requests at once | `ssabuilder/callgraph`, `ssabuilder/print.go` |
| `CallGraphProofs` | theorems about `CallGraph` | – |
| `Lemmas` | facts that the proofs share: induction by least elements, stacks, `Closures` | – |
| `MC…` | instances for TLC; each extends the module that it checks | – |

`Extract` writes a session that `CFSMGen` reads; both extend `Sessions`, and
`SessionRuns` is the one meaning of a session both are checked against. So the
chain program → session → machine is checked in two links that share their
middle: a session has the sequences of its program, a machine those of its
session. `Migo` and `CallGraph` read the same `Programs`. In `Extract` an
instruction names its channel; `Definitions` is how the code finds that name.
`Service` composes `Process`, `Drivers` and `Synthesis`, and implements `Answers`.

### How the code becomes actions

All the translators are recursive functions over trees or control flow graphs.
Each is modelled with an explicit stack `work` of what is left to do, top first;
an item stands for a pending call or for the rest of a function after a call
returned (`else` and `endif` are `visitIf` after its first and its second
branch). One action is one handler up to its next recursive call. This keeps
what makes the code hard: what a handler does *after* a recursive visit uses
fields that the visit has changed (`leaf`, `ifparent`, `FuncDef.Stmts`, `Loop`).

* **CFSMGen.** `session` is the input, chosen in `Init`. `trans[m]`, `size[m]`
  and `states[m]` are the transitions, the states allocated and the label table
  of machine `m`; a frame `visit` is a call of `nodeToMachine`, a frame `link`
  what a communication does after its children were translated (`SetNext`,
  `AddTransition`). `deferred` are the deferred `chanToMachine` calls. A
  communication on an unknown channel ends the program (`log.Fatal`); one after a
  goto to a label that was not met adds a transition to a nil state and panics.
  Both are `crashed`.
* **Extract.** `tree` is every node made, `root`/`leaf` the fields of the current
  goroutine, `ifparent` the node stack of the environment, `selNode` and `recvTest` what
  `visitIf` looks up to see which branch it is at. `frames` are the calls inlined
  and the goroutines queued, with the callers by which `isRecursive` decides. Registers
  are abstracted: an instruction names its channel, as if the definitions it goes
  through were known; which channel that is belongs to `Definitions`.
* **Migo.** `defs` are the `FuncDef`s with their statement lists and the lists put
  away (`PutAway`/`Restore`), `frames` the `Function`s, `loops` the `Loop`s that
  items share by reference, `sels` the selects under construction.
  `loopStateTransition` and `loopDetectBounds` are operators that act on a loop;
  `i` and its bounds are integers.
* **Definitions.** `frames` are the frames made, with their registers, arrays,
  structs and tuples; `globals`, `envArrays`, `envStructs`, `chans` and `closures` are the
  environment that all goroutines share; `elems` maps arrays and structs to the
  definitions of their parts; `vers` is the package variable `utils.VarVers`. One
  action per SSA instruction. A definition is a name with a version, as in
  `NewDef`, so an assignment that rewrites references (`updateDefs`) is one function
  on all of them. A branch is one `if` per function: its blocks are visited in the
  order in which `visitBlock` does, first branch, join, second branch.
* **Fairness.** `todo` is what `Traverse` has left, `next` and `visitedBlk` where
  `Visit` is in the blocks of a function. One action per kind of block.
* **Process, Drivers, Synthesis.** A task is the user of a command or the client
  of a page; `pc` is where its goroutine is, `run` where the goroutine of its
  analysis is, `err` and `done` the two channels between them. `told` is what the
  task was told, `buf` the response that net/http buffers until the handler
  returns, `proc` how the process ended. A panic ends a request or the process,
  depending on the goroutine. `logw` counts the lines said, held in the buffer
  and kept in the file. The user of a command is told a result, an `error`, `nil` where
  `log.Fatal` is given an error that is nil (`cmd/migo.go:96` drops what it receives from
  `Error`), or the `trace` of a panic. `default` and `global` are the files that all synthesis requests
  share; a write is a truncation and a write, so others can read in between. Either may fail,
  and `synthesis.go:88` does not look at the error; neither do failures of the programs
  run stop a request. `disturbed` is history: the requests that failed to write the shared
  files, and those between whose write and read another request wrote them.
* **CallGraph.** Each builder is a request with a program of its own; the two
  `visited` maps are package variables and therefore shared. `Build` empties
  them in two steps, so a second build can start between them. Two goroutines
  that write a map at once may end the process (`Race`); they need not, so this
  is a step without fairness.

Bounds that are not the code's: `MaxFrames`, `MaxNodes` and `MaxStmts` stand for
memory. A run that exceeds one ends in `overflow`, which is not an accepted end
in any liveness property: where `Ends` holds, no run met a bound. `BufLines` is
the size of the buffer of a log file, in lines. External programs (GMC, petrify,
dot) either do their work or fail; the pointer analysis is given.

## 3. Runs

| run | instance | what it shows |
|---|---|---|
| `MCCFSM` | every session of one role: all trees of 4 nodes, all node kinds with one channel and one label; sessions of 0 to 3 roles and 2 channels: producer/ranger, altbit, joins, silent roles, an unknown channel, an early goto | transitions join allocated states; every state is linked; machine and session have the same sequences of up to 4 communications; closed system, only silent roles removed, every message a role sends can be relayed to every other |
| `MCCFSMStop` | same | **finding** `StopReachesEnd` |
| `MCExtract` | 15 programs with the statements extraction tells apart; every control flow graph of 4 blocks as `main`; every one of 3 blocks as an inlined function, each block with or without a send | labels before gotos, no node attached beside a continuation, every goroutine visited, session and program have the same sequences of up to 5, `Run` ends |
| `MCExtractMutual` | two functions that call each other | **finding** `RepetitionDetected` |
| `MCMigo` | 11 statement forms, each as a called function and as a goroutine; calls, recursion, deferred calls (also one that defers itself), unknown channels, no main; 72 loops upwards (start -1..1, bound -1..2, `<` and `<=`, step 1..3) and 24 downwards; control flow graphs of 3 and 4 blocks | put-away lists are restored where they belong, calls are of definitions, types and program have the same sequences of up to 5, a static loop that counts upwards is unrolled exactly as often as it runs, `Run` ends unless a function defers itself |
| `MCMigoUnroll` | the loops upwards | **finding** `UnrolledOnce` |
| `MCCallGraph` | one of 5 programs, or any two at once | edges are calls, direct callees are written even while another build empties the maps, every function once and no panic when alone, every build ends |
| `MCCallGraphUsed` | one of the 5 programs | **finding** `UsedFunctionsWritten` |
| `MCService` | every command on every source (sound, does not build, no package, no main, no files, unknown channel, something on which the analysis panics, endless) and log (off, stdout, file, a file that cannot be made); every pair of pages at once, with every source and request bodies that break off | the process implements `Answers` (`KeepsPromise`); the log is kept, but for the buffer at a `log.Fatal`; half a result is taken only from a `Run` that panicked; a synthesis shows its own machines, and its own global graph unless it could not write the shared files or another wrote them between its steps; everyone is answered or turned away |
| `MCServiceReport` | the same | **finding** `ErrorsReported` |
| `MCDefinitions` | every sequence of three stores, copies and uses on two parts of a struct or array, where it is made and in a function that gets it; every choice of stores in two branches; a program for each feature | the channel found for a communication is one the program uses there, none is missing |
| `MCFairness` | every kind of block with every condition in graphs of 2 and 3 blocks, graphs of 4 with each way in which a loop is found or judged; three functions with 5 kinds of body each; no main | when nothing is reported unsafe, every loop goes through a block at which it is safe |

**Why the bounds are enough.** The translators are driven by shapes: what follows
what, and which block was met before. All the decisions they take are local to a
node and its parent, a block and its predecessors, a call and its caller; four
nodes or blocks hold every such neighbourhood (a loop with a body and an exit; a
diamond and its join; a join inside a branch; two loops that share a head),
and all of them are enumerated, not sampled. Sequences of 4 or 5 communications
go round a loop of the largest instance and leave it. Two builds suffice for the
call graph: a third could only empty the maps too, which one other can do at any
point already. Two requests suffice for the service: what they share is a file,
a directory or the process, and a request meets another's write, change of
directory or end; the effects of a third are those of the second again (the
shared file is `mixed` after any two writes). A command is alone in its process.
Two parts of one variable suffice for definitions, because a store either
confuses two parts or does not, and three operations are a store, a second store
and a use, in any order and on either side of a call. A loop of the fairness
analysis is closed by its block of highest index; three blocks after the entry
nest, overlap and cross. No symmetry is used: sessions and programs order their
nodes, and requests ask different things.

**Where the comparisons are exact.** The comparisons hold for a class of inputs
that is stated as an operator, each conjunct with its reason: `LoopsOwnState`, and
`OneParent`, `LabelsFirst` and `ShortLoops` (`Sessions`, `CFSMRef`), `Exact` with `Resumes` and `Regular` (`ExtractRef`),
`Exact` with `Plain` (`MigoRef`), `Exact` (`MCDefinitions`) with `Confuses`
(`DefinitionsRef`). `Confuses` leaves out a store over a definition that is stored
elsewhere too, and of nil over a channel. Outside the class the code approximates; the
list in section 6 says how. These hypotheses were found by removing them and
reading the counterexamples. The class is not empty in any instance: the mutants
of `PROJECT.json` violate each comparison within it.

**Scheduling assumed.** `Extract` and `Migo` are sequential: `WF_vars(Next)` says
that the goroutine that runs the analysis is scheduled. In `CallGraph` each
builder has weak fairness of its own, which is what the Go scheduler gives to
runnable goroutines; `Race` has none. In `Service` the goroutine of each task and
that of its analysis have weak fairness; requests need not come, and the listener
need not fail. `Served` leaves out tasks whose analysis does not end, and says that
they keep nobody else waiting. `Extract!Ends` excludes programs that
inline themselves without end (`Endless`, the subject of `MCExtractMutual`), `CasesFresh` and
`LabelsOrdered` those and a `main` that calls itself (`Inlinable`, explained in section 4),
`MigoRef!Ends` a static loop whose step was not understood (`i *= 2`), and programs with a
function whose deferred calls lead back to it (`DefersItself`, of which the instance has one):
`visitRunDefers` does not ask `IsRecursiveCall`, so
`func f(n int) { if n > 0 { defer f(n-1) } }` is visited for ever.

## 4. What is proved

TLAPS checks the theorems below for every value of the constants. Each component named here has
an inductive invariant `IInv`, stated in its own module so that TLC can check it,
and a theorem `Inductive` (`Spec => []IInv`) in its module of proofs, with one
lemma for each action or for each form that a step can have. What the other theorems
state follows from it.

`Lemmas` holds what several proofs need. `LeastElement` (every nonempty set
of naturals has a least element) is proved from the well-foundedness of inclusion of
finite sets, and stands in for induction, whose theorems in the library take an
operator as a parameter: a proof by induction takes the least counterexample. The
others say what a stack is when something is put on it, and what `Closures` defines:
a closure holds its start, is closed, and is within every set that is so (its levels
stop growing before there are as many as nodes, by a count of the nodes left out);
the words of one graph are words of another when a relation between their points
simulates every edge (`WordsSimulated`).

**CFSMProofs, the construction**, from `SessionAssumption` (the sessions are well-typed:
children are nodes, communications have channels, labels and gotos names;
nothing is assumed of their shape), `RoleAssumption`, `NodeAssumption` (finite sets) and
`NameAssumption` (roles, channels and `NoRole` have different names).

* `TypeCorrect`, `AllocatedEndpoints`: `Spec => []TypeOK`, `[]EndpointsAllocated`.
* `ClosedSystem`: `Spec => []PeersInSystem`. Roles are removed *during* the
  construction, so this is not a local fact: channel machines are built last and
  only over roles left, and a role names only channels of the session.
* `NoOrphanState`: `Spec => []Linked`, with step lemmas of its own over `IInv`.
* `DataRelayed`: `Spec => []DataIsRelayed`, from `Relaying`: each channel of the system
  either waits in `deferred` or its machine is that of `chanToMachine` for some
  numbering of the roles. When `NewCFSMs` returns nothing waits.
* `OnlySilentRemoved`: `Spec => []OnlySilentRolesRemoved`. A role is removed because
  its machine has no transition, which must mean that there is no communication at
  any depth of its tree. `Silence` has the set of nodes walked so far, none
  of them a communication, closed but for what is left on the stack; when the stack
  is empty it is closed, and so holds everything below the root (by levels of
  the tree, with `LeastElement`).
* `TypeOK` does not say that a frame refers to
  states of the machine under construction, only to numbers; `IInv` adds that
  every frame on the stack and every label in the table is below `size[role]`,
  that machines still to come are empty, that transitions of roles name channels
  of the system and those of channels exist only when roles are final.

**CFSMProofs, the languages**, from the same assumptions and `DepthAssumption` (the length of the
sequences is a number). The two theorems compare languages: they hold for every
session and every length, where TLC has trees of four nodes and sequences of four.

* `MachineSound`: `Spec => []MachineWithinSession`. The invariant is `Traced`: there is
  a function `f` that gives each state of the machine the place of the session where its
  translation starts, the root or the children of a communication, such that each
  transition is that of a communication in the region of its state (the nodes
  translated from it) and leads to the state of its children, or back when it
  is a loop of one; each label in the table, and each frame, is in the region of
  its state. A step extends `f` by the state it allocates. At the end the pairs of a
  state and a set of points that holds the communications of its region
  are a simulation. A self loop is where the precondition is needed: it leads
  back to everything that the state offers, the session only to what is in the loop.
* `MachineComplete`: `Spec => []SessionWithinMachine`. The invariant is `Mapped`: there is
  a function `at` that gives the state of each node translated so far, such that each of its
  children is translated from the state that the code gives it, or is a frame to that end, and
  each communication has its transition or the frame that will add it. This needs
  that a goto finds its own label in the table, by name, so the labels met are
  those before it: of the nodes that frames are still to visit none is mapped yet, and
  none leads to a goto whose label is below a later one (`FramesApart`, from
  `OneParent` and `LabelsFirst`). And it needs that a loop over one communication is
  taken for one: when a communication has a goto to its own state as
  its only child, the table has that label. At the end every node of the tree has a
  state (`Settled`), those of a region have the same, and so do all the points
  that a role can be at together when gotos are short (`FromAt`).

**ExtractProofs**, from `MemoryAssumption` (bounds are numbers) and
`ProgramAssumption`: what golang.org/x/tools builds. Blocks have instructions, an `If`
ends a block with two successors and a jump one with one, nothing leads back to the entry
block, the test of a case comes after
its select, in the same block or in one that the select's block dominates, and the case it
tests is one that the select has. The cases are tested in turn (`TestsInTurn`): the first right
after its select in the same block, each other one in a block of its own, which is
the second branch of the test before it and is entered from nowhere else. A select is an
instruction of one block of one function (`SelectsApart`). The `init` of a package is called by no
function and defers nothing (`InitOnce`).

* `OnlyDirectRecursion`: `isRecursive` is equivalent to "the function called is
  the caller's own", whatever the call stack. It is the general form of the finding
  `RepetitionDetected`.
* `TypeCorrect`: every reference of the run is to a frame, a node or a select
  node that exists. `visitIf` looks up the node of the select that its condition tests
  and indexes its children, and pops `ifparent`; a missing entry would be a panic.
  So `IInv` says that the selects above a block have their nodes
  when it is visited (passed from a block to those it dominates), and that
  `ifparent` has one node for each first or second branch under way (the
  `else` and `endif` items are counted on the stack of work).
* `AllVisited`: `Spec => []GoroutinesVisited`. Each role has a tree, is that
  of the current goroutine, or waits in the queue (`Treed`), also for goroutines that are
  started while the queue is run.

**FreshProofs**, from the same assumptions.

* `CasesFresh`: `Spec => [](Inlinable => FreshLeaf)`. The visit of a block or of an instruction
  goes on at a node without children, so what follows is never an alternative of what it
  follows. This is plain for what has just been appended; it is not for the branches that
  `visitIf` comes back to, above all for those of a select, whose nodes are
  made together, long before their tests are visited, and looked up by position.
* Two invariants over `IInv` carry it. `Once`: no block is entered a second time in a
  call. There is a set of blocks entered, such that the blocks which the work left may
  still enter are not in it (`Placed`), no two items of work are at one block
  (`Apart`), and what is entered was entered from the block before it, or by its label,
  which is visited once in a goroutine (`AreEntered`). A function entered twice would
  break it, hence the precondition: what is inlined below an item is of a function
  that calls lead to from the item's (`Led`), and that is never the item's own.
* `Fresh`: the tree hangs together below the leaf and the open ifs (`Sound`), and
  the nodes that items of work will go to, those of the cases from the one they test
  on, have no children (`Cleared`), are not the leaf of what is above them on the
  stack (`Clear`), and are not what another item waits for (`Distinct`). A step that
  appends does so at the leaf, or at the top of `ifparent`, none of which
  is such a node; `Once` gives that a select is not visited again while one of its tests waits.
* `Inlinable` leaves out exactly two things. `Endless` programs: with
  `f: select { case <-a: b <- 1; default: c <- 1 }; g()` and `g: f()`, the second copy of the
  select overwrites the first in `env.selNode`, and the default of the first goes on in
  the second. And a `main` that calls itself: the frame at the top level has no function, so
  `isRecursive` does not see the first repetition, and a select of `main` before the
  call is overwritten in the same way. TLC finds `FreshLeaf` violated for both programs and kept for one
  that has `f` call itself directly.
* `LabelsOrdered`: `Spec => [](Inlinable => LabelBeforeGoto)`. In the tree of each role a
  label occurs once, and every goto comes after the label of its name in the order in which
  `nodeToMachine` visits the tree: below it, or below a later child of a node that the label
  is below (`Precedes`). So `NewCFSMs`, given a session that the extraction made, never looks
  up a state it has not made.
* Its invariant is `Ordered`, over `IInv`, `Once` and `Fresh`. A goto is appended for a block
  that is in `visited`, and such a block has its label somewhere in the tree (`LabelsOf`);
  what is needed is that the label is before the node at which the visit is. For the leaf that is
  carried along, but after a branch, a test of `ok` or a case the visit goes back. The nodes it will go
  back to (`Places`: the top of `ifparent` for each open if, the parent of the cases for each test)
  lie on one way from the root down to the leaf, in the order of the stack, and every label
  so far is before each of them or below it (`Spine`). What is appended to such a node
  becomes its last child and so comes after what is below it. A case is a child that
  was made before some of that: there `Fresh` says that it and the later cases have no
  children, and `FirstOnly` with `CasesUnlabelled` that no case is a label itself, so whatever is
  below their parent is in an earlier case. Trees of roles that have ended do not change
  (`Matched`, `Rooted`).
* Before and below are not computed in these proofs: a node is below another when it
  is in every set that holds the other and the children of its nodes (`Within`), which
  `UnderWithin` shows to be the closure that the property is stated with.

**MigoProofs**, from `MigoMemoryAssumption` and `MigoProgramAssumption` (blocks have
instructions, an `If` two successors and a jump one, what is called is a function of
the program).

* `TypeCorrect`: frames call functions of the program and are younger than their
  callers; the work that is left carries a loop of its own frame; loop stacks
  hold loops of their frame; selects and definitions exist.
* `PutAwaysAreMatched`: `Spec => []PutAwaysMatch`, that statements put away are restored
  where they belong. `visitIf` puts away the statements of the parent, then those of
  the first branch, and takes two lists back at the end, while the branches
  between may call functions, replace the definition of the frame
  (`visitJump`) or start selects of their own. An item of work asks for
  lists: one for `else`, `case` and `default`, two for `endif`; it asks the definition
  that its frame will have when it is reached (`DefAt`: `back` items hand the older one
  back). The lemmas say what one item put on the stack adds, so that each
  action owes exactly what it puts away. A definition that `visitJump` makes
  has nothing put away, and no item below asks it for anything.
* `EndIfGoesOn`: `Spec => [][EndIf => pc' = pc]_vars`. `Restore` panics when there is
  nothing to restore; the end of an `If` never meets that.

**FairnessProofs**, from `InputAssumption` (blocks have successors among the blocks,
children of a function of the call graph are functions of it).

* `UnsafeLoopsFound`: `Spec => []NothingUnsafeMissed`, for every program and every pointer
  analysis. The block of highest index on a loop leads back to a block of lower
  or equal index, and `Visit` has met that successor when it judges the block,
  because blocks are visited in order. `IInv` says that, as long as nothing was
  judged unsafe, each such block visited is safe or not looked at (`SafeJudgement`), and
  that the functions judged whole contain the root and the children of one another, but
  for what is left to traverse (`Judged`). At the end nothing is left, so
  every function of the call graph was judged.

**CallGraphProofs**, from `LoadedAssumption` (blocks have instructions, an `If` ends
a block with two successors and a jump one with one, `main` has blocks – what
golang.org/x/tools builds), for any number of builders and programs.

* `TypeCorrect`: what is left to visit and to write exists.
* `EdgesAreCalls`: every edge is a call or a `go` in a block that the function's
  entry leads to, however many builds empty each other's maps.
* `EveryFunctionOnce`, `NeverFailsAlone`: a build that is alone has every
  function once, and does not panic.
* `MainAndCalleesWritten`: `Spec => []DirectCalleesWritten`: `main` and what it calls
  are written, however many builds empty the shared maps meanwhile. `Covering` has
  the blocks of `main` seen so far: each of their calls has a node and each of their
  successors is seen, or the visit has yet to come to it. That another builder empties
  the maps only makes a visit see more, and its own marks are of its own program. The
  nodes are a tree with `main` at its root, and what `WriteTo` wrote is closed
  but for what is queued.
* `IInv` adds that a work item's function is that of its node and its block is
  reachable in it (so what it calls is a call of that node's function), that
  `main` is the only node until the visit starts, and, for a build that is alone,
  that the function of every node is marked: this is why the recursion at a
  return never happens, why nothing is a node twice, and why `Blocks[0]` of an
  external function is not read. A step that adds a node (`GrowStep`), one that
  only moves on (`WorkStep`), one that panics (`FailStep`) and one outside the
  visit (`OutsideStep`) each have a lemma; the actions are instances.
  Reachability is a set in every closed set, so that no induction is needed.

**ServiceProofs**, from `TasksAssumption` (there is a task), `JobsAssumption` (a job is a
command, with a known log and known dumps, or a page) and `BufLinesAssumption` (the buffer
holds a line), for any number of tasks at once.

* `Implements`: `Spec => KeepsPromise`, the refinement: initial states are
  initial states of `Answers`, every step is a step of it or a stutter. Every step has one
  of the forms `Requests`, `Moves`, `Replies`, `Returns`, `Prints`, `Panics`, `Ends` or `Quiet`, which
  say what it may do to the tasks; lemmas on commands, pages, `Run` and
  the server show that each action has one of them, and the refinement and most invariants are then shown per form. What
  a step of `Answers` must not do, to give a wrong answer, a second one, or one after the end,
  needs the control part of `IInv`: where a task of each kind can be, that it waits
  exactly between its request and its answer, and that the buffered response of a
  handler that is about to return is a right one.
* `LogIsKept`: every line said is kept or in the buffer (`LogOK`), and the buffer is
  empty after a deferred clean-up.
* `ResultsWhole`: `Spec => []HalfResults`. `RunOK` relates where `Run` is, which of `Done` and
  `Error` it has signalled and why, to where its caller is and what it has read: who
  goes on after `Done` meets a `Run` that has ended, or one that panicked and is about to
  end the process.
* `MachinesOwn`, `GlobalOwn`: `FilesOK`. The files of a request are its own; the
  shared ones are while `disturbed` does not name it (`Undisturbed`): from its write of `default`
  to its reading, and from its write of the graph to the drawing. That writes and programs may
  fail leaves a request with what another one wrote, so the history has to name it then too.
* `TypeCorrect`.

**Only model-checked**

* Liveness: `Ends`, `Served` and the other properties under fairness.
* What compares with programs: `ExtractRef`, `MigoRef`, `DefinitionsRef`. Their
  reference semantics use RECURSIVE operators (`ProgramRuns`, `MigoRuns` and the interpreter
  of `DefinitionsRef`), about which the provers cannot reason. A session and a
  machine are finite graphs, so `SessionRuns` and `CFSMRef` are written with `Closures`
  and proved about; a program has a call stack.
* `CallsDefined` and `Unrolled` of `MigoRef`, which are stated with the same semantics.
* The findings, which are counterexamples.

## 5. Findings

1. `MCCFSMStop`: the STOP transition of a channel machine is added to `qEnd`, not
   to `q0`; no state of a channel machine leads to `qEnd`, so the
   STOP that a role sends when it closes a channel is never taken.
2. `MCExtractMutual`: mutual recursion is inlined until memory ends.
3. `MCMigoUnroll`: the definition of an unrolled loop also calls itself.
4. `MCCallGraphUsed`: functions called by callees of `main` are not in the graph.
5. `MCServiceReport`: an error that is reported to a client ends the process before
   the client gets it.

## 6. Other behaviour met while modelling

These are in the models as the code has them. Three of them contradict a comment, which is
quoted here: `cfsmextract/visit.go:856`, `cmd/buildssa.go:46` and
`migoextract/loop.go:25`. None is claimed to be otherwise by a property.

* A goto over more than one communication has no transition back in the machine
  (`cfsm.go:141`): excluded by `ShortLoops`. Labels are looked up by name, so a goto
  finds what was visited last: `LabelsFirst`. A loop of one communication is a
  self loop of the current state, which what precedes may share: `LoopsOwnState`.
* Two goroutines started by one `go` statement share a role
  (`cfsmextract.go:100`); an early return loses the continuation of the caller
  (`func.go:197`), excluded by `Resumes`.
* `env.selNode` has one entry for each select of the program, not of the call
  (`visit.go:298`). A function inlined again while the test of its select waits for its second branch
  replaces it, and that branch goes on at nodes of the inner copy. This takes mutual
  recursion, or `main` calling itself, which `isRecursive` sees one call later than for other
  functions (section 4, `CasesFresh`).
* `callClosure` of the MiGo inference always takes the call as recursive and adds
  no statement (`call.go:333`); recursion adds no statement; the else
  branch at the head of a loop without condition is replaced by the self call
  (`visit.go:619`).
* Deferred calls of the MiGo inference are visited without a test for recursion
  (`visit.go:1068`), so a function that defers itself is visited for ever (`DefersItself`).
* Lines are taken from positions by `strings.Split(fmtPos(...), ":")[1]`, which panics for an
  instruction without position. In go/ssa an `If` and a `RunDefers` have none, so the
  inference panics on a select with an empty default (`visit.go:537`) and on a deferred call of a function
  that has a body (`visit.go:1070`): `EndCase` and `EndDefer` lead to `crashed`.
  `log.Fatal` for a channel that a deferred call is passed (`visit.go:1073`) comes after that
  and is never reached. (`visitJump`, `visit.go:799`, converts the position itself and
  does not panic.)
* A nested static loop loses the end of the outer one; `HasNext` is false at once
  for loops that count down, whose bodies are then not visited, although the comment at `loop.go:25`
  says of `Step` "Increment (can be negative)" (`Unrolled` claims loops upwards);
  a step that is not an addition is 0 and the loop is
  unrolled for ever.
* `RunQueue` ranges over the queue once (`migoextract.go:86`): goroutines started
  by goroutines get no definition (`StartedByMain` in `CallsDefined`).
* MiGo types: after an `if` without else, the path that skips the branch ends
  although the function goes on.
* Definitions. A phi is its first edge (`visit.go:862`), although the comment at
  `visit.go:856` speaks of the last defined channel: when the first edge comes from the
  branch visited last, its channel is not found. "Update all references"
  (`updateDefs`) changes neither registers nor frames of callers, and changes
  every other cell that holds the same channel. A store of nil has no effect. A
  global channel is lost: each function sees another external channel
  (`visit.go:492`). A call through an interface adds its receiver to the
  program's own argument list at each visit (`func.go:230`). Constant indices are
  different values of go/ssa, so what one instruction stores at an index another
  does not find there. Local structs that are returned by value, and nested ones that are
  passed, lose their storage; stores in one branch are seen in the other; a
  type assertion without ok loses its value; a closure that is called as a value
  of unknown origin is not followed.
* Drivers. When `Run` of the MiGo inference panics it closes `Done` while it
  unwinds: what there is of the types may be printed, with exit code 0
  (`"partial"` in `RightAnswers`). `cmd/migo.go:96` and `webservice/migo.go:31` drop the error
  they receive and report `err`, which is nil; `cmd/cfsms.go:71` uses the configuration before
  the error is looked at, so without files it panics. `log.Fatal` skips the clean-up of the
  log. A panic of `Run` of the extraction (`cfsmextract/visit.go:172`, 328, 332, 440, 466) ends the
  process. `buildssa.go:46` ("dumpAll override dumpSSA")
  is evaluated before flags are parsed, so both dumps are written.
* Service. The directories of examples and templates that are given relative to
  the working directory are not found after a synthesis has changed it; two
  syntheses at once may show one the global graph of the other, and so does one
  whose write of `default` fails, since the error is ignored (`synthesis.go:88`).
* Fairness. A range over a channel whose body changes a variable starts with a
  phi, and the analysis panics (`fairness.go:49`). An if whose join has a lower
  index than its else branch counts as a loop, so `if`/`else` and `a || b` raise
  alarms. Blocks of one instruction are not looked at: `for { }` is not judged. A
  loop without condition around a counted one that is its last statement is
  closed by the block of the inner loop and judged as that. Every named phi
  counts as a modified index, whatever it counts.
* Deferred calls are not in the call graph. With two builds at once a function
  can be a node twice, and an external callee can panic at `Blocks[0]`; net/http
  recovers that panic, the fatal error of concurrent map writes it cannot.

## 7. Not modelled

* Loading, SSA construction and pointer analysis are golang.org/x/tools; the shape
  of what they return is the assumption of the models.
* MiGo registers, parameters of definitions, return values and storage
  (`Definition`, `extraargs`, `revlookup`): an instruction of a program names its
  channel. The parameter list of a definition, and the removal of its duplicates,
  belong to `github.com/damifur/migo`, which is not in the repository, so what a
  definition and a call to it finally list cannot be translated from here.
  `Definitions` has the corresponding storage of the CFSM extraction.
* Dot output, printing, flags, templates: formatting and I/O. The parsing of flags
  and configuration belongs to cobra and viper; a file that cannot be read or
  made is an outcome of the steps of `Drivers`.
* `examples/` and `talks/` are inputs and presentation; the forms that the
  examples compile to are among the inputs of the instances.

## 8. Plan

Done: every component with logic of its own. What could still be added:

1. `Stacks`: `NodeStack` and `LoopStack` as implementations of an abstract stack,
   the latter with its mutex.
2. `Pipeline`: `Extract` followed by `CFSMGen`, the machine compared with the
   program directly rather than through the session.
3. `Network`: the generated machines run together, for the protocols of
   `examples/`.

Proofs to come: the refinement of the stacks.
