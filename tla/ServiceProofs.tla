--------------------------- MODULE ServiceProofs ----------------------------
(***************************************************************************)
(* What holds of a process of dingo-hunter for any tasks, jobs and buffer, *)
(* and that it implements Answers.                                         *)
(***************************************************************************)
EXTENDS Service, TLAPS

(* What a step may do to the tasks.  Every step is of one of these forms:  *)
(* that is what the proofs of control, of half results and of the          *)
(* refinement use of it.                                                   *)

Same == UNCHANGED <<job, dirs>> /\ cwd' \in {cwd, "syn"}

Requests(t) ==
    /\ proc = "up" /\ pc[t] = "idle" /\ main = "serving"
    /\ \E l \in Places(job[t].kind) \ {"idle", "flags", "cleanup", "end", "return", "report", "fatal"} :
          pc' = [pc EXCEPT ![t] = l]
    /\ told' = [told EXCEPT ![t] = "waiting"]
    /\ Same /\ UNCHANGED <<main, proc, buf>>

Moves(t) ==
    /\ proc = "up" /\ Waits(t)
    /\ \E l \in Places(job[t].kind) \ {"idle", "flags", "cleanup", "end", "return"} :
          pc' = [pc EXCEPT ![t] = l]
    /\ buf' \in {buf, [buf EXCEPT ![t] = "error"]}
    /\ Same /\ UNCHANGED <<main, proc, told>>

\* Half a result is taken of a Run that panics.
Takes(t, a) == a \in RightAnswers(t, job[t]) /\ (a = "partial" => run[t] = "crash")

Replies(t) ==
    /\ proc = "up" /\ Waits(t) /\ "return" \in Places(job[t].kind)
    /\ pc' = [pc EXCEPT ![t] = "return"]
    /\ \E a : Takes(t, a) /\ buf' = [buf EXCEPT ![t] = a]
    /\ Same /\ UNCHANGED <<main, proc, told>>

Returns(t) ==
    /\ proc = "up" /\ pc[t] = "return"
    /\ pc' = [pc EXCEPT ![t] = "end"]
    /\ told' = [told EXCEPT ![t] = buf[t]]
    /\ Same /\ UNCHANGED <<main, proc, buf>>

Prints(t) ==
    /\ proc = "up" /\ Waits(t) /\ "cleanup" \in Places(job[t].kind)
    /\ pc' = [pc EXCEPT ![t] = "cleanup"]
    /\ \E a : Takes(t, a) /\ told' = [told EXCEPT ![t] = a]
    /\ Same /\ UNCHANGED <<main, proc, buf>>

Panics(t) ==
    /\ proc = "up" /\ Waits(t) /\ "end" \in Places(job[t].kind) /\ job[t].kind = "/ssa"
    /\ pc' = [pc EXCEPT ![t] = "end"]
    /\ told' = [told EXCEPT ![t] = "lost"]
    /\ Same /\ UNCHANGED <<main, proc, buf>>

Endings == {"error", "nil", "trace"}
Ends ==
    /\ proc = "up" /\ proc' \in {"exit", "fatal", "panic", "crash"}
    /\ \/ told' = LostAll
       \/ \E t \in Tasks, word \in Endings : /\ IsCommand(t) /\ told[t] = "waiting"
                                            /\ told' = [told EXCEPT ![t] = word]
    /\ Same /\ UNCHANGED <<main, pc, buf>>

Quiet == Same /\ main' \in {"command", "start", "listening", "serving"}
              /\ (main' = "command" <=> main = "command")
              /\ UNCHANGED <<proc, pc, told, buf>>

Form(t) ==
    Requests(t) \/ Moves(t) \/ Replies(t) \/ Returns(t) \/ Prints(t) \/ Panics(t) \/ Ends \/ Quiet

USE DEF TaskOK, TaskRunOK, Late

\* What a task may ask.
LEMMA JobOK ==
    ASSUME ControlOK, NEW t \in Tasks
    PROVE  /\ job[t].kind \in Commands \cup Pages \cup {"none"}
           /\ IsCommand(t) => /\ job[t].log \in {"off", "stdout", "file", "badfile"}
                              /\ job[t].dump \subseteq {"used", "all"}
<1>1. job[t] \in Jobs \/ job[t] = NoJob
  BY DEF ControlOK
<1>. QED  BY <1>1, JobsAssumption DEF NoJob, IsCommand, Commands

\* A command, or what it runs, ends the process.
LEMMA EndForm ==
    ASSUME ControlOK, NEW t \in Tasks, proc = "up", NEW word \in Endings,
           NEW status \in {"fatal", "panic", "crash"},
           End(status) \/ EndWith(t, word, status), Same, UNCHANGED <<main, pc, buf>>
    PROVE  Form(t)
BY DEF End, EndWith, Ends, Form

\* An error: a command ends, a request reports it.
LEMMA FailForm ==
    ASSUME ControlOK, NEW t \in Tasks, proc = "up", Waits(t), NEW word \in Endings, FailWith(t, word),
           Same, UNCHANGED main, IsCommand(t) \/ "report" \in Places(job[t].kind)
    PROVE  Form(t)
<1>1. CASE IsCommand(t)
  BY <1>1, EndForm DEF FailWith
<1>2. CASE ~IsCommand(t)
  <2>1. Moves(t)
    BY <1>2 DEF FailWith, Goto, Moves
  <2>. QED  BY <2>1 DEF Form
<1>. QED  BY <1>1, <1>2

\* A step to another place of its kind.
LEMMA GotoForm ==
    ASSUME ControlOK, NEW t \in Tasks, proc = "up", Waits(t), Same,
           NEW l \in Places(job[t].kind) \ {"idle", "flags", "cleanup", "end", "return"}, Goto(t, l),
           UNCHANGED <<main, proc, told, buf>>
    PROVE  Form(t)
BY DEF Moves, Goto, Form

\* A right answer that is buffered until the handler returns.
LEMMA ReplyForm ==
    ASSUME ControlOK, NEW t \in Tasks, proc = "up", Waits(t), Same,
           "return" \in Places(job[t].kind),
           NEW a, Takes(t, a), Reply(t, a, "return"), UNCHANGED <<main, proc, told>>
    PROVE  Form(t)
BY DEF Reply, Goto, Replies, Form

\* A right answer that a command prints.
LEMMA PrintForm ==
    ASSUME ControlOK, NEW t \in Tasks, proc = "up", Waits(t), Same,
           "cleanup" \in Places(job[t].kind),
           NEW a, Takes(t, a), PrintOut(t, a, "cleanup"), UNCHANGED main
    PROVE  Form(t)
BY DEF PrintOut, Goto, Prints, Form

\* The main goroutine of a command panics, and its user is told.
LEMMA MainPanicsForm ==
    ASSUME ControlOK, NEW t \in Tasks, IsCommand(t), proc = "up", Waits(t), Same,
           MainPanics(t), UNCHANGED main
    PROVE  Form(t)
BY EndForm DEF MainPanics, Endings

\* Nobody waits for the command that has ended but its user, who was told.
LEMMA Alone ==
    ASSUME ControlOK, NEW t \in Tasks, IsCommand(t)
    PROVE  /\ main = "command"
           /\ \A u \in Tasks \ {t} : ~IsCommand(u) /\ told[u] = "none" /\ pc[u] = "idle"
<1>1. \A u \in Tasks \ {t} : job[u] = NoJob
  BY DEF ControlOK
<1>2. Places("none") = {"idle"}
  BY DEF Places
<1>. QED  BY <1>1, <1>2 DEF ControlOK, NoJob, IsCommand, Commands, Pages

\* The steps before the analysis of a command.
LEMMA LoadForm ==
    ASSUME ControlOK, NEW t \in Tasks, IsCommand(t), LoadStep(t)
    PROVE  Form(t)
<1>1. /\ {"config", "build", "cleanup"} \subseteq Places(job[t].kind)
      /\ job[t].kind \in {"migo", "cfsms"} => "go" \in Places(job[t].kind)
      /\ job[t].kind = "buildssa" => "dump" \in Places(job[t].kind)
      /\ job[t].kind = "checkfair" => "check" \in Places(job[t].kind)
  BY DEF IsCommand, Commands, Places
<1>2. proc = "up" /\ Same /\ UNCHANGED main
  BY DEF LoadStep, CreateLog, NewConfig, BuildSSA, Finish, At, Same
<1>3. CASE CreateLog(t)
  <2>1. Waits(t)
    BY <1>3 DEF CreateLog, At, Waits
  <2>2. CASE job[t].log = "badfile"
    BY <1>2, <1>3, <2>1, <2>2, FailForm DEF CreateLog, Fail, Endings
  <2>3. CASE job[t].log # "badfile"
    BY <1>1, <1>2, <1>3, <2>1, <2>3, GotoForm DEF CreateLog
  <2>. QED  BY <2>2, <2>3
<1>4. CASE NewConfig(t)
  <2>1. Waits(t)
    BY <1>4 DEF NewConfig, At, Waits
  <2>2. CASE job[t].src # "nofiles"
    BY <1>1, <1>2, <1>4, <2>1, <2>2, GotoForm DEF NewConfig
  <2>3. CASE job[t].src = "nofiles" /\ job[t].kind = "cfsms"
    BY <1>2, <1>4, <2>1, <2>3, MainPanicsForm DEF NewConfig
  <2>4. CASE job[t].src = "nofiles" /\ job[t].kind # "cfsms"
    BY <1>2, <1>4, <2>1, <2>4, FailForm DEF NewConfig, Fail, Endings
  <2>. QED  BY <2>2, <2>3, <2>4
<1>5. CASE BuildSSA(t)
  <2>1. Waits(t)
    BY <1>5 DEF BuildSSA, At, Waits
  <2>2. CASE job[t].src = "bad"
    BY <1>2, <1>5, <2>1, <2>2, FailForm DEF BuildSSA, Fail, Endings
  <2>3. CASE job[t].src # "bad"
    <3>1. PICK l \in {"go", "dump", "check"} :
             Goto(t, l) /\ l \in Places(job[t].kind) /\ UNCHANGED <<proc, told, buf>>
      BY <1>1, <1>5, <2>3 DEF BuildSSA, Infers, Extracts, IsCommand, Commands
    <3>. QED  BY <1>2, <2>1, <3>1, GotoForm
  <2>. QED  BY <2>2, <2>3
<1>6. CASE Finish(t)
  BY <1>2, <1>6 DEF Finish, End, Ends, Form
<1>. QED  BY <1>3, <1>4, <1>5, <1>6 DEF LoadStep

\* The results that a caller takes from Run are right: those of a Run that
\* ended, or what there is of them when it panics.
LEMMA ResultsRight ==
    ASSUME ControlOK, RunOK, NEW t \in Tasks, Infers(t) \/ Extracts(t),
           pc[t] \in {"encode", "output", "cfsms"}
    PROVE  Takes(t, Results(t))
<1>1. CASE Infers(t)
  <2>1. done[t] /\ run[t] \in {"crash", "ended"}
    BY <1>1 DEF RunOK, Infers, Extracts
  <2>. QED  BY <1>1, <2>1 DEF RunOK, Infers, Results, RightAnswers, Takes
<1>2. CASE Extracts(t)
  <2>1. run[t] = "ended" /\ ~Infers(t)
    BY <1>2 DEF RunOK, Infers, Extracts
  <2>. QED  BY <1>2, <2>1 DEF Extracts, Results, RightAnswers, Takes
<1>. QED  BY <1>1, <1>2

\* What starts Run and waits for it, in a command or in a page.
LEMMA GoRunForm ==
    ASSUME ControlOK, RunOK, NEW t \in Tasks, Infers(t) \/ Extracts(t),
           GoRun(t) \/ SelectError(t) \/ SelectDone(t) \/ Encode(t)
    PROVE  Form(t)
<1>1. /\ {"go", "select"} \subseteq Places(job[t].kind)
      /\ IF IsCommand(t) THEN "output" \in Places(job[t].kind)
                         ELSE {"encode", "report", "return"} \subseteq Places(job[t].kind)
  BY DEF Infers, Extracts, IsCommand, Commands, Places
<1>2. proc = "up" /\ Same /\ UNCHANGED main
  BY DEF GoRun, SelectError, SelectDone, Encode, Step, At, Same
<1>3. CASE GoRun(t)
  BY <1>1, <1>2, <1>3, GotoForm DEF GoRun, Step, At, Waits
<1>4. CASE SelectError(t)
  <2>1. Waits(t)
    BY <1>4 DEF SelectError, At, Waits
  <2>. QED  BY <1>1, <1>2, <1>4, <2>1, FailForm DEF SelectError, Endings
<1>5. CASE SelectDone(t)
  <2>1. Waits(t)
    BY <1>5 DEF SelectDone, Step, At, Waits
  <2>2. PICK l \in {"output", "encode"} : Goto(t, l) /\ l \in Places(job[t].kind)
    BY <1>1, <1>5 DEF SelectDone, Step
  <2>. QED  BY <1>2, <1>5, <2>1, <2>2, GotoForm DEF SelectDone
<1>6. CASE Encode(t)
  <2>1. Waits(t) /\ pc[t] = "encode" /\ Reply(t, Results(t), "return") /\ UNCHANGED <<proc, told>>
    BY <1>6 DEF Encode, At, Waits
  <2>2. Takes(t, Results(t))
    BY <2>1, ResultsRight
  <2>3. "encode" \in Places(job[t].kind)
    BY <2>1 DEF ControlOK
  <2>4. "return" \in Places(job[t].kind)
    BY <1>1, <2>3 DEF Infers, Extracts, IsCommand, Commands, Places
  <2>. QED  BY <1>2, <2>1, <2>2, <2>4, ReplyForm
<1>. QED  BY <1>3, <1>4, <1>5, <1>6

\* The steps of a command.
LEMMA CommandForm ==
    ASSUME IInv, NEW t \in Tasks, extractMigo(t) \/ extractCFSMs(t) \/ check(t) \/ Build(t)
    PROVE  Form(t)
<1>1. ControlOK /\ RunOK /\ IsCommand(t)
  BY DEF IInv, extractMigo, extractCFSMs, check, Build, Is, IsCommand, Commands
<1>2. CASE LoadStep(t)
  BY <1>1, <1>2, LoadForm
<1>3. CASE (Infers(t) \/ Extracts(t)) /\ (GoRun(t) \/ SelectError(t) \/ SelectDone(t))
  BY <1>1, <1>3, GoRunForm
<1>4. CASE Is(t, "migo") /\ InferOutput(t)
  <2>1. proc = "up" /\ Same /\ UNCHANGED main /\ pc[t] = "output" /\ Waits(t) /\ Infers(t)
    BY <1>4 DEF InferOutput, At, Same, Waits, Infers
  <2>2. Takes(t, Results(t)) /\ "cleanup" \in Places(job[t].kind)
    BY <1>1, <1>4, <2>1, ResultsRight DEF Is, Places
  <2>. QED  BY <1>1, <1>4, <2>1, <2>2, PrintForm, FailForm DEF InferOutput, Fail, Endings
<1>5. CASE Is(t, "cfsms") /\ (WriteDot(t) \/ WriteCFSMs(t))
  <2>1. /\ proc = "up" /\ Same /\ UNCHANGED main /\ pc[t] \in {"output", "cfsms"} /\ Waits(t)
        /\ Extracts(t)
    BY <1>5 DEF WriteDot, WriteCFSMs, At, Same, Waits, Extracts, Is
  <2>2. Takes(t, Results(t)) /\ {"cfsms", "cleanup"} \subseteq Places(job[t].kind)
    BY <1>1, <1>5, <2>1, ResultsRight DEF Is, Places
  <2>3. CASE WriteDot(t)
    BY <1>1, <2>1, <2>2, <2>3, GotoForm, MainPanicsForm DEF WriteDot
  <2>4. CASE WriteCFSMs(t)
    BY <1>1, <2>1, <2>2, <2>4, PrintForm, FailForm, MainPanicsForm DEF WriteCFSMs, Fail, Endings
  <2>. QED  BY <1>5, <2>3, <2>4
<1>6. CASE Is(t, "checkfair") /\ CheckFair(t)
  <2>1. proc = "up" /\ Same /\ UNCHANGED main /\ Waits(t) /\ "cleanup" \in Places(job[t].kind)
    BY <1>6 DEF CheckFair, At, Same, Waits, Is, Places
  <2>2. RightAnswers(t, job[t]) = {IF job[t].src = "nomain" THEN "nothing" ELSE "loops"}
    BY <1>6 DEF Is, RightAnswers
  <2>3. CASE job[t].src \in {"nopkg", "panics"}
    BY <1>1, <1>6, <2>1, <2>3, MainPanicsForm DEF CheckFair
  <2>4. CASE job[t].src = "nomain"
    BY <1>1, <1>6, <2>1, <2>2, <2>4, PrintForm DEF CheckFair, Takes
  <2>5. CASE job[t].src \notin {"nopkg", "panics", "nomain"}
    BY <1>1, <1>6, <2>1, <2>2, <2>5, PrintForm DEF CheckFair, Takes
  <2>. QED  BY <2>3, <2>4, <2>5
<1>7. CASE Is(t, "buildssa") /\ (DumpUsed(t) \/ DumpAll(t))
  <2>1. /\ proc = "up" /\ Same /\ UNCHANGED main /\ Waits(t)
        /\ {"dumpall", "cleanup"} \subseteq Places(job[t].kind)
    BY <1>7 DEF DumpUsed, DumpAll, At, Same, Waits, Is, Places
  <2>2. RightAnswers(t, job[t]) = {IF job[t].dump = {} THEN "nothing" ELSE "ssa"}
    BY <1>7 DEF Is, RightAnswers
  <2>3. CASE DumpUsed(t)
    BY <1>1, <2>1, <2>3, GotoForm, FailForm, MainPanicsForm DEF DumpUsed, Fail, Endings
  <2>4. CASE DumpAll(t)
    BY <1>1, <2>1, <2>2, <2>4, PrintForm, FailForm DEF DumpAll, Takes, Fail, Endings
  <2>. QED  BY <1>7, <2>3, <2>4
<1>. QED
  BY <1>2, <1>3, <1>4, <1>5, <1>6, <1>7
  DEF extractMigo, extractCFSMs, check, Build, Is, Infers, Extracts

-----------------------------------------------------------------------------
(* The pages.                                                              *)

PagePlaces == {"report", "fatal", "return", "end"}

\* The steps of a page.
LEMMA PageForm ==
    ASSUME ControlOK, NEW t \in Tasks, job[t].kind \in Pages, PageStep(t)
    PROVE  Form(t)
<1>1. PagePlaces \subseteq Places(job[t].kind) /\ ~IsCommand(t)
  BY DEF PagePlaces, Places, Pages, IsCommand, Commands
<1>2. proc = "up" /\ Same /\ UNCHANGED main
  BY DEF PageStep, ReadAll, Report, ReportFatal, ReturnPage, Return, Step, At, Same
<1>3. CASE ReadAll(t)
  <2>1. Waits(t) /\ pc[t] = "read"
    BY <1>3 DEF ReadAll, At, Waits
  <2>2. CASE job[t].src = "cut"
    BY <1>1, <1>2, <1>3, <2>1, <2>2, FailForm DEF ReadAll, Fail, Endings, PagePlaces
  <2>3. CASE job[t].src # "cut"
    <3>1. PICK l \in {"open", "tempfile", "lookup", "build"} :
             Goto(t, l) /\ l \in Places(job[t].kind) /\ UNCHANGED <<proc, told, buf>>
      <4>1. pc[t] \in Places(job[t].kind)
        BY DEF ControlOK
      <4>. QED  BY <1>3, <2>1, <2>3, <4>1 DEF ReadAll, Places, Pages
    <3>. QED  BY <1>2, <2>1, <3>1, GotoForm
  <2>. QED  BY <2>2, <2>3
<1>4. CASE Report(t)
  <2>1. Waits(t)
    BY <1>4 DEF Report, Step, At, Waits
  <2>2. /\ pc' = [pc EXCEPT ![t] = "fatal"] /\ buf' = [buf EXCEPT ![t] = "error"]
        /\ "fatal" \in Places(job[t].kind) \ {"idle", "flags", "cleanup", "end", "return"}
        /\ UNCHANGED <<proc, told>>
    BY <1>1, <1>4 DEF Report, Step, Goto, PagePlaces
  <2>3. Moves(t)
    BY <1>2, <2>1, <2>2 DEF Moves
  <2>. QED  BY <2>3 DEF Form
<1>5. CASE ReportFatal(t)
  BY <1>2, <1>5, EndForm DEF ReportFatal, Endings
<1>6. CASE ReturnPage(t)
  <2>1. Returns(t)
    BY <1>2, <1>6 DEF ReturnPage, Return, Step, At, Goto, Returns
  <2>. QED  BY <2>1 DEF Form
<1>. QED  BY <1>3, <1>4, <1>5, <1>6 DEF PageStep

\* A file is opened.
LEMMA OpenForm ==
    ASSUME ControlOK, NEW t \in Tasks, job[t].kind \in {"/", "/load"}, Open(t)
    PROVE  Form(t)
<1>1. /\ proc = "up" /\ Same /\ UNCHANGED main /\ Waits(t) /\ ~IsCommand(t)
      /\ {"report", "return"} \subseteq Places(job[t].kind)
  BY DEF Open, At, Same, Waits, IsCommand, Commands, Places
<1>2. CASE Found(t)
  <2>1. RightAnswers(t, job[t]) = {IF job[t].kind = "/" THEN "index" ELSE "source"}
    BY DEF RightAnswers
  <2>. QED  BY <1>1, <1>2, <2>1, ReplyForm DEF Open, Takes
<1>3. CASE ~Found(t)
  BY <1>1, <1>3, FailForm DEF Open, Fail, Endings
<1>. QED  BY <1>2, <1>3

\* The call graph of a page.
LEMMA ssaForm ==
    ASSUME ControlOK, NEW t \in Tasks, job[t].kind = "/ssa", CallGraph(t) \/ WriteTo(t)
    PROVE  Form(t)
<1>1. /\ proc = "up" /\ Same /\ UNCHANGED main /\ Waits(t) /\ ~IsCommand(t)
      /\ {"building", "return", "end"} \subseteq Places(job[t].kind)
      /\ RightAnswers(t, job[t]) = {"ssa"}
  BY DEF CallGraph, WriteTo, At, Same, Waits, IsCommand, Commands, Places, RightAnswers
<1>2. CASE HandlerPanics(t)
  BY <1>1, <1>2 DEF HandlerPanics, Goto, Panics, Form
<1>3. CASE CallGraph(t) /\ ~HandlerPanics(t)
  BY <1>1, <1>3, GotoForm DEF CallGraph
<1>4. CASE Reply(t, "ssa", "return") /\ UNCHANGED <<proc, told>>
  BY <1>1, <1>4, ReplyForm DEF Takes
<1>5. CASE End("crash") /\ UNCHANGED <<pc, buf>>
  BY <1>1, <1>5, EndForm DEF Endings
<1>. QED  BY <1>2, <1>3, <1>4, <1>5 DEF WriteTo

\* The steps of the pages gong and synthesis that run programs.
LEMMA ProgramsForm ==
    ASSUME ControlOK, NEW t \in Tasks, job[t].kind \in {"/gong", "/synthesis"},
           \/ LookPath(t) \/ Chdir(t) \/ TempFile(t) \/ RunGong(t) \/ RunGMC(t) \/ RunPetrify(t)
           \/ Truncate(t) \/ WriteFile(t) \/ ReadDefault(t) \/ WriteGlobal(t)
           \/ DrawMachines(t) \/ DrawGlobal(t)
    PROVE  Form(t)
<1>1. /\ proc = "up" /\ Same /\ UNCHANGED main /\ Waits(t)
  BY DEF LookPath, Chdir, TempFile, RunGong, RunGMC, RunPetrify, Truncate, WriteFile,
         ReadDefault, WriteGlobal, DrawMachines, DrawGlobal, Step, At, Same, Waits
<1>2. /\ ~IsCommand(t) /\ {"report", "return"} \subseteq Places(job[t].kind)
      /\ pc[t] \in Places(job[t].kind)
  BY DEF IsCommand, Commands, Places, ControlOK
<1>3. CASE Fail(t)
  BY <1>1, <1>2, <1>3, FailForm DEF Fail, Endings
<1>4. CASE RunGong(t) \/ DrawGlobal(t)
  <2>1. PICK a \in {"gong", "synthesis"} :
           Reply(t, a, "return") /\ UNCHANGED <<proc, told>> /\ Takes(t, a)
    BY <1>2, <1>4 DEF RunGong, DrawGlobal, At, Places, Using, RightAnswers, Takes
  <2>. QED  BY <1>1, <1>2, <2>1, ReplyForm
<1>5. CASE (LookPath(t) \/ Chdir(t) \/ TempFile(t)) /\ ~Fail(t)
  <2>1. PICK l \in {"gong", "mkdir", "tempfile", "lookup", "gmc"} :
           Goto(t, l) /\ l \in Places(job[t].kind) /\ UNCHANGED <<proc, told, buf>>
    BY <1>2, <1>5 DEF LookPath, Chdir, TempFile, At, Places, Using
  <2>. QED  BY <1>1, <2>1, GotoForm
<1>6. CASE RunGMC(t) \/ RunPetrify(t) \/ Truncate(t) \/ WriteFile(t) \/ ReadDefault(t)
           \/ WriteGlobal(t) \/ DrawMachines(t)
  <2>1. job[t].kind = "/synthesis"
    BY <1>2, <1>6 DEF RunGMC, RunPetrify, Truncate, WriteFile, ReadDefault, WriteGlobal,
                      DrawMachines, Step, At, Places
  <2>2. PICK l \in {"petrify", "truncate"} \cup Using :
           Goto(t, l) /\ l \in Places(job[t].kind) /\ UNCHANGED <<proc, told, buf>>
    BY <1>6, <2>1 DEF RunGMC, RunPetrify, Truncate, WriteFile, ReadDefault, WriteGlobal,
                      DrawMachines, Step, Places, Using
  <2>3. l \notin {"idle", "flags", "cleanup", "end", "return", "report", "fatal"}
    BY DEF Using
  <2>. QED  BY <1>1, <2>2, <2>3, GotoForm
<1>. QED  BY <1>3, <1>4, <1>5, <1>6

\* Every step of a task has a form.
LEMMA TaskForm ==
    ASSUME IInv, NEW t \in Tasks, TaskStep(t)
    PROVE  Form(t)
<1>. USE DEF IInv
<1>1. CASE extractMigo(t) \/ extractCFSMs(t) \/ check(t) \/ Build(t)
  BY <1>1, CommandForm
<1>2. CASE job[t].kind \in Pages /\ PageStep(t)
  BY <1>2, PageForm
<1>3. CASE job[t].kind \in {"/", "/load"} /\ Open(t)
  BY <1>3, OpenForm
<1>4. CASE job[t].kind = "/ssa" /\ (CallGraph(t) \/ WriteTo(t))
  BY <1>4, ssaForm
<1>5. CASE /\ job[t].kind \in {"/migo", "/cfsm"}
           /\ GoRun(t) \/ SelectError(t) \/ SelectDone(t) \/ Encode(t)
  BY <1>5, GoRunForm DEF Infers, Extracts
<1>6. CASE job[t].kind \in {"/ssa", "/migo", "/cfsm"} /\ BuildSSA(t)
  <2>1. /\ proc = "up" /\ Same /\ UNCHANGED main /\ Waits(t) /\ ~IsCommand(t)
        /\ "report" \in Places(job[t].kind)
    BY <1>6 DEF BuildSSA, At, Same, Waits, IsCommand, Commands, Places
  <2>2. CASE job[t].src = "bad"
    BY <1>6, <2>1, <2>2, FailForm DEF BuildSSA, Fail, Endings
  <2>3. CASE job[t].src # "bad"
    <3>1. PICK l \in {"go", "callgraph"} :
             Goto(t, l) /\ l \in Places(job[t].kind) /\ UNCHANGED <<proc, told, buf>>
      BY <1>6, <2>3 DEF BuildSSA, Infers, Extracts, Places
    <3>. QED  BY <2>1, <3>1, GotoForm
  <2>. QED  BY <2>2, <2>3
<1>7. CASE /\ job[t].kind \in {"/gong", "/synthesis"}
           /\ \/ LookPath(t) \/ Chdir(t) \/ TempFile(t) \/ RunGong(t) \/ RunGMC(t) \/ RunPetrify(t)
              \/ Truncate(t) \/ WriteFile(t) \/ ReadDefault(t) \/ WriteGlobal(t)
              \/ DrawMachines(t) \/ DrawGlobal(t)
  BY <1>7, ProgramsForm
<1>. QED
  BY <1>1, <1>2, <1>3, <1>4, <1>5, <1>6, <1>7
  DEF TaskStep, indexHandler, loadHandler, ssaHandler, migoHandler, cfsmHandler, gongHandler,
      synthesisHandler, Is, Pages

-----------------------------------------------------------------------------
(* Run and the server.                                                     *)

\* Every step of a goroutine that runs an analysis has one.
LEMMA RunForm ==
    ASSUME ControlOK, RunOK, NEW t \in Tasks, RunStep(t)
    PROVE  Form(t)
<1>1. proc = "up" /\ Same /\ UNCHANGED <<main, pc, buf>> /\ run[t] \notin {"none", "alone", "shared"}
  BY DEF RunStep, InferRun, ExtractRun, InferStart, InferVisit, InferQueue, InferUnwind, InferCrash,
         ExtractStart, ExtractVisit, Running, procVars, Same, driverVars
<1>3. main \in {"command", "start", "listening", "serving"}
  BY DEF ControlOK
<1>4. CASE UNCHANGED <<proc, told>>
  BY <1>1, <1>3, <1>4 DEF Quiet, Form
<1>5. ASSUME NEW word \in Endings, NEW status \in {"fatal", "crash"}, End(status) \/ EndWith(t, word, status)
      PROVE  Form(t)
  BY <1>1, <1>5, EndForm
<1>6. \/ UNCHANGED <<proc, told>> \/ End("fatal") \/ EndWith(t, "error", "fatal")
      \/ EndWith(t, "trace", "crash")
  BY DEF RunStep, InferRun, ExtractRun, InferStart, InferVisit, InferQueue, InferUnwind, InferCrash,
         ExtractStart, ExtractVisit, procVars
<1>. QED  BY <1>4, <1>5, <1>6 DEF Endings

\* Every step of the server has one.
LEMMA ServerForm ==
    ASSUME ControlOK, NEW t \in Tasks, ServerStep
    PROVE  Form(t)
<1>1. proc = "up" /\ Same /\ UNCHANGED <<pc, buf>> /\ main # "command"
  BY DEF ServerStep, InitPlayground, Listener, ServeReturns, Same
<1>2. CASE UNCHANGED <<proc, told>> /\ main' \in {"listening", "serving"}
  BY <1>1, <1>2 DEF Quiet, Form
<1>3. CASE UNCHANGED main /\ (End("fatal") \/ End("exit"))
  BY <1>1, <1>3 DEF End, Ends, Form
<1>. QED  BY <1>2, <1>3 DEF ServerStep, InitPlayground, Listener, ServeReturns

\* A request has one.
LEMMA RequestForm ==
    ASSUME ControlOK, NEW t \in Tasks, Request(t)
    PROVE  Form(t)
<1>1. /\ proc = "up" /\ pc[t] = "idle" /\ main = "serving" /\ Same /\ UNCHANGED <<main, proc, buf>>
      /\ told' = [told EXCEPT ![t] = "waiting"]
  BY DEF Request, Step, At, Same
<1>2. PICK l \in {"open", "read"} :
         pc' = [pc EXCEPT ![t] = l] /\ (l = "open" <=> job[t].kind = "/")
  BY DEF Request, Step, Goto
<1>3. job[t].kind \in Pages
  BY <1>1 DEF ControlOK
<1>4. l \in Places(job[t].kind)
  BY <1>2, <1>3 DEF Places, Pages
<1>5. Requests(t)
  BY <1>1, <1>2, <1>4 DEF Requests
<1>. QED  BY <1>5 DEF Form

-----------------------------------------------------------------------------
(* Control, for every form of step.                                        *)

Final == {"waiting", "none", "error", "nil", "trace", "lost"}

\* An answer is neither an error nor a loss.
LEMMA RightAnswersAreTexts ==
    ASSUME NEW t, NEW j
    PROVE  RightAnswers(t, j) \subseteq Texts \ Final
BY DEF RightAnswers, Texts, Final

\* A task that a step leaves alone.
LEMMA Unmoved ==
    ASSUME ControlOK, NEW u \in Tasks, UNCHANGED <<job, proc>>, main' = "command" <=> main = "command",
           pc'[u] = pc[u], told'[u] = told[u], buf'[u] = buf[u]
    PROVE  TaskOK(u)'
BY DEF ControlOK, Waits, IsCommand

\* A step of any form preserves ControlOK.
LEMMA ControlStep ==
    ASSUME ControlOK, NEW t \in Tasks, Form(t)
    PROVE  ControlOK'
<1>. DEFINE Typed == /\ pc' \in [Tasks -> AllPlaces] /\ buf' \in [Tasks -> Texts]
                     /\ told' \in [Tasks -> Texts]
<1>. HIDE DEF Typed
<1>1. /\ job' = job /\ dirs' = dirs /\ cwd' \in {"start", "syn"} /\ job[t].kind \in Commands \cup Pages \cup {"none"}
      /\ main' \in {"command", "start", "listening", "serving"} /\ (main' = "command" <=> main = "command")
      /\ proc' \in {"up", "exit", "fatal", "panic", "crash"}
  BY JobOK DEF ControlOK, Form, Same, Requests, Moves, Replies, Returns, Prints, Panics, Ends, Quiet
<1>2. SUFFICES Typed /\ \A u \in Tasks : TaskOK(u)'
  BY <1>1 DEF ControlOK, Typed
<1>3. RightAnswers(t, job[t]) \subseteq Texts \ Final
  BY RightAnswersAreTexts
<1>4. ASSUME NEW l \in Places(job[t].kind) PROVE l \in AllPlaces
  BY <1>1 DEF AllPlaces
<1>5. CASE Requests(t)
  <2>1. PICK l \in Places(job[t].kind) \ {"idle", "flags", "cleanup", "end", "return", "report", "fatal"} :
           pc' = [pc EXCEPT ![t] = l]
    BY <1>5 DEF Requests
  <2>2. Typed
    BY <1>4, <1>5, <2>1 DEF Requests, Typed, ControlOK, Texts
  <2>3. TaskOK(t)'
    BY <1>1, <1>5, <2>1 DEF Requests, ControlOK, Waits, IsCommand
  <2>4. ASSUME NEW u \in Tasks \ {t} PROVE TaskOK(u)'
    BY <1>1, <1>5, <2>1, Unmoved DEF Requests, ControlOK
  <2>. QED  BY <2>2, <2>3, <2>4
<1>6. CASE Moves(t)
  <2>1. PICK l \in Places(job[t].kind) \ {"idle", "flags", "cleanup", "end", "return"} :
           pc' = [pc EXCEPT ![t] = l]
    BY <1>6 DEF Moves
  <2>2. PICK a \in Texts : buf' = [buf EXCEPT ![t] = a]
    <3>1. buf[t] \in Texts /\ buf = [buf EXCEPT ![t] = buf[t]] /\ "error" \in Texts
      BY DEF ControlOK, Texts
    <3>. QED  BY <1>6, <3>1 DEF Moves
  <2>3. Typed
    BY <1>4, <1>6, <2>1, <2>2 DEF Moves, Typed, ControlOK
  <2>4. TaskOK(t)'
    BY <1>1, <1>6, <2>1 DEF Moves, ControlOK, Waits, IsCommand
  <2>5. ASSUME NEW u \in Tasks \ {t} PROVE TaskOK(u)'
    BY <1>1, <1>6, <2>1, <2>2, Unmoved DEF Moves, ControlOK
  <2>. QED  BY <2>3, <2>4, <2>5
<1>7. CASE Replies(t)
  <2>1. PICK a \in RightAnswers(t, job[t]) : buf' = [buf EXCEPT ![t] = a]
    BY <1>7 DEF Replies, Takes
  <2>2. Typed
    BY <1>3, <1>4, <1>7, <2>1 DEF Replies, Typed, ControlOK
  <2>3. TaskOK(t)'
    BY <1>1, <1>7, <2>1 DEF Replies, ControlOK, Waits, IsCommand
  <2>4. ASSUME NEW u \in Tasks \ {t} PROVE TaskOK(u)'
    BY <1>1, <1>7, <2>1, Unmoved DEF Replies, ControlOK
  <2>. QED  BY <2>2, <2>3, <2>4
<1>8. CASE Returns(t)
  <2>1. "end" \in Places(job[t].kind) /\ buf[t] \in Texts \ Final
    BY <1>3, <1>8 DEF Returns, ControlOK, Places
  <2>2. Typed
    BY <1>4, <1>8, <2>1 DEF Returns, Typed, ControlOK
  <2>3. TaskOK(t)'
    BY <1>1, <1>8, <2>1 DEF Returns, ControlOK, Waits, IsCommand, Final
  <2>4. ASSUME NEW u \in Tasks \ {t} PROVE TaskOK(u)'
    BY <1>1, <1>8, Unmoved DEF Returns, ControlOK
  <2>. QED  BY <2>2, <2>3, <2>4
<1>9. CASE Prints(t)
  <2>1. PICK a \in RightAnswers(t, job[t]) : told' = [told EXCEPT ![t] = a]
    BY <1>9 DEF Prints, Takes
  <2>2. Typed
    BY <1>3, <1>4, <1>9, <2>1 DEF Prints, Typed, ControlOK
  <2>3. TaskOK(t)'
    BY <1>1, <1>3, <1>9, <2>1 DEF Prints, ControlOK, Waits, IsCommand, Final
  <2>4. ASSUME NEW u \in Tasks \ {t} PROVE TaskOK(u)'
    BY <1>1, <1>9, <2>1, Unmoved DEF Prints, ControlOK
  <2>. QED  BY <2>2, <2>3, <2>4
<1>10. CASE Panics(t)
  <2>1. Typed
    BY <1>4, <1>10 DEF Panics, Typed, ControlOK, Texts
  <2>2. TaskOK(t)'
    BY <1>1, <1>10 DEF Panics, ControlOK, Waits, IsCommand
  <2>3. ASSUME NEW u \in Tasks \ {t} PROVE TaskOK(u)'
    BY <1>1, <1>10, Unmoved DEF Panics, ControlOK
  <2>. QED  BY <2>1, <2>2, <2>3
<1>11. CASE Ends
  <2>1. \/ told' = LostAll
        \/ \E c \in Tasks, word \in Endings :
              /\ told[c] = "waiting" /\ told' = [told EXCEPT ![c] = word]
              /\ \A u \in Tasks \ {c} : told[u] = "none"
    BY <1>11, Alone DEF Ends
  <2>2. /\ told' \in [Tasks -> Texts]
        /\ \A u \in Tasks : told'[u] # "waiting" /\ (told'[u] = "none" <=> told[u] = "none")
    BY <2>1 DEF LostAll, ControlOK, Texts, Endings
  <2>3. Typed
    BY <1>11, <2>2 DEF Ends, Typed, ControlOK
  <2>4. ASSUME NEW u \in Tasks PROVE TaskOK(u)'
    BY <1>1, <1>11, <2>2 DEF Ends, ControlOK, IsCommand
  <2>. QED  BY <2>3, <2>4
<1>12. CASE Quiet
  <2>1. Typed
    BY <1>12 DEF Quiet, Typed, ControlOK
  <2>2. ASSUME NEW u \in Tasks PROVE TaskOK(u)'
    BY <1>1, <1>12, Unmoved DEF Quiet
  <2>. QED  BY <2>1, <2>2
<1>. QED  BY <1>5, <1>6, <1>7, <1>8, <1>9, <1>10, <1>11, <1>12 DEF Form

-----------------------------------------------------------------------------
(* The goroutine Run.                                                      *)

\* Steps that leave the Runs alone, and bring no task to where their results
\* are used, or back before they start.
RunAlone ==
    /\ UNCHANGED <<job, run, err, done>>
    /\ \A u \in Tasks : /\ pc'[u] \in Early => pc[u] \in Early
                        /\ pc'[u] \in Late => pc[u] \in Late

\* A Run that panicked stays so.
CrashStays == \A u \in Tasks : run[u] = "crash" => run'[u] = "crash"

\* A step that leaves Run and its channels alone.
LEMMA RunAloneOK ==
    ASSUME RunOK, RunAlone
    PROVE  RunOK' /\ CrashStays
BY DEF RunOK, RunAlone, CrashStays, Infers, Extracts

\* The steps of the server and of the requests are such.
LEMMA ServerRunAlone ==
    ASSUME ControlOK, NEW t \in Tasks, ServerStep \/ Request(t) \/ PageStep(t), UNCHANGED driverVars
    PROVE  RunAlone
<1>1. UNCHANGED <<job, run, err, done>>
  BY DEF driverVars, ServerStep, InitPlayground, Listener, ServeReturns, Request, PageStep, ReadAll, Report,
         ReportFatal, ReturnPage, Return
<1>2. CASE ServerStep \/ ReportFatal(t)
  BY <1>1, <1>2 DEF RunAlone, ServerStep, InitPlayground, Listener, ServeReturns, ReportFatal
<1>3. CASE Request(t) \/ ReadAll(t) \/ Report(t) \/ ReturnPage(t)
  <2>1. CASE pc' = pc
    BY <1>1, <2>1 DEF RunAlone
  <2>2. CASE pc[t] \in Early /\ pc' # pc
    <3>1. PICK l \in {"open", "read", "tempfile", "lookup", "build", "report"} : pc' = [pc EXCEPT ![t] = l]
      <4>1. Request(t) \/ ReadAll(t)
        BY <1>3, <2>2 DEF Report, ReturnPage, Return, Step, At, Early
      <4>2. CASE Request(t)
        BY <4>2 DEF Request, Step, Goto
      <4>3. CASE ReadAll(t) /\ Fail(t)
        BY <4>3, <2>2 DEF Fail, FailWith, Goto
      <4>4. CASE ReadAll(t) /\ ~Fail(t)
        BY <4>4 DEF ReadAll, Goto
      <4>. QED  BY <4>1, <4>2, <4>3, <4>4
    <3>. QED  BY <1>1, <2>2, <3>1 DEF RunAlone, ControlOK
  <2>3. CASE pc[t] \notin Early
    <3>1. PICK l \in {"fatal", "end"} : pc' = [pc EXCEPT ![t] = l]
      BY <1>3, <2>3 DEF Request, ReadAll, Report, ReturnPage, Return, Step, At, Goto, Early
    <3>. QED  BY <1>1, <3>1 DEF RunAlone, ControlOK, Early
  <2>. QED  BY <2>1, <2>2, <2>3
<1>. QED  BY <1>2, <1>3 DEF PageStep

\* So are those of a driver outside go and select.
LEMMA DriverRunAlone ==
    ASSUME ControlOK, NEW t \in Tasks,
           \/ CreateLog(t) \/ NewConfig(t) \/ BuildSSA(t) \/ Finish(t) \/ SelectError(t) \/ Encode(t)
           \/ InferOutput(t) \/ WriteDot(t) \/ WriteCFSMs(t) \/ CheckFair(t)
           \/ DumpUsed(t) \/ DumpAll(t) \/ WriteTo(t)
    PROVE  RunAlone
<1>1. UNCHANGED <<job, run, err, done>>
  BY DEF driverVars, CreateLog, NewConfig, BuildSSA, Finish, SelectError, Encode, InferOutput, WriteDot,
         WriteCFSMs, CheckFair, DumpUsed, DumpAll, WriteTo
<1>2. CASE pc' = pc
  BY <1>1, <1>2 DEF RunAlone
<1>3. CASE (CreateLog(t) \/ NewConfig(t) \/ BuildSSA(t)) /\ pc' # pc
  <2>1. PICK l : pc' = [pc EXCEPT ![t] = l] /\ l \notin Late
    <3>1. CASE CreateLog(t) \/ NewConfig(t)
      BY <1>3, <3>1 DEF CreateLog, NewConfig, Goto, Fail, FailWith, MainPanics
    <3>2. CASE BuildSSA(t)
      <4>1. job[t].kind \in {"migo", "/migo", "cfsms", "/cfsm", "checkfair", "buildssa", "/ssa"}
        <5>1. "build" \in Places(job[t].kind)
          BY <3>2 DEF BuildSSA, At, ControlOK
        <5>. QED  BY <5>1, JobOK DEF Places, Commands, Pages, Using
      <4>. QED  BY <1>3, <3>2, <4>1 DEF BuildSSA, Goto, Fail, FailWith, Infers, Extracts
    <3>. QED  BY <1>3, <3>1, <3>2
  <2>2. pc[t] \in Early
    BY <1>3 DEF CreateLog, NewConfig, BuildSSA, At, Early
  <2>. QED  BY <1>1, <2>1, <2>2 DEF RunAlone, ControlOK
<1>4. CASE /\ \/ SelectError(t) \/ Encode(t) \/ InferOutput(t) \/ WriteCFSMs(t) \/ CheckFair(t)
              \/ DumpUsed(t) \/ DumpAll(t) \/ WriteTo(t)
           /\ pc' # pc
  <2>1. PICK l \in {"report", "return", "cleanup", "dumpall", "end"} : pc' = [pc EXCEPT ![t] = l]
    BY <1>4 DEF SelectError, Encode, InferOutput, WriteCFSMs, CheckFair, DumpUsed, DumpAll, WriteTo,
         Goto, Fail, FailWith, Reply, PrintOut, HandlerPanics, MainPanics
  <2>. QED  BY <1>1, <2>1 DEF RunAlone, ControlOK, Early
<1>5. CASE WriteDot(t) /\ pc' # pc
  <2>1. pc' = [pc EXCEPT ![t] = "cfsms"] /\ pc[t] = "output"
    BY <1>5 DEF WriteDot, At, Goto, MainPanics
  <2>. QED  BY <1>1, <2>1 DEF RunAlone, ControlOK, Early
<1>. QED  BY <1>2, <1>3, <1>4, <1>5 DEF Finish

\* So are those that run other programs.
LEMMA ProgramsRunAlone ==
    ASSUME ControlOK, NEW t \in Tasks, UNCHANGED driverVars,
           \/ Open(t) \/ LookPath(t) \/ Chdir(t) \/ TempFile(t) \/ RunGong(t) \/ RunGMC(t)
           \/ RunPetrify(t) \/ Truncate(t) \/ WriteFile(t) \/ ReadDefault(t) \/ WriteGlobal(t)
           \/ DrawMachines(t) \/ DrawGlobal(t)
    PROVE  RunAlone
<1>1. UNCHANGED <<job, run, err, done>>
  BY DEF driverVars, Open, LookPath, Chdir, TempFile, RunGong, RunGMC, RunPetrify, Truncate, WriteFile,
         ReadDefault, WriteGlobal, DrawMachines, DrawGlobal
<1>2. CASE pc' = pc
  BY <1>1, <1>2 DEF RunAlone
<1>3. CASE pc' # pc
  <2>1. PICK l \in {"report", "return", "gong", "mkdir", "tempfile", "lookup", "gmc", "petrify", "truncate"}
                   \cup Using : pc' = [pc EXCEPT ![t] = l]
    BY <1>3 DEF Open, LookPath, Chdir, TempFile, RunGong, RunGMC, RunPetrify, Truncate, WriteFile,
         ReadDefault, WriteGlobal, DrawMachines, DrawGlobal, Step, Goto, Fail, FailWith, Reply, Using
  <2>. QED  BY <1>1, <2>1 DEF RunAlone, ControlOK, Early, Using
<1>. QED  BY <1>2, <1>3

\* Steps of the Run of one task: the others keep theirs.
RunOnly(t) ==
    /\ UNCHANGED job
    /\ \A u \in Tasks \ {t} : run'[u] = run[u] /\ err'[u] = err[u] /\ done'[u] = done[u] /\ pc'[u] = pc[u]

\* A step that changes Run for one task.
LEMMA RunOnlyOK ==
    ASSUME RunOK, NEW t \in Tasks, RunOnly(t), TaskRunOK(t)', run' \in [Tasks -> Runs],
           err' \in [Tasks -> BOOLEAN], done' \in [Tasks -> BOOLEAN],
           run[t] = "crash" => run'[t] = "crash"
    PROVE  RunOK' /\ CrashStays
BY DEF RunOK, RunOnly, CrashStays, Infers, Extracts

\* A caller starts Run.
LEMMA GoRunOK ==
    ASSUME ControlOK, RunOK, NEW t \in Tasks, Infers(t) \/ Extracts(t), GoRun(t)
    PROVE  RunOK' /\ CrashStays
<1>1. run[t] = "none" /\ pc' = [pc EXCEPT ![t] = "select"] /\ run' = [run EXCEPT ![t] = "start"]
      /\ UNCHANGED <<job, err, done>>
  BY DEF GoRun, Step, At, Goto, RunOK, Early
<1>2. ~done[t] /\ ~(Infers(t) /\ Extracts(t))
  BY <1>1 DEF RunOK, Infers, Extracts
<1>3. TaskRunOK(t)'
  BY <1>1, <1>2 DEF RunOK, ControlOK, Infers, Extracts, Early
<1>4. run' \in [Tasks -> Runs] /\ RunOnly(t)
  BY <1>1 DEF RunOK, ControlOK, Runs, RunOnly
<1>. QED  BY <1>1, <1>3, <1>4, RunOnlyOK DEF RunOK

\* A caller receives from Done.
LEMMA SelectDoneOK ==
    ASSUME ControlOK, RunOK, NEW t \in Tasks, Infers(t) \/ Extracts(t), SelectDone(t)
    PROVE  RunOK' /\ CrashStays
<1>1. /\ UNCHANGED <<job, err, done>> /\ pc[t] = "select"
      /\ \/ done[t] /\ run' = run
         \/ run[t] = "send" /\ run' = [run EXCEPT ![t] = "ended"]
  BY DEF SelectDone, Running, RunTo, Step, At
<1>2. PICK l \in Late : pc' = [pc EXCEPT ![t] = l]
  BY DEF SelectDone, Step, Goto
<1>3. TaskRunOK(t)'
  BY <1>1, <1>2 DEF RunOK, ControlOK, Infers, Extracts, Early
<1>4. run' \in [Tasks -> Runs] /\ RunOnly(t)
  BY <1>1, <1>2 DEF RunOK, ControlOK, Runs, RunOnly
<1>. QED  BY <1>1, <1>3, <1>4, RunOnlyOK DEF RunOK

\* A page builds its call graph, alone or beside another.
LEMMA CallGraphOK ==
    ASSUME ControlOK, RunOK, NEW t \in Tasks, job[t].kind = "/ssa", CallGraph(t)
    PROVE  RunOK' /\ CrashStays
<1>1. UNCHANGED <<job, err, done>> /\ pc[t] = "callgraph"
  BY DEF CallGraph, At
<1>2. PICK l \in {"end", "building"} : pc' = [pc EXCEPT ![t] = l]
  BY DEF CallGraph, HandlerPanics, Goto
<1>3. \A u \in Tasks : run'[u] = run[u] \/ (run'[u] \in {"alone", "shared"} /\ u \in Building \cup {t})
  BY DEF CallGraph
<1>4. run' \in [Tasks -> Runs]
  BY DEF CallGraph, RunOK, Runs
<1>5. \A u \in Building : job[u].kind = "/ssa" /\ u \in Tasks
  BY JobOK DEF Building, ControlOK, Places, Using, Commands, Pages
<1>6. ASSUME NEW u \in Tasks PROVE TaskRunOK(u)' /\ (run[u] = "crash" => run'[u] = "crash")
  <2>1. CASE u \in Building \cup {t}
    <3>1. ~Infers(u) /\ ~Extracts(u) /\ pc'[u] \notin Early \cup Late /\ run[u] \in {"none", "alone", "shared"}
      BY <1>1, <1>2, <1>5, <2>1 DEF RunOK, Infers, Extracts, Building, Early, ControlOK
    <3>. QED  BY <1>1, <1>3, <3>1 DEF RunOK, Infers, Extracts
  <2>2. CASE u \notin Building \cup {t}
    BY <1>1, <1>2, <1>3, <2>2 DEF RunOK, Infers, Extracts, ControlOK
  <2>. QED  BY <2>1, <2>2
<1>. QED  BY <1>1, <1>4, <1>6 DEF RunOK, CrashStays

\* Run goes on: it signals what it did.
LEMMA RunRunOK ==
    ASSUME ControlOK, RunOK, NEW t \in Tasks, RunStep(t)
    PROVE  RunOK' /\ CrashStays
<1>1. UNCHANGED <<job, pc>> /\ run[t] \notin {"none", "alone", "shared"} /\ pc[t] \notin Early
  BY DEF RunStep, InferRun, ExtractRun, InferStart, InferVisit, InferQueue, InferUnwind, InferCrash,
         ExtractStart, ExtractVisit, Running, procVars, driverVars, RunOK
<1>2. CASE UNCHANGED <<run, err, done>>
  BY <1>1, <1>2, RunAloneOK DEF RunAlone
<1>3. CASE InferStart(t) \/ InferVisit(t) \/ InferQueue(t) \/ InferUnwind(t)
  <2>1. Infers(t) /\ ~Extracts(t)
    BY <1>1, <1>3 DEF InferStart, InferVisit, InferQueue, InferUnwind, Running, RunOK, Infers, Extracts
  <2>2. TaskRunOK(t)'
    <3>1. job[t]' = job[t] /\ Infers(t)' /\ ~Extracts(t)' /\ pc'[t] = pc[t]
      BY <1>1, <2>1 DEF Infers, Extracts
    <3>2. CASE InferStart(t)
      BY <1>1, <2>1, <3>1, <3>2 DEF InferStart, Running, RunTo, RunOK, Panicking
    <3>3. CASE InferVisit(t)
      <4>1. /\ run[t] = "visit" /\ UNCHANGED <<err, done>>
            /\ \/ run' = run
               \/ job[t].src \in {"nomain", "panics"} /\ run' = [run EXCEPT ![t] = "unwind"]
               \/ job[t].src \notin {"nomain", "panics", "unknown"} /\ run' = [run EXCEPT ![t] = "queue"]
        BY <3>3 DEF InferVisit, Running, RunTo
      <4>2. job[t].src # "nopkg"
        BY <2>1, <4>1 DEF RunOK
      <4>. QED  BY <1>1, <2>1, <3>1, <4>1, <4>2 DEF RunOK, Panicking
    <3>4. CASE InferQueue(t)
      BY <1>1, <2>1, <3>1, <3>4 DEF InferQueue, Running, RunTo, RunOK
    <3>5. CASE InferUnwind(t)
      BY <1>1, <2>1, <3>1, <3>5 DEF InferUnwind, Running, RunTo, RunOK
    <3>. QED  BY <1>3, <3>2, <3>3, <3>4, <3>5
  <2>3. /\ RunOnly(t) /\ run' \in [Tasks -> Runs] /\ err' \in [Tasks -> BOOLEAN] /\ done' \in [Tasks -> BOOLEAN]
        /\ run[t] # "crash"
    BY <1>1, <1>3
    DEF InferStart, InferVisit, InferQueue, InferUnwind, Running, RunTo, RunOK, RunOnly, Runs
  <2>. QED  BY <2>2, <2>3, RunOnlyOK
<1>4. CASE (ExtractStart(t) \/ ExtractVisit(t)) /\ run' # run
  <2>1. /\ Extracts(t) /\ ~Infers(t) /\ UNCHANGED <<err, done>>
        /\ \E l \in {"visit", "send"} : run' = [run EXCEPT ![t] = l]
        /\ run[t] \notin {"ended", "crash"}
    BY <1>4 DEF ExtractStart, ExtractVisit, Running, RunTo, Infers, Extracts
  <2>2. TaskRunOK(t)'
    BY <1>1, <2>1 DEF RunOK, Infers, Extracts
  <2>3. RunOnly(t) /\ run' \in [Tasks -> Runs]
    BY <1>1, <2>1 DEF RunOK, RunOnly, Runs
  <2>. QED  BY <2>1, <2>2, <2>3, RunOnlyOK DEF RunOK
<1>. QED
  BY <1>2, <1>3, <1>4
  DEF RunStep, InferRun, ExtractRun, InferCrash, ExtractStart, ExtractVisit, driverVars

\* Every step preserves RunOK.
LEMMA RunOKStep ==
    ASSUME ControlOK, RunOK, Next
    PROVE  RunOK' /\ CrashStays
<1>1. ASSUME NEW t \in Tasks, TaskStep(t) PROVE RunOK' /\ CrashStays
  <2>1. CASE (PageStep(t) \/ Open(t)) /\ UNCHANGED driverVars
    BY <2>1, ServerRunAlone, ProgramsRunAlone, RunAloneOK
  <2>2. CASE job[t].kind \in {"migo", "cfsms", "/migo", "/cfsm"} /\ (GoRun(t) \/ SelectDone(t))
    BY <2>2, GoRunOK, SelectDoneOK DEF Infers, Extracts
  <2>3. CASE job[t].kind = "/ssa" /\ CallGraph(t)
    BY <2>3, CallGraphOK
  <2>4. CASE \/ CreateLog(t) \/ NewConfig(t) \/ BuildSSA(t) \/ Finish(t) \/ SelectError(t) \/ Encode(t)
             \/ InferOutput(t) \/ WriteDot(t) \/ WriteCFSMs(t) \/ CheckFair(t)
             \/ DumpUsed(t) \/ DumpAll(t) \/ WriteTo(t)
    BY <2>4, DriverRunAlone, RunAloneOK
  <2>5. CASE /\ UNCHANGED driverVars
             /\ \/ LookPath(t) \/ Chdir(t) \/ TempFile(t) \/ RunGong(t) \/ RunGMC(t)
                \/ RunPetrify(t) \/ Truncate(t) \/ WriteFile(t) \/ ReadDefault(t) \/ WriteGlobal(t)
                \/ DrawMachines(t) \/ DrawGlobal(t)
    BY <2>5, ProgramsRunAlone, RunAloneOK
  <2>. QED
    BY <1>1, <2>1, <2>2, <2>3, <2>4, <2>5
    DEF TaskStep, extractMigo, extractCFSMs, check, Build, LoadStep, indexHandler, loadHandler, ssaHandler,
        migoHandler, cfsmHandler, gongHandler, synthesisHandler, Is, PageStep
<1>2. ASSUME NEW t \in Tasks, Request(t) /\ UNCHANGED <<driverVars, synthVars>> PROVE RunOK' /\ CrashStays
  BY <1>2, ServerRunAlone, RunAloneOK
<1>3. CASE ServerStep /\ UNCHANGED <<driverVars, synthVars>>
  <2>1. UNCHANGED <<job, run, err, done>> /\ pc' = pc
    BY <1>3 DEF driverVars, ServerStep, InitPlayground, Listener, ServeReturns
  <2>. QED  BY <2>1, RunAloneOK DEF RunAlone
<1>. QED  BY <1>1, <1>2, <1>3, RunRunOK DEF Next

-----------------------------------------------------------------------------
(* Half results.                                                           *)

\* A step of any form that leaves panicked Runs so: what it buffers or tells
\* is of a Run that panicked, if it is half a result.
LEMMA HalfStep ==
    ASSUME ControlOK, HalfResults, NEW t \in Tasks, Form(t), CrashStays
    PROVE  HalfResults'
<1>1. SUFFICES ASSUME NEW u \in Tasks, "partial" \in {buf'[u], told'[u]}, "partial" \notin {buf[u], told[u]}
               PROVE  run[u] = "crash"
  BY DEF HalfResults, CrashStays
<1>2. buf \in [Tasks -> Texts] /\ told \in [Tasks -> Texts]
  BY DEF ControlOK
<1>3. ~Requests(t) /\ ~Moves(t) /\ ~Panics(t) /\ ~Quiet
  BY <1>1, <1>2 DEF Requests, Moves, Panics, Quiet
<1>4. CASE Replies(t)
  BY <1>1, <1>2, <1>4 DEF Replies, Takes
<1>5. CASE Prints(t)
  BY <1>1, <1>2, <1>5 DEF Prints, Takes
<1>6. CASE Returns(t)
  BY <1>1, <1>2, <1>6 DEF Returns
<1>7. ~Ends
  BY <1>1, <1>2 DEF Ends, LostAll, Endings
<1>. QED  BY <1>3, <1>4, <1>5, <1>6, <1>7 DEF Form

-----------------------------------------------------------------------------
(* The log.                                                                *)

Logs == [to : {"none", "off", "stdout", "file"}, said : Nat, held : Nat, kept : Nat]
Kept(l) ==
    /\ l \in Logs /\ l.kept + l.held = l.said /\ l.held <= BufLines
    /\ l.to # "file" => l.held = 0

\* A log with other numbers of lines that add up.
Log(to, s, h, k) == [to |-> to, said |-> s, held |-> h, kept |-> k]

\* A log whose numbers agree is kept.
LEMMA LinesKept ==
    ASSUME NEW l, Kept(l), NEW s \in Nat, NEW h \in Nat, NEW k \in Nat,
           k + h = s, h <= BufLines, l.to # "file" => h = 0
    PROVE  Kept(Log(l.to, s, h, k)) /\ Log(l.to, s, h, k).to = l.to /\ Log(l.to, s, h, k).held = h
BY DEF Kept, Logs, Log

\* The numbers of a log that is kept.
LEMMA Lines ==
    ASSUME NEW l, Kept(l)
    PROVE  /\ l.said \in Nat /\ l.held \in Nat /\ l.kept \in Nat /\ BufLines \in Nat /\ BufLines > 0
           /\ l.kept + l.held = l.said /\ l.held <= BufLines /\ (l.to # "file" => l.held = 0)
BY BufLinesAssumption DEF Kept, Logs

\* A line is said: it is held, written, or fills the buffer.
LEMMA SayKeeps ==
    ASSUME NEW l, Kept(l)
    PROVE  Kept(Say(l)) /\ Say(l).to = l.to
<1>1. CASE l.to = "file"
  <2>1. CASE l.held < BufLines
    <3>1. Say(l) = Log(l.to, l.said + 1, l.held + 1, l.kept)
      BY <1>1, <2>1 DEF Say, SayBuffered, Kept, Logs, Log
    <3>2. l.said + 1 \in Nat /\ l.held + 1 \in Nat /\ l.kept + (l.held + 1) = l.said + 1 /\ l.held + 1 <= BufLines
      BY <2>1, Lines
    <3>. QED  BY <1>1, <3>1, <3>2, Lines, LinesKept
  <2>2. CASE ~(l.held < BufLines)
    <3>1. Say(l) = Log(l.to, l.said + 1, 1, l.kept + l.held)
      BY <1>1, <2>2 DEF Say, SayBuffered, Kept, Logs, Log
    <3>2. l.said + 1 \in Nat /\ l.kept + l.held \in Nat /\ (l.kept + l.held) + 1 = l.said + 1 /\ 1 <= BufLines
      BY Lines
    <3>. QED  BY <1>1, <3>1, <3>2, LinesKept
  <2>. QED  BY <2>1, <2>2
<1>2. CASE l.to = "stdout"
  <2>1. Say(l) = Log(l.to, l.said + 1, l.held, l.kept + 1)
    BY <1>2 DEF Say, Kept, Logs, Log
  <2>2. l.said + 1 \in Nat /\ l.kept + 1 \in Nat /\ (l.kept + 1) + l.held = l.said + 1
    BY Lines
  <2>3. l.held \in Nat /\ l.held <= BufLines /\ (l.to # "file" => l.held = 0)
    BY Lines
  <2>. DEFINE s == l.said + 1
              k == l.kept + 1
  <2>4. s \in Nat /\ k \in Nat /\ k + l.held = s /\ Say(l) = Log(l.to, s, l.held, k)
    BY <2>1, <2>2
  <2>. HIDE DEF s, k
  <2>5. Kept(Log(l.to, s, l.held, k)) /\ Log(l.to, s, l.held, k).to = l.to
    BY <2>3, <2>4, LinesKept
  <2>. QED  BY <2>4, <2>5
<1>3. CASE l.to \notin {"file", "stdout"}
  BY <1>3 DEF Say
<1>. QED  BY <1>1, <1>2, <1>3

\* Cleanup writes what is held.
LEMMA CleanupKeeps ==
    ASSUME NEW l, Kept(l)
    PROVE  Kept(Cleanup(l)) /\ Cleanup(l).to = l.to /\ Cleanup(l).held = 0
<1>1. l \in Logs
  BY DEF Kept
<1>2. ASSUME NEW k \in Nat
      PROVE  LET m == [l EXCEPT !.held = 0, !.kept = k]
             IN  m \in Logs /\ m.to = l.to /\ m.said = l.said /\ m.held = 0 /\ m.kept = k
  BY <1>1 DEF Logs
<1>3. Cleanup(l) = [l EXCEPT !.held = 0, !.kept = l.kept + l.held]
  BY <1>1 DEF Cleanup, Logs
<1>4. /\ Cleanup(l) \in Logs /\ Cleanup(l).to = l.to /\ Cleanup(l).said = l.said
      /\ Cleanup(l).held = 0 /\ Cleanup(l).kept = l.kept + l.held
  <2>1. l.kept + l.held \in Nat
    BY Lines
  <2>. DEFINE k == l.kept + l.held
  <2>2. k \in Nat /\ Cleanup(l) = [l EXCEPT !.held = 0, !.kept = k]
    BY <1>3, <2>1
  <2>. HIDE DEF k
  <2>3. /\ Cleanup(l) \in Logs /\ Cleanup(l).to = l.to /\ Cleanup(l).said = l.said
        /\ Cleanup(l).held = 0 /\ Cleanup(l).kept = k
    BY <1>2, <2>2
  <2>. QED  BY <2>3 DEF k
<1>. QED  BY <1>4, Lines DEF Kept

\* What a step does to the log: a process that ends in its main goroutine
\* has flushed it, or has none.
LogForm(t) ==
    /\ proc = "up" /\ (main' = "command" <=> main = "command")
    /\ \A u \in Tasks : pc'[u] = "flags" => pc[u] = "flags"
    /\ \/ logw' \in {logw, Say(logw)} /\ (proc' \in {"exit", "panic"} => main # "command")
       \/ logw' = Cleanup(logw)
       \/ CreateLog(t) /\ job[t].log # "badfile"

\* A step that says something, or nothing, preserves LogOK.
LEMMA LogFormOK ==
    ASSUME ControlOK, LogOK, NEW t \in Tasks, LogForm(t)
    PROVE  LogOK'
<1>1. Kept(logw)
  BY DEF LogOK, Kept, Logs
<1>2. /\ main' # "command" => main # "command"
      /\ \A u \in Tasks : pc'[u] = "flags" => pc[u] = "flags"
  BY DEF LogForm
<1>3. CASE logw' \in {logw, Say(logw)} /\ (proc' \in {"exit", "panic"} => main # "command")
  <2>1. Kept(logw') /\ logw'.to = logw.to
    BY <1>1, <1>3, SayKeeps
  <2>. QED  BY <1>2, <1>3, <2>1 DEF LogOK, Kept, Logs
<1>4. CASE logw' = Cleanup(logw)
  <2>1. Kept(logw') /\ logw'.to = logw.to /\ logw'.held = 0
    BY <1>1, <1>4, CleanupKeeps
  <2>. QED  BY <1>2, <2>1 DEF LogOK, Kept, Logs
<1>5. CASE CreateLog(t) /\ job[t].log # "badfile"
  <2>1. /\ pc[t] = "flags" /\ pc' = [pc EXCEPT ![t] = "config"] /\ main' = main /\ proc' = "up"
        /\ logw' = [logw EXCEPT !.to = job[t].log]
    BY <1>5 DEF CreateLog, At, Goto
  <2>2. IsCommand(t)
    BY <2>1, JobOK DEF ControlOK, Places, Using, IsCommand, Commands, Pages
  <2>3. job[t].log \in {"off", "stdout", "file"} /\ main = "command"
    BY <1>5, <2>2, JobOK, Alone
  <2>4. \A u \in Tasks : pc'[u] # "flags"
    BY <2>1, <2>2, Alone DEF ControlOK
  <2>5. logw.to = "none" /\ logw.held = 0
    BY <2>1 DEF LogOK
  <2>6. logw' \in Logs /\ logw'.held = 0 /\ logw'.kept + logw'.held = logw'.said
    BY <1>1, <2>1, <2>3, <2>5 DEF Kept, Logs
  <2>. QED  BY <2>1, <2>3, <2>4, <2>6, BufLinesAssumption DEF LogOK, Logs
<1>. QED  BY <1>3, <1>4, <1>5 DEF LogForm

\* No step leads back to the flags, as the form of each step shows.
LEMMA FlagsStep ==
    ASSUME ControlOK, NEW t \in Tasks, Form(t)
    PROVE  /\ \A u \in Tasks : pc'[u] = "flags" => pc[u] = "flags"
           /\ main' = "command" <=> main = "command"
<1>1. CASE Requests(t)
  BY <1>1 DEF Requests, ControlOK
<1>2. CASE Moves(t)
  BY <1>2 DEF Moves, ControlOK
<1>3. CASE Replies(t) \/ Returns(t) \/ Prints(t) \/ Panics(t)
  BY <1>3 DEF Replies, Returns, Prints, Panics, ControlOK
<1>4. CASE Ends \/ Quiet
  BY <1>4 DEF Ends, Quiet
<1>. QED  BY <1>1, <1>2, <1>3, <1>4 DEF Form

\* Every step of a task does.
LEMMA LogStep ==
    ASSUME ControlOK, LogOK, NEW t \in Tasks, Form(t),
           \/ (ServerStep \/ Request(t)) /\ UNCHANGED driverVars
           \/ TaskStep(t) \/ RunStep(t)
    PROVE  LogOK'
<1>1. CASE (ServerStep \/ Request(t)) /\ UNCHANGED driverVars
  <2>1. proc = "up" /\ main # "command" /\ logw' = logw
    BY <1>1 DEF ServerStep, InitPlayground, Listener, ServeReturns, Request, Step, At, driverVars
  <2>. QED  BY <2>1, FlagsStep, LogFormOK DEF LogForm
<1>2. CASE RunStep(t)
  <2>1. proc = "up" /\ logw' \in {logw, Say(logw)} /\ proc' \notin {"exit", "panic"}
    BY <1>2 DEF RunStep, InferRun, ExtractRun, InferStart, InferVisit, InferQueue, InferUnwind, InferCrash,
         ExtractStart, ExtractVisit, Running, EndWith, End, procVars, driverVars
  <2>. QED  BY <2>1, FlagsStep, LogFormOK DEF LogForm
<1>3. CASE LoadStep(t) \/ CheckFair(t) \/ DumpUsed(t) \/ DumpAll(t) \/ WriteDot(t) \/ WriteCFSMs(t) \/ InferOutput(t)
  <2>1. /\ proc = "up"
        /\ \/ logw' \in {logw, Say(logw)} /\ proc' \notin {"exit", "panic"}
           \/ logw' = Cleanup(logw)
           \/ CreateLog(t) /\ job[t].log # "badfile"
    BY <1>3 DEF LoadStep, CreateLog, NewConfig, BuildSSA, Finish, CheckFair, DumpUsed, DumpAll, WriteDot,
                WriteCFSMs, InferOutput, At, Fail, FailWith, MainPanics, EndWith, PrintOut
  <2>. QED  BY <2>1, FlagsStep, LogFormOK DEF LogForm
<1>4. CASE \/ GoRun(t) \/ SelectError(t) \/ SelectDone(t) \/ Encode(t) \/ CallGraph(t) \/ WriteTo(t)
  <2>1. proc = "up" /\ logw' \in {logw, Say(logw)} /\ proc' \notin {"exit", "panic"}
    BY <1>4 DEF GoRun, SelectError, SelectDone, Encode, CallGraph, WriteTo, Step, At, Fail, FailWith, EndWith, End,
                HandlerPanics, driverVars
  <2>. QED  BY <2>1, FlagsStep, LogFormOK DEF LogForm
<1>5. CASE (Open(t) \/ PageStep(t)) /\ UNCHANGED driverVars
  <2>1. proc = "up" /\ logw' = logw /\ proc' \notin {"exit", "panic"}
    BY <1>5 DEF Open, PageStep, ReadAll, Report, ReportFatal, ReturnPage, Return, Step, At, Fail, FailWith, EndWith,
                driverVars
  <2>. QED  BY <2>1, FlagsStep, LogFormOK DEF LogForm
<1>6. CASE /\ UNCHANGED driverVars
           /\ \/ LookPath(t) \/ Chdir(t) \/ TempFile(t) \/ RunGong(t) \/ RunGMC(t)
              \/ RunPetrify(t) \/ Truncate(t) \/ WriteFile(t) \/ ReadDefault(t) \/ WriteGlobal(t)
              \/ DrawMachines(t) \/ DrawGlobal(t)
  <2>1. proc = "up" /\ logw' = logw /\ proc' \notin {"exit", "panic"}
    BY <1>6 DEF LookPath, Chdir, TempFile, RunGong, RunGMC, RunPetrify, Truncate, WriteFile,
         ReadDefault, WriteGlobal, DrawMachines, DrawGlobal, Step, At, Fail, FailWith, EndWith, driverVars
  <2>. QED  BY <2>1, FlagsStep, LogFormOK DEF LogForm
<1>7. TaskStep(t) =>
         \/ LoadStep(t) \/ CheckFair(t) \/ DumpUsed(t) \/ DumpAll(t) \/ WriteDot(t) \/ WriteCFSMs(t) \/ InferOutput(t)
         \/ GoRun(t) \/ SelectError(t) \/ SelectDone(t) \/ Encode(t) \/ CallGraph(t) \/ WriteTo(t)
         \/ (Open(t) \/ PageStep(t)) /\ UNCHANGED driverVars
         \/ /\ UNCHANGED driverVars
            /\ \/ LookPath(t) \/ Chdir(t) \/ TempFile(t) \/ RunGong(t) \/ RunGMC(t)
               \/ RunPetrify(t) \/ Truncate(t) \/ WriteFile(t) \/ ReadDefault(t) \/ WriteGlobal(t)
               \/ DrawMachines(t) \/ DrawGlobal(t)
  BY DEF TaskStep, extractMigo, extractCFSMs, check, Build, LoadStep, indexHandler, loadHandler, ssaHandler,
        migoHandler, cfsmHandler, gongHandler, synthesisHandler, PageStep
<1>. QED  BY <1>1, <1>2, <1>3, <1>4, <1>5, <1>6, <1>7

-----------------------------------------------------------------------------
(* The files.                                                              *)

USE DEF TaskFilesOK

\* Steps that leave the files of a synthesis alone, and bring no task to
\* where it uses them.
FilesAlone ==
    /\ UNCHANGED <<job, machines, petri, default, reading, global, shown, disturbed>>
    /\ temp' \subseteq Tasks
    /\ \A u \in Tasks :
          /\ pc'[u] \in Using \cup {"truncate"} => pc'[u] = pc[u]
          /\ job[u].kind = "/synthesis" /\ pc'[u] \in {"return", "end"} => pc[u] \in {"return", "end"}

\* A step that leaves the files alone.
LEMMA FilesAloneOK ==
    ASSUME FilesOK, OwnMachines, FilesAlone
    PROVE  FilesOK' /\ OwnMachines'
<1>1. FilesTyped' /\ OwnMachines'
  BY DEF FilesOK, FilesTyped, FilesAlone, OwnMachines
<1>2. ASSUME NEW u \in Tasks PROVE TaskFilesOK(u)'
  <2>1. machines'[u] \in {u, "none"} /\ (pc'[u] = "truncate" => petri'[u] \in {u, "error"})
    BY DEF FilesOK, FilesAlone
  <2>2. ASSUME job'[u].kind = "/synthesis", u \notin disturbed' PROVE Undisturbed(u)'
    <3>1. Undisturbed(u)
      BY <2>2 DEF FilesOK, FilesAlone
    <3>. QED  BY <2>2, <3>1 DEF Undisturbed, FilesAlone, Using
  <2>. QED  BY <2>1, <2>2
<1>. QED  BY <1>1, <1>2 DEF FilesOK

\* Steps of a task that uses the shared files: others that are not disturbed
\* find in them what they hold for them.
Uses(t) ==
    /\ UNCHANGED job /\ disturbed \subseteq disturbed'
    /\ default' = default \/ Others(t, {"buildglobal"}) \subseteq disturbed'
    /\ default' \in {default, "empty"} \/ Others(t, {"write"}) \subseteq disturbed'
    /\ global' = global \/ Others(t, {"drawmachines", "drawglobal"}) \subseteq disturbed'
    /\ \A u \in Tasks \ {t} :
          /\ pc'[u] = pc[u] /\ machines'[u] = machines[u] /\ petri'[u] = petri[u]
          /\ reading'[u] = reading[u] /\ shown'[u] = shown[u]

\* A step of one task on the files.
LEMMA UsesOK ==
    ASSUME FilesOK, NEW t \in Tasks, Uses(t), FilesTyped', TaskFilesOK(t)'
    PROVE  FilesOK'
<1>1. ASSUME NEW u \in Tasks \ {t} PROVE TaskFilesOK(u)'
  <2>1. pc'[u] = pc[u] /\ shown'[u] = shown[u] /\ job' = job
        /\ machines'[u] \in {u, "none"} /\ (pc'[u] = "truncate" => petri'[u] \in {u, "error"})
    BY DEF FilesOK, Uses
  <2>2. ASSUME job'[u].kind = "/synthesis", u \notin disturbed' PROVE Undisturbed(u)'
    <3>1. Undisturbed(u) /\ petri'[u] = petri[u] /\ reading'[u] = reading[u]
      BY <2>1, <2>2 DEF FilesOK, Uses
    <3>2. /\ pc[u] = "buildglobal" => default' = default
          /\ pc[u] = "write" => default' \in {default, "empty"}
          /\ pc[u] \in {"drawmachines", "drawglobal"} => global' = global
      BY <2>2 DEF Uses, Others
    <3>. QED  BY <2>1, <3>1, <3>2 DEF Undisturbed
  <2>. QED  BY <2>1, <2>2
<1>. QED  BY <1>1 DEF FilesOK

\* GMC writes the machines of the request.
LEMMA RunGMCFiles ==
    ASSUME ControlOK, FilesOK, OwnMachines, NEW t \in Tasks, RunGMC(t)
    PROVE  FilesOK' /\ OwnMachines'
<1>1. /\ UNCHANGED <<job, petri, default, reading, global, disturbed, temp>>
      /\ pc' = [pc EXCEPT ![t] = "petrify"]
      /\ machines' \in {machines, [machines EXCEPT ![t] = t]}
      /\ shown' = [shown EXCEPT ![t] = [shown[t] EXCEPT !.smc = t]]
  BY DEF RunGMC, Step, Goto
<1>2. [shown[t] EXCEPT !.smc = t]
         \in [smc : Tasks \cup {"none"}, machines : Tasks \cup {"none"}, global : Tasks \cup {"none"}]
  BY DEF FilesOK, FilesTyped
<1>3. FilesTyped'
  BY <1>1, <1>2 DEF FilesOK, FilesTyped
<1>4. /\ \A u \in Tasks : shown'[u].global = shown[u].global /\ shown'[u].machines = shown[u].machines
      /\ shown'[t].smc = t /\ \A u \in Tasks \ {t} : shown'[u] = shown[u]
  BY <1>1 DEF FilesOK, FilesTyped
<1>5. OwnMachines'
  BY <1>4 DEF OwnMachines
<1>6. ASSUME NEW u \in Tasks PROVE TaskFilesOK(u)'
  <2>1. machines'[u] \in {u, "none"} /\ (pc'[u] = "truncate" => petri'[u] \in {u, "error"})
    BY <1>1 DEF FilesOK, FilesTyped, ControlOK
  <2>2. ASSUME job'[u].kind = "/synthesis", u \notin disturbed' PROVE Undisturbed(u)'
    <3>1. Undisturbed(u)
      BY <1>1, <2>2 DEF FilesOK
    <3>. QED  BY <1>1, <1>4, <2>2, <3>1 DEF Undisturbed, Using, ControlOK
  <2>. QED  BY <2>1, <2>2
<1>. QED  BY <1>3, <1>5, <1>6 DEF FilesOK

\* petrify writes the Petri net of the request.
LEMMA RunPetrifyFiles ==
    ASSUME ControlOK, FilesOK, OwnMachines, NEW t \in Tasks, RunPetrify(t)
    PROVE  FilesOK' /\ OwnMachines'
<1>1. /\ UNCHANGED <<job, machines, default, reading, global, disturbed, temp, shown>>
      /\ pc' = [pc EXCEPT ![t] = "truncate"]
      /\ petri' \in {[petri EXCEPT ![t] = t], [petri EXCEPT ![t] = "error"]}
  BY DEF RunPetrify, Step, Goto
<1>2. FilesTyped' /\ OwnMachines'
  BY <1>1 DEF FilesOK, FilesTyped, OwnMachines
<1>3. ASSUME NEW u \in Tasks PROVE TaskFilesOK(u)'
  <2>1. machines'[u] \in {u, "none"} /\ (pc'[u] = "truncate" => petri'[u] \in {u, "error"})
    BY <1>1 DEF FilesOK, FilesTyped, ControlOK
  <2>2. ASSUME job'[u].kind = "/synthesis", u \notin disturbed' PROVE Undisturbed(u)'
    <3>1. Undisturbed(u)
      BY <1>1, <2>2 DEF FilesOK
    <3>. QED  BY <1>1, <2>2, <3>1 DEF Undisturbed, Using, ControlOK, FilesOK, FilesTyped
  <2>. QED  BY <2>1, <2>2
<1>. QED  BY <1>2, <1>3 DEF FilesOK

\* WriteFile truncates the shared file of whoever is about to read it, who is
\* disturbed, or fails to.
LEMMA TruncateFiles ==
    ASSUME ControlOK, FilesOK, OwnMachines, NEW t \in Tasks, Truncate(t)
    PROVE  FilesOK' /\ OwnMachines'
<1>1. /\ UNCHANGED <<job, machines, petri, reading, global, temp, shown>> /\ pc[t] = "truncate"
      /\ \/ /\ pc' = [pc EXCEPT ![t] = "write"] /\ default' = "empty"
            /\ disturbed' = disturbed \cup Others(t, {"buildglobal"})
                                      \cup IF petri[t] = "error" THEN {t} ELSE {}
         \/ /\ pc' = [pc EXCEPT ![t] = "buildglobal"] /\ default' = default
            /\ disturbed' = disturbed \cup {t}
  BY DEF Truncate, At, Goto
<1>2. FilesTyped' /\ OwnMachines'
  BY <1>1 DEF FilesOK, FilesTyped, OwnMachines, Others
<1>3. Uses(t)
  BY <1>1 DEF Uses, ControlOK
<1>4. TaskFilesOK(t)'
  <2>1. petri[t] \in {t, "error"} /\ machines[t] \in {t, "none"}
    BY <1>1 DEF FilesOK
  <2>2. ASSUME t \notin disturbed' PROVE Undisturbed(t)'
    BY <1>1, <2>1, <2>2 DEF Undisturbed, ControlOK
  <2>. QED  BY <1>1, <2>1, <2>2 DEF ControlOK
<1>. QED  BY <1>2, <1>3, <1>4, UsesOK

\* The shared file is written.
LEMMA WriteFileFiles ==
    ASSUME ControlOK, FilesOK, OwnMachines, NEW t \in Tasks, WriteFile(t)
    PROVE  FilesOK' /\ OwnMachines'
<1>1. /\ UNCHANGED <<job, machines, petri, reading, global, temp, shown>>
      /\ pc[t] = "write" /\ pc' = [pc EXCEPT ![t] = "buildglobal"]
      /\ Others(t, {"write", "buildglobal"}) \cup disturbed \subseteq disturbed'
      /\ disturbed' \subseteq disturbed \cup Others(t, {"write", "buildglobal"}) \cup {t}
      /\ default' \in {default, petri[t], "mixed"}
      /\ t \in disturbed' \/ default' \in IF default = "empty" THEN {petri[t]} ELSE {petri[t], "mixed"}
  BY DEF WriteFile, Step, At, Goto
<1>2. FilesTyped' /\ OwnMachines'
  BY <1>1 DEF FilesOK, FilesTyped, OwnMachines, Others
<1>3. Uses(t)
  BY <1>1 DEF Uses, Others, ControlOK
<1>4. TaskFilesOK(t)'
  <2>1. ASSUME job[t].kind = "/synthesis", t \notin disturbed' PROVE Undisturbed(t)'
    <3>1. Undisturbed(t) /\ t \notin disturbed
      BY <1>1, <2>1 DEF FilesOK
    <3>. QED  BY <1>1, <2>1, <3>1 DEF Undisturbed, ControlOK
  <2>. QED  BY <1>1, <2>1 DEF FilesOK, ControlOK
<1>. QED  BY <1>2, <1>3, <1>4, UsesOK

\* The shared file is read.
LEMMA ReadDefaultFiles ==
    ASSUME ControlOK, FilesOK, OwnMachines, NEW t \in Tasks, ReadDefault(t)
    PROVE  FilesOK' /\ OwnMachines'
<1>1. /\ UNCHANGED <<job, machines, petri, default, global, disturbed, temp, shown>>
      /\ pc[t] = "buildglobal" /\ pc' = [pc EXCEPT ![t] = "global"]
      /\ reading' = [reading EXCEPT ![t] = default]
  BY DEF ReadDefault, Step, At, Goto
<1>2. FilesTyped' /\ OwnMachines'
  BY <1>1 DEF FilesOK, FilesTyped, OwnMachines
<1>3. Uses(t)
  BY <1>1 DEF Uses, ControlOK, FilesOK, FilesTyped
<1>4. TaskFilesOK(t)'
  <2>1. ASSUME job[t].kind = "/synthesis", t \notin disturbed PROVE Undisturbed(t)'
    <3>1. Undisturbed(t)
      BY <2>1 DEF FilesOK
    <3>. QED  BY <1>1, <3>1 DEF Undisturbed, ControlOK, FilesOK, FilesTyped
  <2>. QED  BY <1>1, <2>1 DEF FilesOK, ControlOK
<1>. QED  BY <1>2, <1>3, <1>4, UsesOK

\* The shared global graph is written.
LEMMA WriteGlobalFiles ==
    ASSUME ControlOK, FilesOK, OwnMachines, NEW t \in Tasks, WriteGlobal(t)
    PROVE  FilesOK' /\ OwnMachines'
<1>1. /\ UNCHANGED <<job, machines, petri, default, reading, temp, shown>> /\ pc[t] = "global"
      /\ pc' = [pc EXCEPT ![t] = "drawmachines"]
      /\ \/ /\ reading[t] \in Tasks /\ global' = reading[t]
            /\ disturbed' = disturbed \cup Others(t, {"drawmachines", "drawglobal"})
         \/ global' = global /\ disturbed' = disturbed \cup {t}
  BY DEF WriteGlobal, Step, At, Goto
<1>2. FilesTyped' /\ OwnMachines'
  BY <1>1 DEF FilesOK, FilesTyped, OwnMachines, Others
<1>3. Uses(t)
  BY <1>1 DEF Uses, ControlOK
<1>4. TaskFilesOK(t)'
  <2>1. ASSUME job[t].kind = "/synthesis", t \notin disturbed' PROVE Undisturbed(t)'
    <3>1. Undisturbed(t) /\ global' = reading[t]
      BY <1>1, <2>1 DEF FilesOK, Others
    <3>. QED  BY <1>1, <3>1 DEF Undisturbed, Using, ControlOK
  <2>. QED  BY <1>1, <2>1 DEF FilesOK, ControlOK
<1>. QED  BY <1>2, <1>3, <1>4, UsesOK

\* dot draws what the files hold then.
LEMMA DrawFiles ==
    ASSUME ControlOK, FilesOK, OwnMachines, NEW t \in Tasks, DrawMachines(t) \/ DrawGlobal(t)
    PROVE  FilesOK' /\ OwnMachines'
<1>1. PICK m \in {machines[t], "none"}, g \in {global, "none"} :
         /\ UNCHANGED <<job, machines, petri, default, reading, global, disturbed, temp>>
         /\ \/ /\ pc[t] = "drawmachines" /\ pc' = [pc EXCEPT ![t] = "drawglobal"]
               /\ shown' = [shown EXCEPT ![t] = [shown[t] EXCEPT !.machines = m]]
            \/ /\ pc[t] = "drawglobal" /\ pc' = [pc EXCEPT ![t] = "return"]
               /\ shown' = [shown EXCEPT ![t] = [shown[t] EXCEPT !.global = g]]
  BY DEF DrawMachines, DrawGlobal, Step, At, Goto, Reply
<1>. DEFINE M == [shown[t] EXCEPT !.machines = m]
            G == [shown[t] EXCEPT !.global = g]
            Rows == [smc : Tasks \cup {"none"}, machines : Tasks \cup {"none"}, global : Tasks \cup {"none"}]
<1>2. /\ M \in Rows /\ M.smc = shown[t].smc /\ M.global = shown[t].global /\ M.machines = m
      /\ G \in Rows /\ G.smc = shown[t].smc /\ G.machines = shown[t].machines /\ G.global = g
  BY DEF FilesOK, FilesTyped
<1>. HIDE DEF M, G
<1>3. FilesTyped'
  BY <1>1, <1>2 DEF FilesOK, FilesTyped
<1>4. OwnMachines'
  BY <1>1, <1>2 DEF FilesOK, FilesTyped, OwnMachines
<1>5. Uses(t)
  BY <1>1 DEF Uses, ControlOK, Using, FilesOK, FilesTyped
<1>6. TaskFilesOK(t)'
  <2>1. ASSUME job[t].kind = "/synthesis", t \notin disturbed PROVE Undisturbed(t)'
    <3>1. Undisturbed(t)
      BY <2>1 DEF FilesOK
    <3>. QED  BY <1>1, <1>2, <3>1 DEF Undisturbed, Using, ControlOK, FilesOK, FilesTyped
  <2>. QED  BY <1>1, <2>1 DEF FilesOK, ControlOK
<1>. QED  BY <1>3, <1>4, <1>5, <1>6, UsesOK

\* Only a synthesis comes to where the shared files are used.
LEMMA OthersNotUsing ==
    ASSUME ControlOK, NEW t \in Tasks, Form(t), job[t].kind # "/synthesis", NEW u \in Tasks
    PROVE  /\ pc'[u] \in Using \cup {"truncate"} => pc'[u] = pc[u]
           /\ job[u].kind = "/synthesis" => pc'[u] = pc[u]
<1>1. CASE pc' = pc
  BY <1>1
<1>2. CASE pc' # pc
  <2>1. PICK l : l \in Places(job[t].kind) \cup {"return", "end", "cleanup"} /\ pc' = [pc EXCEPT ![t] = l]
    BY <1>2 DEF Form, Requests, Moves, Replies, Returns, Prints, Panics, Ends, Quiet
  <2>2. job[t].kind \in (Commands \cup Pages \cup {"none"}) \ {"/synthesis"}
    BY JobOK
  <2>3. l \notin Using \cup {"truncate"}
    BY <2>1, <2>2 DEF Places, Using, Commands, Pages
  <2>. QED  BY <2>1, <2>3 DEF ControlOK
<1>. QED  BY <1>1, <1>2

\* Every step of a task preserves FilesOK and OwnMachines.
LEMMA TaskFiles ==
    ASSUME ControlOK, FilesOK, OwnMachines, NEW t \in Tasks, Form(t), TaskStep(t)
    PROVE  FilesOK' /\ OwnMachines'
<1>1. CASE job[t].kind # "/synthesis"
  <2>1. UNCHANGED <<job, machines, petri, default, reading, global, shown, disturbed>> /\ temp' \subseteq Tasks
    <3>1. job' = job /\ temp \subseteq Tasks
      BY DEF FilesOK, FilesTyped, Form, Requests, Moves, Replies, Returns, Prints, Panics, Ends, Quiet, Same
    <3>2. CASE UNCHANGED synthVars
      BY <3>1, <3>2 DEF synthVars
    <3>3. CASE PageStep(t) \/ TempFile(t) \/ LookPath(t) \/ RunGong(t)
      BY <3>1, <3>3 DEF PageStep, ReturnPage, Remaining, TempFile, LookPath, RunGong, synthVars
    <3>. QED
      BY <1>1, <3>2, <3>3
      DEF TaskStep, extractMigo, extractCFSMs, check, Build, indexHandler, loadHandler, ssaHandler,
          migoHandler, cfsmHandler, gongHandler, synthesisHandler, Is, synthVars
  <2>. QED  BY <1>1, <2>1, OthersNotUsing, FilesAloneOK DEF FilesAlone
<1>2. CASE job[t].kind = "/synthesis"
  <2>1. \/ PageStep(t) \/ LookPath(t) \/ Chdir(t) \/ TempFile(t) \/ RunGMC(t) \/ RunPetrify(t)
        \/ Truncate(t) \/ WriteFile(t) \/ ReadDefault(t) \/ WriteGlobal(t)
        \/ DrawMachines(t) \/ DrawGlobal(t)
    BY <1>2 DEF TaskStep, extractMigo, extractCFSMs, check, Build, indexHandler, loadHandler, ssaHandler,
          migoHandler, cfsmHandler, gongHandler, synthesisHandler, Is
  <2>2. CASE PageStep(t) \/ LookPath(t) \/ Chdir(t) \/ TempFile(t)
    <3>1. /\ UNCHANGED <<job, machines, petri, default, reading, global, shown, disturbed>>
          /\ temp' \subseteq Tasks
      BY <2>2 DEF PageStep, ReadAll, Report, ReportFatal, ReturnPage, Return, Remaining, LookPath, Chdir, TempFile,
                  synthVars, FilesOK, FilesTyped
    <3>2. CASE pc' = pc
      BY <3>1, <3>2, FilesAloneOK DEF FilesAlone, Using
    <3>3. CASE pc' = [pc EXCEPT ![t] = "end"] /\ pc[t] = "return"
      BY <3>1, <3>3, FilesAloneOK DEF FilesAlone, Using, ControlOK
    <3>4. CASE \E l \in {"lookup", "report", "fatal", "gong", "mkdir", "tempfile", "gmc"} : pc' = [pc EXCEPT ![t] = l]
      BY <3>1, <3>4, FilesAloneOK DEF FilesAlone, Using, ControlOK
    <3>5. CASE PageStep(t)
      BY <1>2, <3>2, <3>3, <3>4, <3>5 DEF PageStep, ReadAll, Report, ReportFatal, ReturnPage, Return, Step, At,
                  Goto, Fail, FailWith
    <3>6. CASE LookPath(t) \/ Chdir(t) \/ TempFile(t)
      BY <1>2, <3>2, <3>4, <3>6 DEF LookPath, Chdir, TempFile, Goto, Fail, FailWith
    <3>. QED  BY <2>2, <3>5, <3>6
  <2>. QED
    BY <2>1, <2>2, RunGMCFiles, RunPetrifyFiles, TruncateFiles, WriteFileFiles, ReadDefaultFiles, WriteGlobalFiles, DrawFiles
<1>. QED  BY <1>1, <1>2

\* Every step does.
LEMMA FilesStep ==
    ASSUME ControlOK, FilesOK, OwnMachines, NEW t \in Tasks, Form(t),
           \/ (ServerStep \/ Request(t)) /\ UNCHANGED synthVars
           \/ TaskStep(t) \/ RunStep(t)
    PROVE  FilesOK' /\ OwnMachines'
<1>1. CASE (ServerStep \/ RunStep(t)) /\ UNCHANGED synthVars
  <2>1. pc' = pc /\ job' = job
    BY <1>1 DEF ServerStep, InitPlayground, Listener, ServeReturns, RunStep, InferRun, ExtractRun, InferStart,
         InferVisit, InferQueue, InferUnwind, InferCrash, ExtractStart, ExtractVisit, procVars
  <2>. QED  BY <1>1, <2>1, FilesAloneOK DEF FilesAlone, synthVars, FilesOK, FilesTyped
<1>2. CASE Request(t) /\ UNCHANGED synthVars
  <2>1. job' = job /\ \E l \in {"open", "read"} : pc' = [pc EXCEPT ![t] = l]
    BY <1>2 DEF Request, Step, Goto
  <2>. QED  BY <1>2, <2>1, FilesAloneOK DEF FilesAlone, synthVars, FilesOK, FilesTyped, Using, ControlOK
<1>. QED  BY <1>1, <1>2, TaskFiles DEF RunStep

-----------------------------------------------------------------------------
(* The theorems.                                                           *)

LEMMA InitIInv ==
    ASSUME Init
    PROVE  IInv
<1>1. NoJob.kind \notin Commands
  BY DEF NoJob, Commands
<1>2. ControlOK
  <2>1. CASE main = "command"
    <3>1. PICK c \in Tasks, j \in {k \in Jobs : k.kind \in Commands} : job = [u \in Tasks |-> IF u = c THEN j ELSE NoJob]
      BY <2>1 DEF Init, ProcessInit
    <3>2. job \in [Tasks -> Jobs \cup {NoJob}] /\ IsCommand(c) /\ \A u \in Tasks \ {c} : job[u] = NoJob /\ ~IsCommand(u)
      BY <3>1, <1>1 DEF IsCommand
    <3>3. ASSUME NEW u \in Tasks
          PROVE  /\ TaskOK(u) /\ pc[u] \in AllPlaces /\ told[u] \in Texts
      <4>1. pc[u] \in Places(job[u].kind) /\ job[u].kind \in Commands \cup Pages \cup {"none"}
        BY <3>2 DEF Init, ProcessInit, Places, IsCommand, Commands, NoJob
      <4>2. TaskOK(u)
        BY <2>1, <3>2, <4>1 DEF Init, ProcessInit, Waits
      <4>. QED  BY <4>1, <4>2 DEF Init, ProcessInit, AllPlaces, Texts
    <3>. QED  BY <2>1, <3>2, <3>3 DEF Init, ProcessInit, ControlOK, Texts
  <2>2. CASE main = "start"
    <3>1. job \in [Tasks -> {k \in Jobs : k.kind \in Pages}]
      BY <2>2 DEF Init, ProcessInit
    <3>2. ASSUME NEW u \in Tasks
          PROVE  job[u] \in Jobs /\ job[u].kind \in Pages /\ ~IsCommand(u)
      BY <3>1 DEF IsCommand, Commands, Pages
    <3>3. ASSUME NEW u \in Tasks PROVE TaskOK(u) /\ pc[u] \in AllPlaces
      <4>1. pc[u] = "idle" /\ told[u] = "none" /\ proc = "up"
        BY <3>2 DEF Init, ProcessInit
      <4>2. "idle" \in Places(job[u].kind)
        BY <3>2 DEF Places, Pages
      <4>3. pc[u] \in AllPlaces
        BY <3>2, <4>1, <4>2 DEF AllPlaces
      <4>. QED  BY <2>2, <3>2, <4>1, <4>2, <4>3 DEF Waits
    <3>. QED  BY <2>2, <3>1, <3>2, <3>3 DEF Init, ProcessInit, ControlOK, Texts
  <2>. QED  BY <2>1, <2>2 DEF Init, ProcessInit
<1>3. RunOK
  BY DEF Init, ProcessInit, DriversInit, RunOK, Runs
<1>4. LogOK
  BY BufLinesAssumption DEF Init, ProcessInit, DriversInit, LogOK
<1>5. FilesOK /\ OwnMachines
  BY DEF Init, ProcessInit, SynthesisInit, FilesOK, FilesTyped, OwnMachines, NotShown, Undisturbed, Using
<1>6. HalfResults
  BY DEF Init, ProcessInit, HalfResults
<1>. QED  BY <1>2, <1>3, <1>4, <1>5, <1>6 DEF IInv

\* Every step is of one of the forms.
LEMMA StepForm ==
    ASSUME IInv, Next
    PROVE  \E t \in Tasks : /\ Form(t)
                            /\ \/ (ServerStep \/ Request(t)) /\ UNCHANGED <<driverVars, synthVars>>
                               \/ TaskStep(t) \/ RunStep(t)
<1>. USE DEF IInv
<1>1. CASE \E t \in Tasks : Request(t) /\ UNCHANGED <<driverVars, synthVars>>
  BY <1>1, RequestForm
<1>2. CASE \E t \in Tasks : TaskStep(t) \/ RunStep(t)
  BY <1>2, TaskForm, RunForm
<1>3. CASE ServerStep /\ UNCHANGED <<driverVars, synthVars>>
  <2>1. PICK t \in Tasks : TRUE
    BY TasksAssumption
  <2>. QED  BY <1>3, <2>1, ServerForm
<1>. QED  BY <1>1, <1>2, <1>3 DEF Next

\* Every step preserves the invariant.
LEMMA StepIInv ==
    ASSUME IInv, [Next]_vars
    PROVE  IInv'
<1>1. CASE UNCHANGED vars
  <2>1. ControlOK' /\ HalfResults'
    BY <1>1 DEF IInv, vars, procVars, driverVars, ControlOK, Waits, IsCommand, HalfResults
  <2>2. RunOK' /\ LogOK'
    BY <1>1 DEF IInv, vars, procVars, driverVars, RunOK, LogOK, Infers, Extracts
  <2>3. FilesOK' /\ OwnMachines'
    BY <1>1 DEF IInv, vars, procVars, synthVars, FilesOK, FilesTyped, OwnMachines, Undisturbed
  <2>. QED  BY <2>1, <2>2, <2>3 DEF IInv
<1>2. CASE Next
  <2>1. PICK t \in Tasks : /\ Form(t)
                           /\ \/ (ServerStep \/ Request(t)) /\ UNCHANGED <<driverVars, synthVars>>
                              \/ TaskStep(t) \/ RunStep(t)
    BY <1>2, StepForm
  <2>2. RunOK' /\ CrashStays
    BY <1>2, RunOKStep DEF IInv
  <2>3. ControlOK' /\ HalfResults'
    BY <2>1, <2>2, ControlStep, HalfStep DEF IInv
  <2>4. LogOK'
    BY <2>1, LogStep DEF IInv
  <2>5. FilesOK' /\ OwnMachines'
    BY <2>1, FilesStep DEF IInv
  <2>. QED  BY <2>2, <2>3, <2>4, <2>5 DEF IInv
<1>. QED  BY <1>1, <1>2

\* The invariant that the theorems below rest on.
THEOREM Inductive == Spec => []IInv
BY InitIInv, StepIInv, PTL DEF Spec

\* The types of all that a process keeps (TypeOK of Service).
THEOREM TypeCorrect == Spec => []TypeOK
<1>1. ASSUME IInv PROVE TypeOK
  <2>1. /\ logw.held \in 0..BufLines /\ logw.kept + logw.held \in 0..logw.said
        /\ logw.to \in {"none", "off", "stdout", "file"}
    BY <1>1, BufLinesAssumption DEF IInv, LogOK
  <2>2. ASSUME NEW t \in Tasks, NEW part \in DOMAIN NotShown PROVE shown[t][part] \in Tasks \cup {"none"}
    BY <1>1 DEF IInv, FilesOK, FilesTyped, NotShown
  <2>. QED  BY <1>1, <2>1, <2>2 DEF IInv, ControlOK, RunOK, FilesOK, FilesTyped, TypeOK
<1>. QED  BY <1>1, Inductive, PTL

\* A command that returns, or panics in its main goroutine, leaves a complete
\* log; otherwise what is missing is what the buffer holds.
THEOREM LogIsKept == Spec => []LogKept
<1>1. ASSUME IInv PROVE LogKept
  <2>1. /\ logw.said \in Nat /\ logw.held \in Nat /\ logw.kept \in Nat /\ BufLines \in Nat
        /\ logw.kept + logw.held = logw.said /\ logw.held <= BufLines
        /\ (logw.to # "file" \/ proc \in {"exit", "panic"}) => logw.held = 0
    BY <1>1, BufLinesAssumption DEF IInv, LogOK
  <2>2. logw.held = 0 => logw.kept = logw.said
    BY <2>1
  <2>3. logw.said - logw.kept <= BufLines
    BY <2>1
  <2>. QED  BY <2>1, <2>2, <2>3 DEF LogKept
<1>. QED  BY <1>1, Inductive, PTL

\* Half a result is taken only of a Run that has panicked.
THEOREM ResultsWhole == Spec => []HalfResults
<1>1. IInv => HalfResults
  BY DEF IInv
<1>. QED  BY <1>1, Inductive, PTL

\* A synthesis shows machines of its own request.
THEOREM MachinesOwn == Spec => []OwnMachines
<1>1. IInv => OwnMachines
  BY DEF IInv
<1>. QED  BY <1>1, Inductive, PTL

\* So is the global graph that it shows, when nobody wrote the shared files
\* between its own writes and readings of them and its writes succeeded.
THEOREM GlobalOwn == Spec => []OwnGlobal
<1>1. IInv => OwnGlobal
  BY DEF IInv, FilesOK, Undisturbed, OwnGlobal
<1>. QED  BY <1>1, Inductive, PTL

-----------------------------------------------------------------------------
(* The process keeps what Answers promises.                                *)

LEMMA EndsPromise ==
    ASSUME ControlOK, Ends
    PROVE  Promise!End
<1>. USE DEF Promise!Waiting
<1>1. (proc = "up") /\ (proc' = "up") = FALSE /\ job' = job
  BY DEF Ends, Same
<1>2. CASE told' = LostAll
  BY <1>1, <1>2 DEF Promise!End, LostAll
<1>3. CASE \E c \in Tasks, word \in Endings :
              IsCommand(c) /\ told[c] = "waiting" /\ told' = [told EXCEPT ![c] = word]
  <2>1. PICK c \in Tasks, word \in Endings :
           IsCommand(c) /\ told[c] = "waiting" /\ told' = [told EXCEPT ![c] = word]
    BY <1>3
  <2>2. {u \in Tasks : told[u] # "none"} = {c}
    BY <2>1, Alone
  <2>3. told' = [t \in Tasks |-> IF told[t] = "waiting" THEN word ELSE told[t]]
    BY <2>1, Alone DEF ControlOK
  <2>. QED  BY <1>1, <2>1, <2>2, <2>3 DEF Promise!End, Endings
<1>. QED  BY <1>2, <1>3 DEF Ends

\* A step of any form is a step of Answers, or a stutter.
LEMMA FormPromise ==
    ASSUME ControlOK, NEW t \in Tasks, Form(t)
    PROVE  [Promise!Next]_(Promise!vars)
<1>. USE DEF Promise!Waiting
<1>1. job' = job
  BY DEF Form, Requests, Moves, Replies, Returns, Prints, Panics, Ends, Quiet, Same
<1>2. CASE Requests(t)
  <2>1. Promise!Ask(t)
    BY <1>1, <1>2 DEF Requests, Promise!Ask, ControlOK
  <2>. QED  BY <2>1 DEF Promise!Next
<1>3. CASE Returns(t) \/ Prints(t)
  <2>1. told[t] = "waiting"
    BY <1>3 DEF Returns, Prints, ControlOK, Waits
  <2>2. PICK a \in RightAnswers(t, job[t]) : told' = [told EXCEPT ![t] = a]
    BY <1>3 DEF Returns, Prints, Takes, ControlOK
  <2>3. Promise!Answer(t)
    BY <1>1, <1>3, <2>1, <2>2 DEF Returns, Prints, Promise!Answer
  <2>. QED  BY <2>3 DEF Promise!Next
<1>4. CASE Panics(t)
  <2>1. Promise!Lose(t)
    BY <1>1, <1>4 DEF Panics, Promise!Lose, ControlOK
  <2>. QED  BY <2>1 DEF Promise!Next
<1>5. CASE Ends
  BY <1>5, EndsPromise DEF Promise!Next
<1>6. CASE Moves(t) \/ Replies(t) \/ Quiet
  BY <1>1, <1>6 DEF Moves, Replies, Quiet, Promise!vars
<1>. QED  BY <1>2, <1>3, <1>4, <1>5, <1>6 DEF Form

\* Every task is answered at most once, with an answer that is right for it,
\* and nothing is answered after the end of the process (KeepsPromise).
THEOREM Implements == Spec => KeepsPromise
<1>1. Init => Promise!Init
  BY DEF Init, ProcessInit, Promise!Init
<1>2. ASSUME IInv, [Next]_vars PROVE [Promise!Next]_(Promise!vars)
  <2>1. CASE Next
    BY <1>2, <2>1, StepForm, FormPromise DEF IInv
  <2>2. CASE UNCHANGED vars
    BY <2>2 DEF vars, procVars, Promise!vars
  <2>. QED  BY <1>2, <2>1, <2>2
<1>. QED  BY <1>1, <1>2, Inductive, PTL DEF Spec, KeepsPromise, Promise!Spec
=============================================================================
