------------------------------- MODULE Service -------------------------------
(***************************************************************************)
(* A process of dingo-hunter as a whole: the drivers and the pages         *)
(* composed, what holds of them, and that they keep what Answers promises. *)
(***************************************************************************)
EXTENDS Drivers, Synthesis

vars == <<procVars, driverVars, synthVars>>

Init == ProcessInit /\ DriversInit /\ SynthesisInit

\* The handler returns, and its deferred Remove is run.
ReturnPage(t) ==
    /\ Return(t)
    /\ temp' = Remaining(t)
    /\ UNCHANGED <<machines, petri, default, reading, global, shown, disturbed>>

PageStep(t) ==
    \/ (ReadAll(t) \/ Report(t) \/ ReportFatal(t)) /\ UNCHANGED <<driverVars, synthVars>>
    \/ ReturnPage(t) /\ UNCHANGED driverVars

-----------------------------------------------------------------------------
(* The commands, each a function of src/cmd.  Nothing is ever sent on the  *)
(* channel Error of the CFSM extraction, which cfsms selects on as well.   *)

Is(t, kind) == job[t].kind = kind

LoadStep(t) == CreateLog(t) \/ NewConfig(t) \/ BuildSSA(t) \/ Finish(t)

extractMigo(t) ==
    /\ Is(t, "migo")
    /\ LoadStep(t) \/ GoRun(t) \/ SelectError(t) \/ SelectDone(t) \/ InferOutput(t)
    /\ UNCHANGED synthVars

extractCFSMs(t) ==
    /\ Is(t, "cfsms")
    /\ LoadStep(t) \/ GoRun(t) \/ SelectDone(t) \/ WriteDot(t) \/ WriteCFSMs(t)
    /\ UNCHANGED synthVars

check(t) ==
    /\ Is(t, "checkfair")
    /\ LoadStep(t) \/ CheckFair(t)
    /\ UNCHANGED synthVars

Build(t) ==
    /\ Is(t, "buildssa")
    /\ LoadStep(t) \/ DumpUsed(t) \/ DumpAll(t)
    /\ UNCHANGED synthVars

(* The pages, each a handler of src/webservice.                            *)

indexHandler(t) ==
    /\ Is(t, "/")
    /\ PageStep(t) \/ (Open(t) /\ UNCHANGED <<driverVars, synthVars>>)

loadHandler(t) ==
    /\ Is(t, "/load")
    /\ PageStep(t) \/ (Open(t) /\ UNCHANGED <<driverVars, synthVars>>)

ssaHandler(t) ==
    /\ Is(t, "/ssa")
    /\ \/ PageStep(t)
       \/ (BuildSSA(t) \/ CallGraph(t) \/ WriteTo(t)) /\ UNCHANGED synthVars

migoHandler(t) ==
    /\ Is(t, "/migo")
    /\ \/ PageStep(t)
       \/ /\ BuildSSA(t) \/ GoRun(t) \/ SelectError(t) \/ SelectDone(t) \/ Encode(t)
          /\ UNCHANGED synthVars

cfsmHandler(t) ==
    /\ Is(t, "/cfsm")
    /\ \/ PageStep(t)
       \/ (BuildSSA(t) \/ GoRun(t) \/ SelectDone(t) \/ Encode(t)) /\ UNCHANGED synthVars

gongHandler(t) ==
    /\ Is(t, "/gong")
    /\ PageStep(t) \/ ((TempFile(t) \/ LookPath(t) \/ RunGong(t)) /\ UNCHANGED driverVars)

synthesisHandler(t) ==
    /\ Is(t, "/synthesis")
    /\ \/ PageStep(t)
       \/ /\ \/ LookPath(t) \/ Chdir(t) \/ TempFile(t) \/ RunGMC(t) \/ RunPetrify(t)
             \/ Truncate(t) \/ WriteFile(t) \/ ReadDefault(t) \/ WriteGlobal(t)
             \/ DrawMachines(t) \/ DrawGlobal(t)
          /\ UNCHANGED driverVars

TaskStep(t) ==
    \/ extractMigo(t) \/ extractCFSMs(t) \/ check(t) \/ Build(t)
    \/ indexHandler(t) \/ loadHandler(t) \/ ssaHandler(t) \/ migoHandler(t)
    \/ cfsmHandler(t) \/ gongHandler(t) \/ synthesisHandler(t)

\* Run of the MiGo inference, and of the CFSM extraction.
InferRun(t) ==
    InferStart(t) \/ InferVisit(t) \/ InferQueue(t) \/ InferUnwind(t) \/ InferCrash(t)
ExtractRun(t) == ExtractStart(t) \/ ExtractVisit(t)

RunStep(t) == (InferRun(t) \/ ExtractRun(t)) /\ UNCHANGED synthVars

\* Start, and the main goroutine of serve.
ServerStep == InitPlayground \/ Listener \/ ServeReturns

Next ==
    \/ ServerStep /\ UNCHANGED <<driverVars, synthVars>>
    \/ \E t \in Tasks :
          \/ Request(t) /\ UNCHANGED <<driverVars, synthVars>>
          \/ TaskStep(t)
          \/ RunStep(t)

Spec == Init /\ [][Next]_vars

\* The scheduler of Go runs every goroutine that can go on; requests need not
\* come, and the listener need not fail.
FairSpec ==
    /\ Spec
    /\ \A t \in Tasks : WF_vars(TaskStep(t)) /\ WF_vars(RunStep(t))

-----------------------------------------------------------------------------
(* What holds of a process *)

Runs == {"none", "start", "visit", "queue", "send", "unwind", "crash", "ended",
         "alone", "shared"}

TypeOK ==
    /\ job \in [Tasks -> Jobs \cup {NoJob}]
    /\ main \in {"command", "start", "listening", "serving"}
    /\ dirs \in {"absolute", "relative"} /\ cwd \in {"start", "syn"}
    /\ proc \in {"up", "exit", "fatal", "panic", "crash"}
    /\ run \in [Tasks -> Runs]
    /\ err \in [Tasks -> BOOLEAN] /\ done \in [Tasks -> BOOLEAN]
    /\ logw.to \in {"none", "off", "stdout", "file"}
    /\ logw.held \in 0..BufLines /\ logw.kept + logw.held \in 0..logw.said
    /\ temp \subseteq Tasks /\ disturbed \subseteq Tasks
    /\ machines \in [Tasks -> Tasks \cup {"none"}]
    /\ petri \in [Tasks -> Tasks \cup {"none", "error"}]
    /\ default \in Tasks \cup {"none", "error", "empty", "mixed"}
    /\ reading \in [Tasks -> Tasks \cup {"none", "error", "empty", "mixed"}]
    /\ global \in Tasks \cup {"none"}
    /\ \A t \in Tasks : \A part \in DOMAIN NotShown : shown[t][part] \in Tasks \cup {"none"}

\* The answers that are right for a job.  When Run of the MiGo inference
\* panics, Done is closed before the process ends: what there is of the types
\* may still be taken for the result.
Panicking == {"nopkg", "nomain", "panics"}
RightAnswers(t, j) ==
    CASE j.kind \in {"migo", "/migo"} ->
            IF j.src \in Panicking THEN {"partial"} ELSE {"types"}
      [] j.kind \in {"cfsms", "/cfsm"} -> {"cfsms"}
      [] j.kind = "checkfair" -> {IF j.src = "nomain" THEN "nothing" ELSE "loops"}
      [] j.kind = "buildssa" -> {IF j.dump = {} THEN "nothing" ELSE "ssa"}
      [] j.kind = "/ssa" -> {"ssa"}
      [] j.kind = "/" -> {"index"}
      [] j.kind = "/load" -> {"source"}
      [] j.kind = "/gong" -> {"gong"}
      [] j.kind = "/synthesis" -> {"synthesis"}
      [] OTHER -> {}

Promise == INSTANCE Answers WITH
    alive <- proc = "up", asked <- job, Right <- RightAnswers

\* Every task is answered at most once, with an answer that is right for it
\* and after its analysis is complete, and nothing is answered after the end
\* of the process (the drivers and handlers of src/cmd and src/webservice).
KeepsPromise == Promise!Spec

\* The log of a command that returns, or panics in its main goroutine, is
\* complete; when the process ends otherwise, what is missing is what the
\* buffer held and the rest is there (logwriter.Create).
LogKept ==
    /\ proc \in {"exit", "panic"} => logw.kept = logw.said \/ logw.to \in {"none", "off"}
    /\ logw.to = "stdout" => logw.kept = logw.said
    /\ logw.to = "file" => logw.said - logw.kept <= BufLines

\* Half a result is taken for the result only of a Run that has panicked: Done
\* was closed by its deferred call and the process is about to end, or has
\* ended.  From a Run that still goes on nothing is taken, though Done is
\* closed in one goroutine and the types are read in another.
HalfResults ==
    \A t \in Tasks : "partial" \in {buf[t], told[t]} => run[t] = "crash"

\* The machines that the page synthesis shows are those of its request: GMC
\* and dot work on files that are named after its own temporary file.
OwnMachines ==
    \A t \in Tasks : shown[t].smc \in {t, "none"} /\ shown[t].machines \in {t, "none"}

\* So is the global graph, if any is, for a request that wrote its own net and
\* graph to the shared files, unless another request wrote `default` between
\* its write and its reading, or the graph before it was drawn.  Requests that
\* use these files at the same time in another order do not harm each other.
OwnGlobal ==
    \A t \in Tasks :
        job[t].kind = "/synthesis" /\ pc[t] \in {"return", "end"} /\ t \notin disturbed
            => shown[t].global \in {t, "none"}

\* Everyone who asked is answered or turned away, unless the analysis does
\* not end; an endless analysis keeps nobody else waiting.
Served ==
    \A t \in Tasks : job[t].src # "endless" => (told[t] = "waiting" ~> told[t] # "waiting")

\* A request whose error was reported gets the report (webservice/errors.go:22,
\* "Report sends internal server error to web client").
ErrorsReported ==
    \A t \in Tasks : buf[t] = "error" /\ told[t] # "waiting" => told[t] = "error"

-----------------------------------------------------------------------------
\* The inductive invariant.  Control: a task is at a place of its kind, waits
\* as long as it is between its request and its answer, and holds the right
\* answer when it is about to return.
Places(kind) ==
    CASE kind = "migo" -> {"flags", "config", "build", "go", "select", "output", "cleanup"}
      [] kind = "cfsms" ->
            {"flags", "config", "build", "go", "select", "output", "cfsms", "cleanup"}
      [] kind = "checkfair" -> {"flags", "config", "build", "check", "cleanup"}
      [] kind = "buildssa" -> {"flags", "config", "build", "dump", "dumpall", "cleanup"}
      [] kind = "/" -> {"idle", "open", "report", "fatal", "return", "end"}
      [] kind = "/load" -> {"idle", "read", "open", "report", "fatal", "return", "end"}
      [] kind = "/ssa" ->
            {"idle", "read", "build", "callgraph", "building", "report", "fatal", "return", "end"}
      [] kind \in {"/migo", "/cfsm"} ->
            {"idle", "read", "build", "go", "select", "encode", "report", "fatal", "return", "end"}
      [] kind = "/gong" ->
            {"idle", "read", "tempfile", "lookup", "gong", "report", "fatal", "return", "end"}
      [] kind = "/synthesis" ->
            {"idle", "read", "lookup", "mkdir", "tempfile", "gmc", "petrify", "truncate"}
            \cup Using \cup {"report", "fatal", "return", "end"}
      [] OTHER -> {"idle"}

AllPlaces == UNION {Places(kind) : kind \in Commands \cup Pages \cup {"none"}}

Texts == {"types", "partial", "cfsms", "loops", "nothing", "ssa", "index", "source", "gong",
          "synthesis", "none", "waiting", "error", "nil", "trace", "lost"}

Waits(t) == pc[t] \notin {"idle", "cleanup", "end"}

TaskOK(t) ==
    /\ pc[t] \in Places(job[t].kind)
    /\ told[t] = "none" <=> pc[t] = "idle"
    /\ told[t] = "waiting" <=> proc = "up" /\ Waits(t)
    /\ pc[t] = "return" => buf[t] \in RightAnswers(t, job[t])
    /\ IF main = "command" THEN IsCommand(t) \/ job[t] = NoJob ELSE job[t].kind \in Pages
    /\ IsCommand(t) => \A u \in Tasks \ {t} : job[u] = NoJob

ControlOK ==
    /\ job \in [Tasks -> Jobs \cup {NoJob}]
    /\ main \in {"command", "start", "listening", "serving"}
    /\ dirs \in {"absolute", "relative"} /\ cwd \in {"start", "syn"}
    /\ proc \in {"up", "exit", "fatal", "panic", "crash"}
    /\ pc \in [Tasks -> AllPlaces] /\ buf \in [Tasks -> Texts] /\ told \in [Tasks -> Texts]
    /\ \A t \in Tasks : TaskOK(t)

\* The goroutine Run, when it was started, and what it leaves to its caller.
Early == {"idle", "flags", "config", "read", "build", "go"}
Late == {"encode", "output", "cfsms"}

TaskRunOK(t) ==
    /\ Infers(t) =>
         /\ run[t] \in {"none", "start", "visit", "queue", "unwind", "crash", "ended"}
         /\ done[t] => run[t] \in {"crash", "ended"}
         /\ run[t] = "visit" => job[t].src # "nopkg"
         /\ run[t] \in {"queue", "ended"} => job[t].src \notin Panicking
         /\ run[t] \in {"unwind", "crash"} => job[t].src \in Panicking
    /\ Extracts(t) => run[t] \in {"none", "start", "visit", "send", "ended"}
    /\ ~Infers(t) /\ ~Extracts(t) => run[t] \in {"none", "alone", "shared"}
    /\ err[t] => Infers(t) /\ job[t].src = "nopkg"
    /\ done[t] => Infers(t)
    /\ pc[t] \in Early => run[t] = "none"
    /\ pc[t] \in Late => done[t] \/ (Extracts(t) /\ run[t] = "ended")

RunOK ==
    /\ run \in [Tasks -> Runs] /\ err \in [Tasks -> BOOLEAN] /\ done \in [Tasks -> BOOLEAN]
    /\ \A t \in Tasks : TaskRunOK(t)

\* The log: every line that was said was kept, or is held in the buffer.
LogOK ==
    /\ logw \in [to : {"none", "off", "stdout", "file"}, said : Nat, held : Nat, kept : Nat]
    /\ logw.kept + logw.held = logw.said /\ logw.held <= BufLines
    /\ logw.to # "file" \/ proc \in {"exit", "panic"} => logw.held = 0
    /\ main # "command" => logw.to = "none"
    /\ \A t \in Tasks : pc[t] = "flags" => logw.to = "none"

\* The files: those that a request which nobody disturbed is about to use hold
\* what is its own.
Undisturbed(t) ==
    /\ pc[t] = "write" => default = "empty" /\ petri[t] = t
    /\ pc[t] = "buildglobal" => default = t
    /\ pc[t] = "global" => reading[t] = t
    /\ pc[t] \in {"drawmachines", "drawglobal"} => global = t
    /\ pc[t] \in {"return", "end"} => shown[t].global \in {t, "none"}

FilesTyped ==
    /\ temp \subseteq Tasks /\ disturbed \subseteq Tasks
    /\ machines \in [Tasks -> Tasks \cup {"none"}]
    /\ petri \in [Tasks -> Tasks \cup {"none", "error"}]
    /\ default \in Tasks \cup {"none", "error", "empty", "mixed"}
    /\ reading \in [Tasks -> Tasks \cup {"none", "error", "empty", "mixed"}]
    /\ global \in Tasks \cup {"none"}
    /\ shown \in [Tasks -> [smc : Tasks \cup {"none"}, machines : Tasks \cup {"none"},
                            global : Tasks \cup {"none"}]]

TaskFilesOK(t) ==
    /\ machines[t] \in {t, "none"}
    /\ pc[t] = "truncate" => petri[t] \in {t, "error"}
    /\ job[t].kind = "/synthesis" /\ t \notin disturbed => Undisturbed(t)

FilesOK == FilesTyped /\ \A t \in Tasks : TaskFilesOK(t)

IInv ==
    /\ ControlOK
    /\ RunOK
    /\ LogOK
    /\ FilesOK
    /\ OwnMachines
    /\ HalfResults
=============================================================================
