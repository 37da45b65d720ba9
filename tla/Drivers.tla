------------------------------- MODULE Drivers -------------------------------
(***************************************************************************)
(* The tasks that load and analyse a program: the commands migo, cfsms,    *)
(* checkfair and buildssa, and the pages migo, cfsm and ssa.  migo and     *)
(* cfsms run the analysis in a goroutine, Run, and wait for its channels   *)
(* Error and Done.  A command also writes a log.                           *)
(*                                                                         *)
(* The source of a task is "bad" (it does not parse or load), "nopkg" (no  *)
(* package main), "nomain" (no function main in it), "unknown" (it uses a  *)
(* channel the MiGo inference does not know), "panics" (it has something    *)
(* on which the analysis it is for panics), "endless" (the analysis does   *)
(* not end) or "ok"; "nofiles" and "cut" are commands without files and    *)
(* requests whose body cannot be read.                                     *)
(***************************************************************************)
EXTENDS Process

CONSTANTS BufLines    \* how many lines the buffer of a log file holds

ASSUME BufLinesAssumption == BufLines \in Nat \ {0}

VARIABLES
    run,    \* the goroutine Run of each task
    err,    \* the channel Error of each task holds an error
    done,   \* the channel Done of each task was closed
    logw    \* the log of the command: where it goes, the lines said, those
            \* held in the buffer, and those kept where it goes

driverVars == <<run, err, done, logw>>

Infers(t) == job[t].kind \in {"migo", "/migo"}
Extracts(t) == job[t].kind \in {"cfsms", "/cfsm"}

DriversInit ==
    /\ run = [t \in Tasks |-> "none"]
    /\ err = [t \in Tasks |-> FALSE]
    /\ done = [t \in Tasks |-> FALSE]
    /\ logw = [to |-> "none", said |-> 0, held |-> 0, kept |-> 0]

\* A line is written to the log; a full buffer is flushed first.
SayBuffered_Full(l) == [l EXCEPT !.said = @ + 1, !.held = @ + 1]
SayBuffered(l) ==
    IF l.held < BufLines
    THEN [l EXCEPT !.said = @ + 1, !.held = @ + 1]
    ELSE [l EXCEPT !.said = @ + 1, !.held = 1, !.kept = @ + l.held]
Say(l) ==
    CASE l.to = "file" -> SayBuffered(l)
      [] l.to = "stdout" -> [l EXCEPT !.said = @ + 1, !.kept = @ + 1]
      [] OTHER -> l

Cleanup_Close(l) == l
Cleanup(l) == [l EXCEPT !.held = 0, !.kept = @ + l.held]

-----------------------------------------------------------------------------
\* logwriter.Create: nothing is kept without logging, a log file is made.
CreateLog(t) ==
    /\ At(t, "flags")
    /\ IF job[t].log = "badfile"
       THEN Fail(t) /\ UNCHANGED logw
       ELSE /\ logw' = [logw EXCEPT !.to = job[t].log]
            /\ Goto(t, "config") /\ UNCHANGED <<proc, told, buf>>
    /\ UNCHANGED <<job, main, dirs, cwd, run, err, done>>

\* The main goroutine of a command panics: deferred calls, Cleanup, are run.
MainPanics(t) ==
    /\ EndWith(t, "trace", "panic")
    /\ logw' = Cleanup(logw)
    /\ UNCHANGED <<pc, buf>>

\* cfsms uses the configuration, which is nil, before it looks at the error.
NewConfig(t) ==
    /\ At(t, "config")
    /\ IF job[t].src # "nofiles"
       THEN Goto(t, "build") /\ UNCHANGED <<proc, told, buf, logw>>
       ELSE IF job[t].kind = "cfsms"
       THEN MainPanics(t)
       ELSE Fail(t) /\ UNCHANGED logw
    /\ UNCHANGED <<job, main, dirs, cwd, run, err, done>>

BuildSSA(t) ==
    /\ At(t, "build")
    /\ IF job[t].src = "bad"
       THEN Fail(t) /\ UNCHANGED logw
       ELSE /\ Goto(t, CASE Infers(t) \/ Extracts(t) -> "go"
                         [] job[t].kind = "buildssa" -> "dump"
                         [] job[t].kind = "checkfair" -> "check"
                         [] job[t].kind = "/ssa" -> "callgraph")
            /\ logw' = Say(logw)
            /\ UNCHANGED <<proc, told, buf>>
    /\ UNCHANGED <<job, main, dirs, cwd, run, err, done>>

\* New, and go Run.
GoRun(t) ==
    /\ Step(t, "go", "select")
    /\ run' = [run EXCEPT ![t] = "start"]
    /\ UNCHANGED <<job, main, dirs, cwd, proc, buf, told, err, done, logw>>

-----------------------------------------------------------------------------
(* The goroutine Run *)

Running(t, l) == proc = "up" /\ run[t] = l
RunTo(t, l) == run' = [run EXCEPT ![t] = l]

\* Run of the MiGo inference looks for a main package: without one it sends
\* an error, and goes on.
InferStart_Close(t) ==
    /\ Running(t, "start") /\ Infers(t)
    /\ logw' = Say(logw)
    /\ RunTo(t, IF job[t].src = "nopkg" THEN "unwind" ELSE "visit")
    /\ err' = [err EXCEPT ![t] = job[t].src = "nopkg"]
    /\ done' = [done EXCEPT ![t] = TRUE]
    /\ UNCHANGED procVars
InferStart(t) ==
    /\ Running(t, "start") /\ Infers(t)
    /\ logw' = Say(logw)
    /\ RunTo(t, IF job[t].src = "nopkg" THEN "unwind" ELSE "visit")
    /\ err' = [err EXCEPT ![t] = job[t].src = "nopkg"]
    /\ UNCHANGED <<procVars, done>>

\* The visit of init and main; an unknown channel is Fatal, which says so in
\* the log, and no function main is a nil dereference, one panic of many.
InferVisit(t) ==
    /\ Running(t, "visit") /\ Infers(t)
    /\ job[t].src # "endless"
    /\ logw' = Say(logw)
    /\ CASE job[t].src = "unknown" ->
                 /\ IF logw.to = "stdout" THEN EndWith(t, "error", "fatal") ELSE End("fatal")
                 /\ UNCHANGED run
         [] job[t].src \in {"nomain", "panics"} -> RunTo(t, "unwind") /\ UNCHANGED <<proc, told>>
         [] OTHER -> RunTo(t, "queue") /\ UNCHANGED <<proc, told>>
    /\ UNCHANGED <<job, main, dirs, cwd, pc, buf, err, done>>

\* RunQueue, the time, and the deferred close of Done.
InferQueue_NoClose(t) ==
    /\ Running(t, "queue") /\ Infers(t)
    /\ RunTo(t, "ended")
    /\ logw' = Say(logw)
    /\ UNCHANGED <<procVars, err, done>>
InferQueue(t) ==
    /\ Running(t, "queue") /\ Infers(t)
    /\ RunTo(t, "ended")
    /\ done' = [done EXCEPT ![t] = TRUE]
    /\ logw' = Say(logw)
    /\ UNCHANGED <<procVars, err>>

\* A panic of Run: the deferred close comes first, the end of the process next.
InferUnwind(t) ==
    /\ Running(t, "unwind")
    /\ RunTo(t, "crash")
    /\ done' = [done EXCEPT ![t] = TRUE]
    /\ UNCHANGED <<procVars, err, logw>>

InferCrash(t) ==
    /\ Running(t, "crash")
    /\ EndWith(t, "trace", "crash")
    /\ UNCHANGED <<job, main, dirs, cwd, pc, buf, driverVars>>

\* Run of the CFSM extraction ends the process without a main; what it says,
\* it says on stderr.
ExtractStart(t) ==
    /\ Running(t, "start") /\ Extracts(t)
    /\ IF job[t].src = "nopkg"
       THEN EndWith(t, "error", "fatal") /\ UNCHANGED run
       ELSE RunTo(t, "visit") /\ UNCHANGED <<proc, told>>
    /\ UNCHANGED <<job, main, dirs, cwd, pc, buf, err, done, logw>>

\* Nothing recovers from a panic of its visit, and no channel is closed.
ExtractVisit(t) ==
    /\ Running(t, "visit") /\ Extracts(t)
    /\ job[t].src # "endless"
    /\ CASE job[t].src = "nomain" -> EndWith(t, "error", "fatal") /\ UNCHANGED run
         [] job[t].src = "panics" -> EndWith(t, "trace", "crash") /\ UNCHANGED run
         [] OTHER -> RunTo(t, "send") /\ UNCHANGED <<proc, told>>
    /\ UNCHANGED <<job, main, dirs, cwd, pc, buf, err, done, logw>>

-----------------------------------------------------------------------------
(* What the task does with the results *)

\* What is received from Error is dropped: log.Fatal and Report are given the
\* err of before, which is nil.
SelectError(t) ==
    /\ At(t, "select") /\ err[t]
    /\ FailWith(t, "nil")
    /\ UNCHANGED <<job, main, dirs, cwd, driverVars>>

\* Done is closed by Run, or it is a channel on which Run sends.
SelectDone(t) ==
    /\ \/ done[t] /\ UNCHANGED run
       \/ Running(t, "send") /\ RunTo(t, "ended")
    /\ Step(t, "select", IF IsCommand(t) THEN "output" ELSE "encode")
    /\ logw' = IF Infers(t) THEN Say(logw) ELSE logw
    /\ UNCHANGED <<job, main, dirs, cwd, proc, buf, told, err, done>>

\* What the results are: those of a Run that ended, or what there is of them.
Results(t) ==
    IF run[t] # "ended" THEN "partial"
    ELSE IF Infers(t) THEN "types" ELSE "cfsms"

\* CleanUp, and the reply of a page.
Encode(t) ==
    /\ At(t, "encode")
    /\ Reply(t, Results(t), "return")
    /\ UNCHANGED <<job, main, dirs, cwd, proc, told, driverVars>>

\* The output of a command; it may not be possible to make the file.
PrintOut(t, answer, next) ==
    /\ Goto(t, next)
    /\ told' = [told EXCEPT ![t] = answer]
    /\ UNCHANGED <<proc, buf, logw>>

InferOutput(t) ==
    /\ At(t, "output") /\ job[t].kind = "migo"
    /\ \/ PrintOut(t, Results(t), "cleanup")
       \/ Fail(t) /\ UNCHANGED logw
    /\ UNCHANGED <<job, main, dirs, cwd, run, err, done>>

\* WriteOutput: the dot file, then the file of CFSMs.
WriteDot(t) ==
    /\ At(t, "output") /\ job[t].kind = "cfsms"
    /\ \/ Goto(t, "cfsms") /\ UNCHANGED <<proc, told, buf, logw>>
       \/ MainPanics(t)
    /\ UNCHANGED <<job, main, dirs, cwd, run, err, done>>

WriteCFSMs(t) ==
    /\ At(t, "cfsms")
    /\ \/ PrintOut(t, Results(t), "cleanup")
       \/ MainPanics(t)
       \/ Fail(t) /\ UNCHANGED logw
    /\ UNCHANGED <<job, main, dirs, cwd, run, err, done>>

\* checkfair: nothing is checked without main; it panics without a package,
\* and on a range over a channel whose block starts with a phi.
CheckFair(t) ==
    /\ At(t, "check")
    /\ CASE job[t].src \in {"nopkg", "panics"} -> MainPanics(t)
         [] job[t].src = "nomain" -> PrintOut(t, "nothing", "cleanup")
         [] OTHER -> PrintOut(t, "loops", "cleanup")
    /\ UNCHANGED <<job, main, dirs, cwd, run, err, done>>

\* buildssa: WriteTo dumps the functions used and panics without a main;
\* WriteAll dumps all; both may be asked for.
DumpUsed(t) ==
    /\ At(t, "dump")
    /\ \/ /\ "used" \in job[t].dump /\ job[t].src \in {"nopkg", "nomain"}
          /\ MainPanics(t)
       \/ /\ "used" \in job[t].dump => job[t].src \notin {"nopkg", "nomain"}
          /\ Goto(t, "dumpall") /\ UNCHANGED <<proc, told, buf, logw>>
       \/ /\ "used" \in job[t].dump /\ job[t].src \notin {"nopkg", "nomain"}
          /\ Fail(t) /\ UNCHANGED logw
    /\ UNCHANGED <<job, main, dirs, cwd, run, err, done>>

DumpAll(t) ==
    /\ At(t, "dumpall")
    /\ \/ PrintOut(t, IF job[t].dump = {} THEN "nothing" ELSE "ssa", "cleanup")
       \/ "all" \in job[t].dump /\ Fail(t) /\ UNCHANGED logw
    /\ UNCHANGED <<job, main, dirs, cwd, run, err, done>>

\* The command returns: the deferred Cleanup flushes the log.
Finish(t) ==
    /\ At(t, "cleanup")
    /\ End("exit")
    /\ logw' = Cleanup(logw)
    /\ UNCHANGED <<job, main, dirs, cwd, pc, buf, run, err, done>>

\* The page ssa: WriteTo builds a call graph, and panics without a main.  Of
\* two that are built at once either may panic, and the maps they share may
\* end the process.
Building == {u \in Tasks : pc[u] = "building"}

CallGraph(t) ==
    /\ At(t, "callgraph")
    /\ IF job[t].src \in {"nopkg", "nomain"}
       THEN HandlerPanics(t) /\ UNCHANGED run
       ELSE /\ Goto(t, "building")
            /\ run' = [u \in Tasks |-> IF u \in Building \cup {t}
                                      THEN IF Building = {} THEN "alone" ELSE "shared"
                                      ELSE run[u]]
            /\ UNCHANGED <<proc, told, buf>>
    /\ UNCHANGED <<job, main, dirs, cwd, err, done, logw>>

WriteTo(t) ==
    /\ At(t, "building")
    /\ \/ Reply(t, "ssa", "return") /\ UNCHANGED <<proc, told>>
       \/ run[t] = "shared" /\ HandlerPanics(t)
       \/ run[t] = "shared" /\ End("crash") /\ UNCHANGED <<pc, buf>>
    /\ UNCHANGED <<job, main, dirs, cwd, driverVars>>
=============================================================================
