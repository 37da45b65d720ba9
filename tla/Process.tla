------------------------------- MODULE Process -------------------------------
(***************************************************************************)
(* A process of dingo-hunter.  It runs one command, or serves the pages of *)
(* the web service, each request in a goroutine of its own.  Here is what  *)
(* all of them share: how a request comes and is answered, how errors are  *)
(* reported, and how the process ends.                                     *)
(*                                                                         *)
(* What a handler writes is buffered by net/http and sent when the handler *)
(* returns; a panic in a handler is recovered there and the connection     *)
(* closed; a panic elsewhere ends the process.                             *)
(***************************************************************************)
EXTENDS Naturals, FiniteSets

CONSTANTS Tasks,   \* the requests; the user of a command is one of them
          Jobs     \* what a task may ask: records of kind, source (src) and,
                   \* for commands, where the log goes and what is dumped

Commands == {"migo", "cfsms", "checkfair", "buildssa"}
Pages == {"/", "/load", "/ssa", "/migo", "/cfsm", "/gong", "/synthesis"}
NoJob == [kind |-> "none", src |-> "none"]

ASSUME TasksAssumption == Tasks # {}
ASSUME JobsAssumption ==
    \A j \in Jobs :
        /\ j.kind \in Commands \cup Pages
        /\ j.kind \in Commands => /\ j.log \in {"off", "stdout", "file", "badfile"}
                                 /\ j.dump \subseteq {"used", "all"}

VARIABLES
    job,    \* what each task asks
    main,   \* the main goroutine: "start", "listening", "serving", or "command"
    dirs,   \* the directories of examples and templates: "absolute" or "relative"
    cwd,    \* the working directory: "start" or "syn"
    pc,     \* where each task is
    proc,   \* "up", or how the process ended: "exit", "fatal", "panic" of the
            \* main goroutine, or "crash" of another
    buf,    \* the response that is buffered for each request
    told    \* what each task was told: "none" before it asks, "waiting", its
            \* answer, "lost", or how the process ended: with an "error" that
            \* says why, with "nil" in its place, or with the "trace" of a panic

procVars == <<job, main, dirs, cwd, pc, proc, buf, told>>

IsCommand(t) == job[t].kind \in Commands
At(t, l) == proc = "up" /\ pc[t] = l
Goto(t, l) == pc' = [pc EXCEPT ![t] = l]
Step(t, l, k) == At(t, l) /\ Goto(t, k)

\* The process ends: tasks that wait are not told anything, except the user
\* of a command, task t, by what is written to stderr.
LostAll == [u \in Tasks |-> IF told[u] = "waiting" THEN "lost" ELSE told[u]]
End(status) == proc' = status /\ told' = LostAll
EndWith(t, word, status) ==
    /\ proc' = status
    /\ told' = IF IsCommand(t) /\ told[t] = "waiting"
               THEN [told EXCEPT ![t] = word] ELSE LostAll

-----------------------------------------------------------------------------
ProcessInit ==
    /\ \/ /\ main = "command"
          /\ \E t \in Tasks : \E j \in {k \in Jobs : k.kind \in Commands} :
                job = [u \in Tasks |-> IF u = t THEN j ELSE NoJob]
          /\ dirs = "absolute"
       \/ /\ main = "start"
          /\ job \in [Tasks -> {k \in Jobs : k.kind \in Pages}]
          /\ dirs \in {"absolute", "relative"}
    /\ cwd = "start"
    /\ pc = [t \in Tasks |-> IF IsCommand(t) THEN "flags" ELSE "idle"]
    /\ proc = "up"
    /\ buf = [t \in Tasks |-> "none"]
    /\ told = [t \in Tasks |-> IF IsCommand(t) THEN "waiting" ELSE "none"]

\* Start: the playground, whose files may be missing, and the handlers.
InitPlayground ==
    /\ proc = "up" /\ main = "start"
    /\ \/ main' = "listening" /\ UNCHANGED <<proc, told>>
       \/ End("fatal") /\ UNCHANGED main
    /\ UNCHANGED <<job, dirs, cwd, pc, buf>>

\* The first call of Listener, by URL, makes the listener; Serve uses it.
Listener ==
    /\ proc = "up" /\ main = "listening"
    /\ \/ main' = "serving" /\ UNCHANGED <<proc, told>>
       \/ End("fatal") /\ UNCHANGED main
    /\ UNCHANGED <<job, dirs, cwd, pc, buf>>

\* Serve returns when the listener fails, and main after it.
ServeReturns ==
    /\ proc = "up" /\ main = "serving"
    /\ End("exit")
    /\ UNCHANGED <<job, main, dirs, cwd, pc, buf>>

Request(t) ==
    /\ main = "serving" /\ Step(t, "idle", IF job[t].kind = "/" THEN "open" ELSE "read")
    /\ told' = [told EXCEPT ![t] = "waiting"]
    /\ UNCHANGED <<job, main, dirs, cwd, proc, buf>>

\* An error: a command ends at once, with what log.Fatal is given, a handler
\* reports it first.
FailWith(t, word) ==
    IF IsCommand(t)
    THEN EndWith(t, word, "fatal") /\ UNCHANGED <<pc, buf>>
    ELSE Goto(t, "report") /\ UNCHANGED <<proc, told, buf>>
Fail(t) == FailWith(t, "error")

\* Report: http.Error writes to the response ...
Report(t) ==
    /\ Step(t, "report", "fatal")
    /\ buf' = [buf EXCEPT ![t] = "error"]
    /\ UNCHANGED <<job, main, dirs, cwd, proc, told>>

\* ... and log.Fatal ends the process.
ReportFatal(t) ==
    /\ At(t, "fatal")
    /\ EndWith(t, "error", "fatal")
    /\ UNCHANGED <<job, main, dirs, cwd, pc, buf>>

Reply(t, answer, next) ==
    /\ buf' = [buf EXCEPT ![t] = answer]
    /\ Goto(t, next)

\* The handler returns, and net/http sends the response.
Return(t) ==
    /\ Step(t, "return", "end")
    /\ told' = [told EXCEPT ![t] = buf[t]]
    /\ UNCHANGED <<job, main, dirs, cwd, proc, buf>>

HandlerPanics(t) ==
    /\ Goto(t, "end")
    /\ told' = [told EXCEPT ![t] = "lost"]
    /\ UNCHANGED <<proc, buf>>

\* The body is read; the connection may break meanwhile.
ReadAll(t) ==
    /\ At(t, "read")
    /\ \/ /\ job[t].src # "cut"
          /\ Goto(t, CASE job[t].kind = "/load" -> "open"
                       [] job[t].kind = "/gong" -> "tempfile"
                       [] job[t].kind = "/synthesis" -> "lookup"
                       [] OTHER -> "build")
          /\ UNCHANGED <<proc, told, buf>>
       \/ job[t].src = "cut" /\ Fail(t)
    /\ UNCHANGED <<job, main, dirs, cwd>>

\* indexHandler and loadHandler: files below the directories given.
Found(t) == job[t].src = "ok" /\ (dirs = "relative" => cwd = "start")

Open(t) ==
    /\ At(t, "open")
    /\ IF Found(t)
       THEN Reply(t, IF job[t].kind = "/" THEN "index" ELSE "source", "return")
            /\ UNCHANGED <<proc, told>>
       ELSE Fail(t)
    /\ UNCHANGED <<job, main, dirs, cwd>>
=============================================================================
