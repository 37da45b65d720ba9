------------------------------ MODULE Synthesis ------------------------------
(***************************************************************************)
(* The pages synthesis and gong, which run other programs on files.  Each  *)
(* request has a temporary file of its own, and files named after it; all  *)
(* requests for a synthesis share the file `default`, the global graph     *)
(* that is drawn from it, and the working directory of the process.        *)
(*                                                                         *)
(* External: GMC writes what is named after its input, petrify prints the  *)
(* net for that, BuildGlobal reads `default` and writes the global graph,  *)
(* dot draws.  A program that fails writes nothing; its failure is only    *)
(* logged, and that of WriteFile is not even looked at.                    *)
(***************************************************************************)
EXTENDS Process

VARIABLES
    temp,       \* the temporary files, each of a request
    machines,   \* whose machines the file of each request holds
    petri,      \* what petrify printed for each request
    default,    \* the shared file: "none", "empty", "mixed", or whose net it holds
    reading,    \* what each BuildGlobal has read of it
    global,     \* whose global graph is in the shared file
    shown,      \* what is shown to each request
    disturbed   \* who failed to write the shared files, or had another write
                \* them between its write and its read of them (history)

synthVars == <<temp, machines, petri, default, reading, global, shown, disturbed>>

NotShown == [smc |-> "none", machines |-> "none", global |-> "none"]

SynthesisInit ==
    /\ temp = {}
    /\ machines = [t \in Tasks |-> "none"]
    /\ petri = [t \in Tasks |-> "none"]
    /\ default = "none"
    /\ reading = [t \in Tasks |-> "none"]
    /\ global = "none"
    /\ shown = [t \in Tasks |-> NotShown]
    /\ disturbed = {}

\* Where a request uses the shared files, and who but t is at some of these.
Using == {"write", "buildglobal", "global", "drawmachines", "drawglobal"}
Others(t, places) == {u \in Tasks \ {t} : pc[u] \in places}

\* LookPath of the programs.
LookPath(t) ==
    /\ At(t, "lookup")
    /\ \/ Goto(t, IF job[t].kind = "/gong" THEN "gong" ELSE "mkdir") /\ UNCHANGED <<proc, told, buf>>
       \/ Fail(t)
    /\ UNCHANGED <<job, main, dirs, cwd, synthVars>>

\* MkdirAll and Chdir: the working directory is that of the process.
Chdir(t) ==
    /\ At(t, "mkdir")
    /\ \/ /\ cwd' = "syn"
          /\ Goto(t, "tempfile") /\ UNCHANGED <<proc, told, buf>>
       \/ Fail(t) /\ UNCHANGED cwd
    /\ UNCHANGED <<job, main, dirs, synthVars>>

\* TempFile, Write and Close; the file is to be removed when the handler returns.
TempFile(t) ==
    /\ At(t, "tempfile")
    /\ temp' = temp \cup {t}
    /\ \/ Goto(t, IF job[t].kind = "/gong" THEN "lookup" ELSE "gmc") /\ UNCHANGED <<proc, told, buf>>
       \/ Fail(t)
    /\ UNCHANGED <<job, main, dirs, cwd, machines, petri, default, reading, global, shown, disturbed>>

RunGong(t) ==
    /\ At(t, "gong")
    /\ Reply(t, "gong", "return")
    /\ UNCHANGED <<job, main, dirs, cwd, proc, told, synthVars>>

RunGMC_OneName(t) ==
    /\ Step(t, "gmc", "petrify")
    /\ shown' = [shown EXCEPT ![t].smc = t]
    /\ \/ machines' = [u \in Tasks |-> t]
       \/ UNCHANGED machines
    /\ UNCHANGED <<job, main, dirs, cwd, proc, buf, told, temp, petri, default, reading, global, disturbed>>
RunGMC(t) ==
    /\ Step(t, "gmc", "petrify")
    /\ shown' = [shown EXCEPT ![t].smc = t]
    /\ \/ machines' = [machines EXCEPT ![t] = t]
       \/ UNCHANGED machines
    /\ UNCHANGED <<job, main, dirs, cwd, proc, buf, told, temp, petri, default, reading, global, disturbed>>

\* petrify; without its input it fails.
RunPetrify(t) ==
    /\ Step(t, "petrify", "truncate")
    /\ \/ machines[t] = t /\ petri' = [petri EXCEPT ![t] = t]
       \/ petri' = [petri EXCEPT ![t] = "error"]
    /\ UNCHANGED <<job, main, dirs, cwd, proc, buf, told, temp, machines, default, reading, global, shown, disturbed>>

\* WriteFile truncates the shared file as it opens it, and writes it.  Either
\* may fail, and the request goes on all the same: with the file as it is
\* when it cannot be opened, with a part of the net when it cannot be written.
Truncate(t) ==
    /\ At(t, "truncate")
    /\ \/ /\ Goto(t, "write")
          /\ default' = "empty"
          /\ disturbed' = disturbed \cup Others(t, {"buildglobal"})
                                    \cup IF petri[t] = "error" THEN {t} ELSE {}
       \/ /\ Goto(t, "buildglobal")
          /\ disturbed' = disturbed \cup {t}
          /\ UNCHANGED default
    /\ UNCHANGED <<job, main, dirs, cwd, proc, buf, told, temp, machines, petri, reading, global, shown>>

WriteFile(t) ==
    /\ Step(t, "write", "buildglobal")
    /\ \/ /\ default' \in IF default = "empty" THEN {petri[t]} ELSE {petri[t], "mixed"}
          /\ disturbed' = disturbed \cup Others(t, {"write", "buildglobal"})
       \/ /\ default' \in {default, "mixed"}
          /\ disturbed' = disturbed \cup Others(t, {"write", "buildglobal"}) \cup {t}
    /\ UNCHANGED <<job, main, dirs, cwd, proc, buf, told, temp, machines, petri, reading, global, shown>>

\* BuildGlobal reads the shared file, and writes the global graph.
ReadDefault(t) ==
    /\ Step(t, "buildglobal", "global")
    /\ reading' = [reading EXCEPT ![t] = default]
    /\ UNCHANGED <<job, main, dirs, cwd, proc, buf, told, temp, machines, petri, default, global, shown, disturbed>>

WriteGlobal_Cached(t) ==
    /\ Step(t, "global", "drawmachines")
    /\ \/ /\ global = "none" /\ reading[t] \in Tasks
          /\ global' = reading[t]
          /\ disturbed' = disturbed \cup Others(t, {"drawmachines", "drawglobal"})
       \/ global # "none" /\ UNCHANGED <<global, disturbed>>
       \/ UNCHANGED global /\ disturbed' = disturbed \cup {t}
    /\ UNCHANGED <<job, main, dirs, cwd, proc, buf, told, temp, machines, petri, default, reading, shown>>
WriteGlobal(t) ==
    /\ Step(t, "global", "drawmachines")
    /\ \/ /\ reading[t] \in Tasks
          /\ global' = reading[t]
          /\ disturbed' = disturbed \cup Others(t, {"drawmachines", "drawglobal"})
       \/ UNCHANGED global /\ disturbed' = disturbed \cup {t}
    /\ UNCHANGED <<job, main, dirs, cwd, proc, buf, told, temp, machines, petri, default, reading, shown>>

DrawMachines(t) ==
    /\ Step(t, "drawmachines", "drawglobal")
    /\ \E svg \in {machines[t], "none"} : shown' = [shown EXCEPT ![t].machines = svg]
    /\ UNCHANGED <<job, main, dirs, cwd, proc, buf, told, temp, machines, petri, default, reading, global, disturbed>>

DrawGlobal(t) ==
    /\ At(t, "drawglobal")
    /\ \E svg \in {global, "none"} : shown' = [shown EXCEPT ![t].global = svg]
    /\ Reply(t, "synthesis", "return")
    /\ UNCHANGED <<job, main, dirs, cwd, proc, told, temp, machines, petri, default, reading, global, disturbed>>

\* The deferred Remove, when the handler returns.
Remaining(t) == temp \ {t}
=============================================================================
