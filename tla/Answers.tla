------------------------------- MODULE Answers -------------------------------
(***************************************************************************)
(* What a process of dingo-hunter promises to those who ask it for an      *)
(* analysis, the user of a command or the clients of the web service: at   *)
(* most one answer each, a right one, and none after its end.  Whoever     *)
(* waits when it ends gets nothing; only the user of a command may get     *)
(* what ended it, which is an error, nil or the trace of a panic.          *)
(***************************************************************************)
CONSTANTS Tasks,         \* who may ask
          Right(_, _)    \* the right answers to a task that asked for a job

VARIABLES alive, asked, told

vars == <<alive, asked, told>>

Waiting(t) == told[t] = "waiting"

Init ==
    /\ alive = TRUE
    /\ told \in [Tasks -> {"none", "waiting"}]

Ask(t) ==
    /\ alive /\ told[t] = "none"
    /\ told' = [told EXCEPT ![t] = "waiting"]
    /\ UNCHANGED <<alive, asked>>

Answer(t) ==
    /\ alive /\ Waiting(t)
    /\ \E a \in Right(t, asked[t]) : told' = [told EXCEPT ![t] = a]
    /\ UNCHANGED <<alive, asked>>

Lose(t) ==
    /\ alive /\ Waiting(t)
    /\ told' = [told EXCEPT ![t] = "lost"]
    /\ UNCHANGED <<alive, asked>>

End ==
    /\ alive
    /\ alive' = FALSE
    /\ \E last \in {"lost", "error", "nil", "trace"} :
          /\ last # "lost" => \E t \in Tasks : {u \in Tasks : told[u] # "none"} = {t}
          /\ told' = [t \in Tasks |-> IF Waiting(t) THEN last ELSE told[t]]
    /\ UNCHANGED asked

Next == End \/ \E t \in Tasks : Ask(t) \/ Answer(t) \/ Lose(t)

Spec == Init /\ [][Next]_vars
=============================================================================
