------------------------------ MODULE MCService ------------------------------
(***************************************************************************)
(* Every command on every kind of source and log, and every pair of pages. *)
(***************************************************************************)
EXTENDS Service

Sources == {"ok", "bad", "nopkg", "nomain"}
Logs == {"off", "stdout", "file", "badfile"}

CommandJobs(kind, src, dump) == [kind : {kind}, src : src, log : Logs, dump : dump]
PageJobs(kinds, src) == [kind : kinds, src : src]

MCJobs ==
    CommandJobs("migo", Sources \cup {"nofiles", "unknown", "panics", "endless"}, {{}})
    \cup CommandJobs("cfsms", Sources \cup {"nofiles", "panics", "endless"}, {{}})
    \cup CommandJobs("checkfair", Sources \cup {"nofiles", "panics"}, {{}})
    \cup CommandJobs("buildssa", Sources \cup {"nofiles"}, SUBSET {"used", "all"})
    \cup PageJobs({"/migo"}, Sources \cup {"cut", "unknown", "panics", "endless"})
    \cup PageJobs({"/cfsm"}, Sources \cup {"cut", "panics", "endless"})
    \cup PageJobs({"/ssa"}, Sources \cup {"cut"})
    \cup PageJobs({"/load"}, {"ok", "bad", "cut"})
    \cup PageJobs({"/"}, {"ok", "bad"})
    \cup PageJobs({"/gong", "/synthesis"}, {"ok", "cut"})
=============================================================================
