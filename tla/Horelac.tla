------------------------------ MODULE Horelac ------------------------------
(***************************************************************************)
(* The program as it is started, serves and is started again: main() and   *)
(* the service on one database file.                                       *)
(***************************************************************************)
EXTENDS ServiceProperties, Startup

program == <<vars, startup>>

Serving == process = "serving"

\* No call is executed before bot.run(), and none survives the process.
Served(t) == Serving /\ Step(t) /\ UNCHANGED startup
Launched  == main /\ UNCHANGED vars
Died      == Crash /\ Killed

ProgramInit == Init /\ Start

ProgramNext == Died \/ Launched \/ \E t \in Threads : Served(t)

\* The container is started again, main() goes on, and so do threads that
\* execute a call.
ProgramSpec ==
    /\ ProgramInit
    /\ [][ProgramNext]_program
    /\ WF_program(Launched)
    /\ \A t \in Threads : WF_program(Serving /\ Work(t) /\ UNCHANGED startup)

-----------------------------------------------------------------------------
\* Wherever a start fails or is cut off, the database has the whole schema or
\* none of it, and calls find the whole schema and enforced foreign keys
\* (migrate, and the constructor of the repository).
SchemaIsWhole ==
    /\ schema \in {{}, Whole}
    /\ (\E t \in Threads : call[t].pc # "idle") => schema = Whole /\ enforced

\* With a good configuration the program serves in the end, or is killed or let
\* down by the disk again and again: no start, wherever it was cut off, leaves
\* a database on which the next one fails.
ServesAgain ==
    ConfigOk =>
        \/ []<>(process = "down" /\ ended \in {"disk", "crash"})
        \/ <>[]Serving
=============================================================================
