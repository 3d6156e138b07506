------------------------------ MODULE MCRuntime -------------------------------
(* Small programs for Runtime.tla: three threads that use the thread table and *)
(* the executor, or the process registry, and two that use sockets.            *)
EXTENDS Runtime

CONSTANTS worker, helper

MCPrograms == {{"thread"}, {"executor"}, {"process"}, {"socket"}}

MCMaxCalls ==
    [program \in MCPrograms |->
        [t \in Threads |-> IF program # {"socket"} THEN 2
                           ELSE CASE t = Main -> 3 [] t = worker -> 2 [] t = helper -> 0]]
==============================================================================
