------------------------------ MODULE MCEventLoop ------------------------------
(***************************************************************************)
(* The three users of the BlueJS job queue, for TLC: scripts with promises *)
(* (Promises), one async generator (AsyncGenerators) and the evaluation of *)
(* a module graph (ModuleEval).  program, chosen at the start, says which  *)
(* of them the virtual machine runs; the queue operators are the same.     *)
(***************************************************************************)
EXTENDS Promises, AsyncGenerators, ModuleEval

vars == <<vm, program, watched, ran, adopted, graph>>

NoGraph == [requests |-> <<>>, body |-> <<>>, touches |-> FALSE]

Init ==
    \/ PromisesInit /\ graph = NoGraph
    \/ /\ GeneratorInit
       /\ watched = <<>> /\ ran = <<>> /\ adopted = {} /\ graph = NoGraph
    \/ ModuleInit /\ watched = <<>> /\ ran = <<>> /\ adopted = {}

Next ==
    \/ program = "promises" /\ PromisesNext /\ UNCHANGED graph
    \/ program = "generator" /\ GeneratorNext
       /\ UNCHANGED <<watched, ran, adopted, graph>>
    \/ program = "modules" /\ ModuleNext /\ UNCHANGED <<watched, ran, adopted>>

Spec == Init /\ [][Next]_vars
================================================================================
