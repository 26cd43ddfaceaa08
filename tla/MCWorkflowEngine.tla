-------------------------- MODULE MCWorkflowEngine --------------------------
(* Model-checking instances of WorkflowEngine: the coroutines are            *)
(* interchangeable, so their permutations are a symmetry of the safety runs. *)
EXTENDS WorkflowEngine, TLC

TaskSymmetry == Permutations(Tasks)
=============================================================================
