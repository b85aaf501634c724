-------------------------- MODULE MCExecutionStore --------------------------
(* ExecutionStore with two processes of one agent and one of another.      *)
EXTENDS ExecutionStore, TLC

CONSTANTS i1, i2, i3

\* i1 and i2 run for one (worker, machine), i3 for another.
MCPrincipal == [i \in Instances |-> IF i = i3 THEN "w2" ELSE "w1"]

\* Factories are interchangeable, and so are the processes of one agent.
Symmetry == Permutations(Factories) \cup Permutations(Instances \ {i3})

=============================================================================
