------------------------- MODULE MCExecutionRecord -------------------------
(* ExecutionRecord with two processes of one agent and one of another.     *)
EXTENDS ExecutionRecord

CONSTANTS i1, i2, i3

\* i1 and i2 run for one (worker, machine), i3 for another.
MCPrincipal == [i \in Instances |-> IF i = i3 THEN "w2" ELSE "w1"]

=============================================================================
