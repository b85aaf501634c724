-------------------------- MODULE MCStageWorkflow --------------------------
(* StageWorkflow on one short stage, with the processes that may drive it. *)
EXTENDS StageWorkflow, TLC

CONSTANTS d1, d2, d3

\* d1 and d2 are processes of one worker, d3 is another worker.
MCWorker == [d \in Drivers |-> IF d = d3 THEN "w2" ELSE "w1"]

\* Processes of one worker are interchangeable.
Symmetry == Permutations(Drivers \ {d3})

\* A kernel call of a stage.
Step(call, guarded, durable) ==
    [call |-> call, guarded |-> guarded, durable |-> durable]

\* open, a clock read, a durable launch, the wait for the launched run, a
\* backoff the driver waits out in the process, a yield, the closing entry.
MCProgram ==
    <<Step("effect", FALSE, FALSE),
      Step("now", TRUE, FALSE),
      Step("effect", TRUE, TRUE),
      Step("await", TRUE, FALSE),
      Step("sleep", TRUE, FALSE),
      Step("yield", TRUE, FALSE),
      Step("effect", FALSE, FALSE)>>

=============================================================================
