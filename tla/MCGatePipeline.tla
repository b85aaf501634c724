--------------------------- MODULE MCGatePipeline ---------------------------
(* Instances of GatePipeline.                                              *)
EXTENDS GatePipeline

Gate(kind, cycles, retain, ladder, fallback) ==
    [kind |-> kind, cycles |-> cycles, retain |-> retain, ladder |-> ladder,
     fallback |-> fallback]

(* A suite that keeps its verdict, then a review with a fix cycle and a    *)
(* backoff ladder of its own.                                              *)
SuiteAndReview ==
    <<Gate("command", 0, TRUE, 0, FALSE), Gate("review", 1, FALSE, 1, TRUE)>>
=============================================================================
