--------------------------- MODULE MCReviewLedger ---------------------------
(* Instances of ReviewLedger.                                              *)
EXTENDS ReviewLedger

Rated(severity, category, evidence, introduced) ==
    [severity |-> severity, category |-> category, evidence |-> evidence,
     introduced |-> introduced]

(* A blocking finding shown, one not shown, one caused by the fix, an      *)
(* unmet condition, and a remark.                                          *)
MCRaisable ==
    {Rated("blocking", "correctness", TRUE, FALSE),
     Rated("blocking", "correctness", FALSE, FALSE),
     Rated("blocking", "correctness", TRUE, TRUE),
     Rated("blocking", "unmet", TRUE, FALSE),
     Rated("minor", "correctness", FALSE, FALSE)}
=============================================================================
