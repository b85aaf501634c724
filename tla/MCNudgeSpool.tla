--------------------------- MODULE MCNudgeSpool ---------------------------
(***************************************************************************)
(* An instance of NudgeSpool.  The prompt-time drains are interchangeable: *)
(* no definition tells one from another.                                   *)
(***************************************************************************)
EXTENDS NudgeSpool, TLC

PromptSymmetry == Permutations(Prompts)
=============================================================================
