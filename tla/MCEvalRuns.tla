----------------------------- MODULE MCEvalRuns -----------------------------
(* An instance of EvalRuns: three cases in chunks of two; two trials of a case, with up to *)
(* five calls each.                                                                         *)
EXTENDS EvalRuns, TLC
=============================================================================
