-------------------------- MODULE MCSolutionMemory --------------------------
(* A baseline and its candidate; three runs that are successes as outcomes *)
(* (the baseline's, one that earns the candidate its promotion and one     *)
(* that its own assessor made) and a regression.                           *)
EXTENDS SolutionMemory, TLC

CONSTANTS base, cand

Version(parent, active) ==
  [parent |-> parent, kind |-> "article_scoring", frozen |-> {1, 2}, active |-> active]

MCDefinition == base :> Version(NoVersion, {1, 2}) @@ cand :> Version(base, {1, 2, 3})

Run(evaluator, independent, primary, safety) ==
  [evaluator |-> evaluator, cohort |-> "holdout", independent |-> independent,
   cases |-> 24, primary |-> primary, safety |-> safety, calibration |-> 82]

MCRuns ==
  {Run(base, TRUE, 80, 95), Run(cand, TRUE, 84, 95), Run(cand, FALSE, 90, 95),
   Run(cand, TRUE, 90, 85)}

WriterSymmetry == Permutations(Writers)
=============================================================================
