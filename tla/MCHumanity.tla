----------------------------- MODULE MCHumanity -----------------------------
(***************************************************************************)
(* Instances of Humanity for TLC.  Jurors and passports are symmetric: TLC *)
(* explores them up to permutation.                                        *)
(***************************************************************************)
EXTENDS Receipts, TLC

CONSTANTS f1, f2, x, j1, j2, j3

human     == [verdict |-> "Human", confidence |-> "High"]
sybil     == [verdict |-> "Sybil", confidence |-> "High"]
sybilLow  == [verdict |-> "Sybil", confidence |-> "Low"]
uncertain == [verdict |-> "Uncertain", confidence |-> "Low"]

Two  == {human, sybil}
Four == {human, sybil, sybilLow, uncertain}

\* What the oracle makes of the liveness evidence: a verdict, or no answer.
Grader == INSTANCE Oracle
LivenessReplies ==
  {[provider |-> "Ollama", status |-> "success", body |-> Grader!StructuredVerdict(human)],
   [provider |-> "Openai", status |-> "timeout"]}
OracleGrades == {Grader!grade(r) : r \in LivenessReplies}

Symmetry == Permutations(Jurors) \cup Permutations(Nullifiers)

=============================================================================
