---------------------------- MODULE MCTaskStatus ----------------------------
(* TaskStatus for TLC: the symmetry of the safety-only runs.               *)
EXTENDS TaskStatus, TLC

RecordSymmetry ==
  Permutations(Handlers) \cup Permutations(AsyncLets) \cup Permutations(Preferences)
    \cup Permutations(Escalators)
=============================================================================
