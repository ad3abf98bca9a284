--------------------------- MODULE MCReviewRuns ---------------------------
(* Instances of ReviewRuns for TLC. *)
EXTENDS ReviewRunsInv, TLC

\* Commits, runs, requests and workers are interchangeable.
Symmetry == Permutations(Heads) \cup Permutations(Runs)
            \cup Permutations(Requests) \cup Permutations(Workers)
=============================================================================
