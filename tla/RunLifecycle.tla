--------------------------- MODULE RunLifecycle ---------------------------
(***************************************************************************)
(* The state machine of a review run: app/domain/lifecycle.py, the status  *)
(* sets of app/domain/enums.py and the rule by which the repository adapter*)
(* accepts a write of a run's row (SqlAlchemyReviewRunRepo.update).        *)
(*                                                                         *)
(* "absent" is the status of a row that has not been inserted.             *)
(***************************************************************************)

Nonterminal == {"queued", "building_context", "analysing", "publishing"}

\* TERMINAL_STATUSES
Terminal == {"completed", "failed", "cancelled"}

Statuses == Nonterminal \cup Terminal

\* REVIEWED_STATUSES: a run that counts as a review of its commit for a
\* repeated webhook.
Reviewed == {"completed", "cancelled"}

\* The stage that follows each stage of the pipeline.
Following(s) ==
    CASE s = "queued"           -> "building_context"
      [] s = "building_context" -> "analysing"
      [] s = "analysing"        -> "publishing"
      [] s = "publishing"       -> "completed"

\* _ALLOWED
Allowed(s) ==
    IF s \in Nonterminal THEN {Following(s), "failed", "cancelled"} ELSE {}

\* Mutated: a write that keeps the status is always accepted.
MayWriteSameStatus(stored, new) ==
    IF stored # new THEN new \in Allowed(stored) ELSE TRUE

\* update(): a write that keeps the status of a row in progress is only a
\* progress mark; any other write, and every write of a terminal row, has to
\* pass next_status.
MayWrite(stored, new) ==
    IF stored \in Terminal \/ stored # new THEN new \in Allowed(stored) ELSE TRUE
=============================================================================
