--------------------------- MODULE ThreadCoverage ---------------------------
(***************************************************************************)
(* Which thread of the bot already speaks of a finding                     *)
(* (app/domain/thread_coverage.py).  A finding has an anchor (file, side   *)
(* and category), a line on its side (NoLine where the anchor has none) and *)
(* a severity; a thread has those of its finding, the line it stands on now *)
(* (NoLine when outdated or unknown) and who closed it.                    *)
(***************************************************************************)
EXTENDS Naturals

CONSTANTS Critical, NoLine      \* the highest severity; the absent line

SamePlace(f, threads) == {t \in threads :
    f.line # NoLine /\ t.anchor = f.anchor /\ t.line = f.line}

EscalatedToCritical(f, t) == f.severity = Critical /\ t.severity # Critical

OpenCover(f, threads) == {t \in SamePlace(f, threads) :
    ~t.resolved /\ t.severity >= f.severity}

ClosedCover(f, threads) == {t \in SamePlace(f, threads) :
    t.resolved /\ ~t.byBot /\ ~EscalatedToCritical(f, t)}

Covered(f, threads) == OpenCover(f, threads) \cup ClosedCover(f, threads) # {}
=============================================================================
