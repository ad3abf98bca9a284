------------------------------ MODULE Findings ------------------------------
(***************************************************************************)
(* What becomes of the findings a model reports: the screening and the     *)
(* duplicates (domain/verification.py, domain/dedup.py), the verdicts of   *)
(* the second pass (application/llm_schema.py, _verify of                  *)
(* review_pipeline.py) and the record of what is left.  A finding is a     *)
(* place in the diff, a category, whether it is serious, and the check of  *)
(* a rule it refers to; text that names a rule by itself or is empty makes *)
(* it unsound.                                                             *)
(***************************************************************************)
EXTENDS Naturals, Functions, Listing

CONSTANTS
    ChangedPlaces,  \* lines of the diff the model was shown and that changed
    OtherPlaces,    \* the lines a model may name besides
    Categories,     \* "security" and others
    Applicable,     \* checks of the shown rules, with the places they apply to
    References,     \* what a finding may refer to, NoCheck among it
    NoCheck,
    MaxFindings     \* how many findings a reply has, a bound

ASSUME FindingsAssumption ==
    /\ NoCheck \in References /\ "security" \in Categories /\ MaxFindings \in Nat
    /\ \A pair \in Applicable : pair[1] \in References \ {NoCheck} /\ pair[2] \in ChangedPlaces

VARIABLES
    reported,   \* the findings of the model in their order
    kept,       \* the candidates for the second pass (Screening.kept)
    rejected,   \* rejected_findings
    verdicts,   \* of each candidate, in the order of candidate_ids
    saved,      \* the findings of the run
    dropped,    \* verifier_dropped_findings
    verification,   \* its outcome
    summary,    \* whether the summary of the model is published
    pass        \* "none", "analysed", "screened" or "judged"

findingVars == <<reported, kept, rejected, verdicts, saved, dropped, verification, summary, pass>>

\* How serious a finding is matters for those of security only.
Candidates == {f \in [place : ChangedPlaces \cup OtherPlaces, category : Categories,
                      serious : BOOLEAN, check : References, sound : BOOLEAN] :
                  f.serious => f.category = "security"}

FindingsInit ==
    /\ reported = <<>> /\ kept = <<>> /\ rejected = 0 /\ verdicts = <<>>
    /\ saved = <<>> /\ dropped = 0 /\ verification = "none" /\ summary = FALSE /\ pass = "none"

\* validate_anchor, _resolve and the text.
Accepted(f) ==
    /\ f.place \in ChangedPlaces /\ f.sound
    /\ f.check = NoCheck \/ <<f.check, f.place>> \in Applicable

\* MUTANT of Collide: only the check of a rule makes two findings one.
CollideByCheck(f, g) == f.place = g.place /\ f.check = g.check
\* _identities: the category, or the check of a rule, at one place.
Collide(f, g) ==
    /\ f.place = g.place
    /\ f.category = g.category \/ (f.check # NoCheck /\ f.check = g.check)

\* deduplicate: the first wins.
AreFirst(places, findings) ==
    places = {i \in DOMAIN findings : \A j \in places : j < i => ~Collide(findings[j], findings[i])}
Deduplicated(findings) ==
    AtPlaces(findings, CHOOSE places \in SUBSET DOMAIN findings : AreFirst(places, findings))

Report ==
    /\ pass = "none" /\ pass' = "analysed"
    /\ \E n \in 0..MaxFindings : reported' \in [1..n -> Candidates]
    /\ summary' = TRUE
    /\ UNCHANGED <<kept, rejected, verdicts, saved, dropped, verification>>

Screen ==
    /\ pass = "analysed" /\ pass' = "screened"
    /\ kept' = Deduplicated(AtPlaces(reported, {i \in DOMAIN reported : Accepted(reported[i])}))
    /\ rejected' = Len(reported) - Len(kept')
    /\ UNCHANGED <<reported, verdicts, saved, dropped, verification, summary>>

Droppable(f) == ~(f.category = "security" /\ f.serious)

\* The findings that stay and the outcome of the verification.
Settle(findings, outcome) ==
    /\ pass = "screened" /\ pass' = "judged"
    /\ saved' = findings /\ verification' = outcome
    /\ dropped' = Len(kept) - Len(findings)
    /\ summary' = (summary /\ ~(reported # <<>> /\ findings = <<>>))
    /\ UNCHANGED <<reported, kept, rejected>>

\* A verdict for each candidate and no more; apply_verdicts.
Judge(given) ==
    /\ kept # <<>> /\ DOMAIN given = DOMAIN kept
    /\ verdicts' = given
    /\ Settle(AtPlaces(kept, {i \in DOMAIN kept : given[i] = "keep" \/ ~Droppable(kept[i])}), "verified")

\* The call fails or its verdicts do not cover the candidates: all of them stay.
JudgeFails == kept # <<>> /\ verdicts' = <<>> /\ Settle(kept, "unavailable")

NothingToJudge == kept = <<>> /\ verdicts' = <<>> /\ Settle(<<>>, "notRequired")

FindingsNext ==
    \/ Report \/ Screen \/ JudgeFails \/ NothingToJudge
    \/ \E given \in [DOMAIN kept -> {"keep", "drop"}] : Judge(given)

FindingsTypeOK ==
    /\ \A findings \in {reported, kept, saved} : findings \in Seq(Candidates)
    /\ verdicts \in Seq({"keep", "drop"}) /\ rejected \in Nat /\ dropped \in Nat /\ summary \in BOOLEAN
    /\ verification \in {"none", "verified", "unavailable", "notRequired"}
    /\ pass \in {"none", "analysed", "screened", "judged"}

\* Whatever the model reports and the second pass answers: a finding in the diff is
\* kept or says what an earlier one at its place says; a candidate that is gone was
\* dropped by a verdict and is no serious finding of security; what is saved never
\* breaks the unique key of the findings, which would fail the run after the model was
\* paid; and a summary goes out only if it may speak of something.
SavedFindingsStand ==
    /\ pass \in {"screened", "judged"} => \A i \in DOMAIN reported : Accepted(reported[i]) =>
           \E k \in DOMAIN kept : kept[k] = reported[i] \/ Collide(kept[k], reported[i])
    /\ pass = "judged" =>
           /\ \A k \in DOMAIN kept : kept[k] \notin Range(saved) =>
                 verdicts # <<>> /\ verdicts[k] = "drop" /\ ~(kept[k].category = "security" /\ kept[k].serious)
           /\ \A i, j \in DOMAIN saved :
                 saved[i].place = saved[j].place /\ saved[i].category = saved[j].category => i = j
           /\ Len(reported) = rejected + dropped + Len(saved)
           /\ summary = (saved # <<>> \/ reported = <<>>)

FindingsSpec == FindingsInit /\ [][FindingsNext]_findingVars
=============================================================================
