------------------------------ MODULE RunSteps ------------------------------
(***************************************************************************)
(* The journal of the steps of one run (app/application/                   *)
(* review_run_steps.py, app/domain/run_steps.py): the worker opens and     *)
(* closes a step per stage and per attempt of a model call, every write in *)
(* a commit of its own that may fail without stopping the run; the sweep,  *)
(* or the worker itself, closes what is left running when the run is over. *)
(* Tokens of a step are its share of the meter of the run.                 *)
(***************************************************************************)
EXTENDS Naturals, Sequences

CONSTANTS
    Retries,        \* attempts a model call may repeat, a bound
    TokenLimit,     \* tokens a run may spend, a bound
    Refusals,       \* writes to the journal that may go wrong, a bound
    NoTokens        \* tokens of a step that called no model

ASSUME StepsAssumption == Retries \in Nat /\ TokenLimit \in Nat
                          /\ Refusals \in Nat /\ NoTokens \notin Nat

VARIABLES
    journal,        \* review_run_steps in the order of their start
    runState,       \* "working", or how the run ended
    hand,           \* where the worker stands in run_review
    stage,          \* the last stage started, 1..5
    opened,         \* the stage is open (StepRecorder._stage)
    openStep,       \* its row, 0 when the start was not written (_step)
    unwritten,      \* outcomes that were not written, with their rows
    meter, shared,  \* tokens spent, tokens already given to steps
    retried,        \* attempts repeated in the stage
    sweeping,       \* "none", "closing" or "done": the sweep that failed the run
    refusals,       \* writes that may still go wrong
    truth,          \* history: how each step that was written really ended
    spent,          \* history: tokens spent since the last start
    swept, late,    \* history: rows the sweep closed, rows started when the run was over
    startLost,      \* history: the last start was refused
    failure         \* history: what made the worker fail the run

recorder == <<opened, openStep, unwritten, meter, shared, retried, spent>>
stepHistory == <<truth, swept, late, startLost>>
stepVars == <<journal, runState, hand, stage, recorder, sweeping, refusals, stepHistory, failure>>

Fetching == 1   Building == 2   Analysing == 3   Verifying == 4   Publishing == 5
ModelStages == {Analysing, Verifying}
Live == {"between", "entered", "inside", "retrying", "raised", "cancelled", "failing", "marking",
         "closing"}
Tokens == 0..TokenLimit \cup {NoTokens}
Codes == {"none", "error", "stale"}
Outcome(tokens, code) ==
    [status |-> IF code = "none" THEN "completed" ELSE "failed", tokens |-> tokens, code |-> code]
Running == [status |-> "running", tokens |-> NoTokens, code |-> "none"]
Stale == Outcome(NoTokens, "stale")

StepsInit ==
    /\ journal = <<>> /\ truth = <<>>
    /\ runState = "working" /\ hand = "between" /\ stage = 0
    /\ opened = FALSE /\ openStep = 0 /\ unwritten = {}
    /\ meter = 0 /\ shared = 0 /\ retried = 0 /\ spent = 0
    /\ sweeping = "none" /\ refusals = Refusals
    /\ swept = {} /\ late = {} /\ startLost = FALSE /\ failure = "none"

\* A commit is applied, refused, or applied without an answer.
Write(result) ==
    \/ result = "applied" /\ UNCHANGED refusals
    \/ /\ result \in {"refused", "unanswered"}
       /\ refusals > 0 /\ refusals' = refusals - 1
Results == {"applied", "refused", "unanswered"}

\* ReviewRunStepRepo.update: the first outcome stays.
Updated(rows, i, outcome) ==
    IF rows[i].status = "running" THEN [rows EXCEPT ![i] = outcome] ELSE rows
\* abandon_steps
Abandoned(rows, known) == [i \in DOMAIN rows |->
    IF rows[i].status # "running" THEN rows[i]
    ELSE IF \E k \in known : k[1] = i THEN (CHOOSE k \in known : k[1] = i)[2] ELSE Stale]

\* StepRecorder._open: the step counts as open only once its start is written.
Open(result) ==
    /\ Write(result)
    /\ opened' = TRUE /\ spent' = 0
    /\ openStep' = IF result = "applied" THEN Len(journal) + 1 ELSE openStep
    /\ IF result = "refused" THEN UNCHANGED <<journal, truth>>
       ELSE journal' = Append(journal, Running) /\ truth' = Append(truth, Running)
    /\ startLost' = (result = "refused")
    /\ late' = IF runState = "working" THEN late ELSE late \cup (DOMAIN journal' \ DOMAIN journal)
    /\ UNCHANGED swept

\* StepRecorder._share: what the meter shows beyond what other steps were given.
Share(usedModel) ==
    IF ~usedModel THEN NoTokens ELSE IF meter > shared THEN meter - shared ELSE 0

\* MUTANT of Close: the tokens of a step whose start was lost go to the next one.
CloseKeepsShare(usedModel, code, result) ==
    LET outcome == Outcome(Share(usedModel), code)
    IN /\ IF openStep = 0 THEN result = "applied" /\ UNCHANGED <<refusals, journal, truth, unwritten>>
          ELSE /\ Write(result)
               /\ journal' = IF result = "refused" THEN journal ELSE Updated(journal, openStep, outcome)
               /\ unwritten' = IF result = "applied" THEN unwritten
                               ELSE unwritten \cup {<<openStep, outcome>>}
               /\ truth' = [truth EXCEPT ![openStep] =
                      Outcome(IF usedModel THEN spent ELSE NoTokens, code)]
       /\ shared' = IF openStep # 0 /\ usedModel /\ meter > shared THEN meter ELSE shared
       /\ openStep' = 0
       /\ UNCHANGED <<swept, late, startLost>>

\* StepRecorder._close; an outcome that was not written is kept.
Close(usedModel, code, result) ==
    LET outcome == Outcome(Share(usedModel), code)
    IN /\ IF openStep = 0 THEN result = "applied" /\ UNCHANGED <<refusals, journal, truth, unwritten>>
          ELSE /\ Write(result)
               /\ journal' = IF result = "refused" THEN journal ELSE Updated(journal, openStep, outcome)
               /\ unwritten' = IF result = "applied" THEN unwritten
                               ELSE unwritten \cup {<<openStep, outcome>>}
               /\ truth' = [truth EXCEPT ![openStep] =
                      Outcome(IF usedModel THEN spent ELSE NoTokens, code)]
       /\ shared' = IF usedModel /\ meter > shared THEN meter ELSE shared
       /\ openStep' = 0
       /\ UNCHANGED <<swept, late, startLost>>

FinishOpen(usedModel, code, result) ==
    Close(usedModel, code, result) /\ opened' = FALSE /\ UNCHANGED <<meter, retried, spent>>

\* steps.start of the next stage.
Start(result) ==
    /\ hand = "between" /\ stage < Publishing
    /\ Open(result)
    /\ stage' = stage + 1 /\ retried' = 0
    /\ hand' = IF stage + 1 \in {Fetching, Building} THEN "inside" ELSE "entered"
    /\ UNCHANGED <<runState, unwritten, meter, shared, sweeping, failure>>

\* From analysing on a stage begins with a write of the run, refused once it is over.
EnterStage ==
    /\ hand = "entered" /\ runState = "working"
    /\ hand' = "inside"
    /\ UNCHANGED <<journal, runState, stage, recorder, sweeping, refusals, stepHistory, failure>>

\* The provider answers; the adapter adds its usage to the meter of the run.
Spend ==
    /\ hand = "inside" /\ stage \in ModelStages /\ meter < TokenLimit
    /\ meter' = meter + 1 /\ spent' = spent + 1
    /\ UNCHANGED <<journal, runState, hand, stage, opened, openStep, unwritten, shared, retried,
                   sweeping, refusals, stepHistory, failure>>

\* MUTANT of Retry: nothing limits the attempts.
RetryForever(result) ==
    /\ hand = "inside" /\ stage \in ModelStages /\ retried <= Retries
    /\ Close(TRUE, "error", result)
    /\ retried' = retried + 1 /\ hand' = "retrying"
    /\ UNCHANGED <<runState, stage, opened, meter, spent, sweeping, failure>>

\* StepRecorder.retry: the attempt failed, the call goes on as a new step.
Retry(result) ==
    /\ hand = "inside" /\ stage \in ModelStages /\ retried < Retries
    /\ Close(TRUE, "error", result)
    /\ retried' = retried + 1 /\ hand' = "retrying"
    /\ UNCHANGED <<runState, stage, opened, meter, spent, sweeping, failure>>

Reopen(result) ==
    /\ hand = "retrying"
    /\ Open(result)
    /\ hand' = "inside"
    /\ UNCHANGED <<runState, stage, unwritten, meter, shared, retried, sweeping, failure>>

\* The stage is done.  The verifier may have called no model, or have failed, which
\* the run outlives.
FinishStage(result) ==
    /\ hand = "inside"
    /\ \/ stage \notin ModelStages /\ FinishOpen(FALSE, "none", result)
       \/ stage \in ModelStages /\ FinishOpen(TRUE, "none", result)
       \/ stage = Verifying /\ FinishOpen(TRUE, "error", result)
       \/ stage = Verifying /\ spent = 0 /\ retried = 0
              /\ \E code \in {"none", "error"} : FinishOpen(FALSE, code, result)
    /\ hand' = "between"
    /\ UNCHANGED <<runState, stage, sweeping, failure>>

\* The answer is there, but screening it raised: a failed step with its tokens.
ScreeningFails(result) ==
    /\ hand = "inside" /\ stage = Analysing
    /\ FinishOpen(TRUE, "error", result)
    /\ hand' = "raised" /\ failure' = "stage"
    /\ UNCHANGED <<runState, stage, sweeping>>

\* A stage raises, or its write of the run is refused.
StageRaises ==
    /\ hand \in {"entered", "inside"}
    /\ hand' = "raised" /\ failure' = "stage"
    /\ UNCHANGED <<journal, runState, stage, recorder, sweeping, refusals, stepHistory>>

CompleteRun ==
    /\ hand = "between" /\ stage = Publishing
    /\ runState = "working" /\ runState' = "completed"
    /\ hand' = "closing"
    /\ UNCHANGED <<journal, stage, recorder, sweeping, refusals, stepHistory, failure>>

CompleteFails ==
    /\ hand = "between" /\ stage = Publishing
    /\ hand' = "raised" /\ failure' = "completing"
    /\ UNCHANGED <<journal, runState, stage, recorder, sweeping, refusals, stepHistory>>

\* _was_cancelled; a read that fails counts as no.
AskCancelled ==
    /\ hand = "raised"
    /\ \/ runState = "cancelled" /\ hand' = "cancelled" /\ UNCHANGED refusals
       \/ runState # "cancelled" /\ hand' = "failing" /\ UNCHANGED refusals
       \/ runState = "cancelled" /\ hand' = "failing" /\ Write("refused")
    /\ UNCHANGED <<journal, runState, stage, recorder, sweeping, stepHistory, failure>>

\* steps.abandon, then close_abandoned_steps.
AbandonStep(result) ==
    /\ hand = "cancelled"
    /\ IF opened THEN FinishOpen(FALSE, "stale", result)
       ELSE result = "applied" /\ UNCHANGED <<journal, recorder, refusals, stepHistory>>
    /\ hand' = "closing"
    /\ UNCHANGED <<runState, stage, sweeping, failure>>

\* MUTANT of FailStep: the step of the stage that failed is closed as a success.
FailStepQuietly(usedModel, result) ==
    /\ hand = "failing"
    /\ usedModel => opened /\ stage \in ModelStages
    /\ IF opened THEN FinishOpen(usedModel, "none", result)
       ELSE result = "applied" /\ UNCHANGED <<journal, recorder, refusals, stepHistory>>
    /\ hand' = "marking"
    /\ UNCHANGED <<runState, stage, sweeping, failure>>

\* steps.fail: with the share of the meter when the model was called.
FailStep(usedModel, result) ==
    /\ hand = "failing"
    /\ usedModel => opened /\ stage \in ModelStages
    /\ IF opened THEN FinishOpen(usedModel, "error", result)
       ELSE result = "applied" /\ UNCHANGED <<journal, recorder, refusals, stepHistory>>
    /\ hand' = "marking"
    /\ UNCHANGED <<runState, stage, sweeping, failure>>

\* MUTANT of MarkFailed: the steps are not closed after the failure is written.
MarkFailedOnly ==
    /\ hand = "marking"
    /\ \/ runState = "working" /\ runState' = "failed" /\ UNCHANGED refusals
       \/ runState # "working" /\ UNCHANGED <<runState, refusals>>
       \/ runState = "working" /\ Write("refused") /\ UNCHANGED runState
    /\ hand' = "done"
    /\ UNCHANGED <<journal, stage, recorder, sweeping, stepHistory, failure>>

\* _mark_failed leaves at once when the run is over or the write fails.
MarkFailed ==
    /\ hand = "marking"
    /\ \/ runState = "working" /\ runState' = "failed" /\ hand' = "closing" /\ UNCHANGED refusals
       \/ runState # "working" /\ hand' = "done" /\ UNCHANGED <<runState, refusals>>
       \/ runState = "working" /\ hand' = "done" /\ Write("refused") /\ UNCHANGED runState
    /\ UNCHANGED <<journal, stage, recorder, sweeping, stepHistory, failure>>

\* close_abandoned_steps of the worker, with the outcomes it knows.
CloseAbandoned(result) ==
    /\ hand = "closing"
    /\ Write(result)
    /\ journal' = IF result = "refused" THEN journal ELSE Abandoned(journal, unwritten)
    /\ hand' = IF result = "refused" THEN "gaveUp" ELSE "done"
    /\ UNCHANGED <<runState, stage, recorder, sweeping, stepHistory, failure>>

\* The worker dies, or is interrupted: the steps are left as they are.
StepCrash ==
    /\ hand \in Live
    /\ hand' = "dead"
    /\ UNCHANGED <<journal, runState, stage, recorder, sweeping, refusals, stepHistory, failure>>

\* A retarget cancels the run.
CancelRun ==
    /\ runState = "working" /\ hand \in Live
    /\ runState' = "cancelled"
    /\ UNCHANGED <<journal, hand, stage, recorder, sweeping, refusals, stepHistory, failure>>

\* The sweep fails a run whose worker is dead, gave up or is only slow.
SweepRun ==
    /\ runState = "working"
    /\ runState' = "failed" /\ sweeping' = "closing"
    /\ UNCHANGED <<journal, hand, stage, recorder, refusals, stepHistory, failure>>

SweepCloses(result) ==
    /\ sweeping = "closing"
    /\ Write(result)
    /\ journal' = IF result = "refused" THEN journal ELSE Abandoned(journal, {})
    /\ sweeping' = IF result = "refused" THEN "gaveUp" ELSE "done"
    /\ swept' = {i \in DOMAIN journal : journal'[i] # journal[i]}
    /\ UNCHANGED <<runState, hand, stage, recorder, truth, late, startLost, failure>>

StepsNext ==
    \/ EnterStage \/ Spend \/ StageRaises \/ CompleteRun \/ CompleteFails
    \/ AskCancelled \/ MarkFailed \/ StepCrash \/ CancelRun \/ SweepRun
    \/ \E result \in Results :
          \/ Start(result) \/ Retry(result) \/ Reopen(result) \/ FinishStage(result)
          \/ ScreeningFails(result) \/ AbandonStep(result) \/ CloseAbandoned(result)
          \/ SweepCloses(result)
          \/ \E usedModel \in BOOLEAN : FailStep(usedModel, result)

StepsSpec == StepsInit /\ [][StepsNext]_stepVars

Row == [status : {"running", "completed", "failed"}, tokens : Tokens, code : Codes]
StepsTypeOK ==
    /\ journal \in Seq(Row) /\ truth \in Seq(Row) /\ Len(truth) = Len(journal)
    /\ runState \in {"working", "completed", "failed", "cancelled"}
    /\ hand \in Live \cup {"done", "gaveUp", "dead"}
    /\ stage \in 0..Publishing /\ opened \in BOOLEAN /\ openStep \in 0..Len(journal)
    /\ unwritten \subseteq (1..Len(journal)) \X Row
    /\ meter \in 0..TokenLimit /\ shared \in 0..TokenLimit /\ spent \in 0..TokenLimit
    /\ retried \in 0..Retries /\ refusals \in 0..Refusals
    /\ sweeping \in {"none", "closing", "done", "gaveUp"}
    /\ late \subseteq DOMAIN journal /\ startLost \in BOOLEAN /\ swept \subseteq DOMAIN journal
    /\ failure \in {"none", "stage", "completing"}

Over(i) == journal[i].status # "running"

\* A step that is closed tells how it really ended and what its own attempt spent;
\* it is called abandoned only if its worker left it, its start went unanswered or
\* the sweep met it running.
StepTellsTheTruth == \A i \in DOMAIN journal : Over(i) =>
    \/ journal[i] = truth[i]
    \/ journal[i] = Stale /\ (truth[i] = Running \/ i \in swept)

\* When a run is failed or completed and those who close its steps are through, no
\* step is left running, whatever single writes were lost: unless a worker that
\* outlived the sweep started it afterwards and its outcome was not written.  And a
\* run that failed in a stage shows a failed step, unless the start of the step could
\* not be written.
Through == IF sweeping = "none" THEN hand = "done"
           ELSE sweeping = "done" /\ hand \in {"done", "dead"}
NoStepIsLeft ==
    /\ (runState \in {"completed", "failed"} /\ Through) =>
          \A i \in DOMAIN journal :
             \/ Over(i)
             \/ i \in late /\ (truth[i] = Running \/ \E k \in unwritten : k[1] = i)
    /\ (runState = "failed" /\ sweeping = "none" /\ hand = "done" /\ failure = "stage" /\ ~startLost)
          => \E i \in DOMAIN journal : journal[i].status = "failed"
=============================================================================
