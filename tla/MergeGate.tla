----------------------------- MODULE MergeGate -----------------------------
(***************************************************************************)
(* The check run "merge gate" on one head commit, and everyone who sets it:*)
(*   - app/application/merge_gate_publish.py, app/domain/merge_gate.py     *)
(*   - app/application/sync_thread_resolution.py (thread webhooks)         *)
(*   - app/application/use_cases/handle_webhook.py, start_review_run.py    *)
(*   - _mark_in_progress, block_head_of_failed_run (review_pipeline.py),   *)
(*     publish_review and _block_swept_head.                               *)
(* The host keeps the last check it was sent.  Everyone reads the database,*)
(* sends a check and reads again, so an old check may arrive after a newer *)
(* one.  Runs are numbered in the order of created_at; each has its worker *)
(* process, which has the run's number, and Hooks are threads of the API   *)
(* and the sweep.                                                          *)
(***************************************************************************)
EXTENDS RunLifecycle, Integers, FiniteSets

CONSTANTS
    MaxRuns,    \* runs on the head commit
    Hooks,      \* API threads and the sweep
    Attempts,   \* SETTLE_ATTEMPTS
    Levels,     \* severities of findings, and thresholds
    Branches,   \* target branches of the pull request
    Budget,     \* how often users change settings or threads, or a step fails
    Repos,      \* settings of the repository
    NoBranch    \* not a branch

ASSUME GateAssumption ==
    /\ MaxRuns \in Nat /\ Attempts \in Nat \ {0} /\ Budget \in Nat
    /\ Levels \subseteq Nat \ {0}
    /\ Repos \subseteq [connected : BOOLEAN, auto : BOOLEAN,
                        filter : SUBSET Branches, level : Levels]

Runs == 1..MaxRuns
NoRun == 0
Procs == Runs \cup Hooks

VARIABLES
    status, trigger,  \* columns of review_runs
    finding,          \* the severity of the run's worst finding, 0 for none
    thread,           \* the thread of that finding in published_comments
    recorded,         \* runs with a summary in published_comments
    queue,            \* runs with a message
    repo, branch,     \* columns of repositories and merge_requests
    host,             \* the check on the commit
    left,             \* why nobody is obliged to bring the check up to date
    budget,           \* disturbances that may still come
    pc, loc           \* where each process stands, and its local variables

runVars == <<status, trigger, finding, thread, recorded, queue>>
vars == <<runVars, repo, branch, host, left, budget, pc, loc>>

\* A check is what it says, the threshold it names and the run it links to.
NoCheck == [title |-> "none", level |-> 0, link |-> NoRun]
PauseCheck(why) == [title |-> why, level |-> 0, link |-> NoRun]
Pauses == {"disabled", "auto_off", "filtered"}
Titles == Pauses \cup {"none", "passed", "blocked", "failed", "in_progress"}
Checks == [title : Titles, level : Levels \cup {0}, link : Runs \cup {NoRun}]

\* check is the one a thread is sending, or in settle_merge_gate the last one it
\* sent (settled), NoCheck when that is unknown.
Idle == [task |-> "none", run |-> NoRun, check |-> NoCheck, failures |-> 0,
         link |-> NoRun, level |-> 0, filter |-> {}, old |-> NoBranch]

Tasks == {"none", "claim", "publish", "retarget", "thread", "pause", "webhook",
          "manual"}
Settling == {"read", "findings", "post"}
\* A thread in one of these is going to look at the gate.
Attending == Settling \cup {"block", "decide", "sync", "refresh", "pausing", "reread"}
States == Attending \cup
    {"idle", "working", "publishing", "recording", "completing", "done",
     "fetch", "enqueue", "compensate", "restore"}

\* Why the gate may lag behind with nobody on the way to it:
\*   "lag"     a process died or the host refused; the settings changed, which
\*             no handler carries to the host; a run was launched, whose worker
\*             will set the gate; a pause check went out that no longer fits,
\*             over a run that did not publish yet
\*   "skipped" a thread event found no completed run to compute the gate of
\*   "kept"    the pull request left the filter while a manual run answers for
\*             its head
\* The next check that reaches the host makes up for each.
Excuses == {"none", "lag", "skipped", "kept"}

Locals == [task : Tasks, run : Runs \cup {NoRun}, check : Checks,
           failures : 0..(Attempts - 1), link : Runs \cup {NoRun},
           level : Levels \cup {0}, filter : SUBSET Branches,
           old : Branches \cup {NoBranch}]

TypeOK ==
    /\ status \in [Runs -> Statuses \cup {"absent"}]
    /\ trigger \in [Runs -> {"webhook", "manual"}]
    /\ finding \in [Runs -> Levels \cup {0}]
    /\ thread \in [Runs -> {"none", "open", "closed", "untracked"}]
    /\ recorded \subseteq Runs /\ queue \subseteq Runs
    /\ repo \in Repos /\ branch \in Branches
    /\ host \in Checks
    /\ left \in Excuses
    /\ budget \in 0..Budget
    /\ pc \in [Procs -> States]
    /\ loc \in [Procs -> Locals]

Init ==
    /\ status = [r \in Runs |-> "absent"]
    /\ trigger = [r \in Runs |-> "webhook"]
    /\ finding = [r \in Runs |-> 0]
    /\ thread = [r \in Runs |-> "none"]
    /\ recorded = {} /\ queue = {}
    /\ repo \in Repos /\ branch \in Branches
    /\ host = NoCheck
    /\ left = "none"
    /\ budget = Budget
    /\ pc = [p \in Procs |-> "idle"]
    /\ loc = [p \in Procs |-> Idle]

----------------------------------------------------------------------------
(* Who answers for the head, and which check it should have. *)

Stored == {r \in Runs : status[r] # "absent"}
Newest(S) == IF S = {} THEN NoRun ELSE CHOOSE r \in S : \A q \in S : q <= r

\* find_latest
Latest == Newest(Stored)

Active == {r \in Stored : status[r] \in Nonterminal}

\* _manual_run_in_charge
ManualHolds(r) ==
    /\ r # NoRun
    /\ trigger[r] = "manual"
    /\ status[r] \notin {"failed", "cancelled"}

\* pause_check; "none" is None.  The filter is not looked at where the caller
\* has no fresh target branch.
Pause(rp, r, admitted) ==
    CASE ~rp.connected                          -> "disabled"
      [] rp.connected /\ ManualHolds(r)         -> "none"
      [] rp.connected /\ ~ManualHolds(r) /\ ~rp.auto -> "auto_off"
      [] rp.connected /\ ~ManualHolds(r) /\ rp.auto  ->
            IF admitted THEN "none" ELSE "filtered"

Admitted == branch \in repo.filter

CompletedManual ==
    Newest({r \in Stored : trigger[r] = "manual" /\ status[r] = "completed"})

\* head_run_in_charge, with _failed_manual_relaunch, for a caller that holds the
\* repository rp.
InChargeUnder(rp) ==
    IF /\ Latest # NoRun /\ rp.connected
       /\ trigger[Latest] = "manual" /\ status[Latest] \in {"failed", "cancelled"}
       /\ Pause(rp, NoRun, branch \in rp.filter) # "none"
       /\ CompletedManual # NoRun
    THEN CompletedManual ELSE Latest

InCharge == InChargeUnder(repo)

\* Mutated: a run that publishes is taken for one that has published.
ReviewedWhenPublishing(r) == status[r] \in {"publishing", "completed"}

\* Mutated: only a completed run has a verdict (#330).
ReviewedWhenCompleted(r) == status[r] = "completed"

\* A run whose review is on the pull request.
ReviewThere(r) ==
    status[r] = "completed" \/ (status[r] = "publishing" /\ r \in recorded)

\* _open_findings: open threads of all runs, and the findings of the run on the
\* head whose thread is unknown.
OpenFindings(r) ==
    {finding[q] : q \in {s \in recorded :
        thread[s] = "open" \/ (s = r /\ thread[s] = "untracked")}}

\* build_merge_gate_check
Verdict(r, level) ==
    [title |-> IF \E f \in OpenFindings(r) : f >= level THEN "blocked" ELSE "passed",
     level |-> level, link |-> r]

\* build_failed_review_check, build_in_progress_check
NoVerdict(r) ==
    [title |-> IF status[r] \in {"failed", "cancelled"} THEN "failed" ELSE "in_progress",
     level |-> 0, link |-> r]

\* What settle_merge_gate would set if it read everything at once.
Wanted ==
    LET r == InCharge IN
    IF r = NoRun THEN host
    ELSE IF Pause(repo, r, Admitted) # "none" THEN PauseCheck(Pause(repo, r, Admitted))
    ELSE IF ReviewThere(r) THEN Verdict(r, repo.level)
    ELSE NoVerdict(r)

----------------------------------------------------------------------------
(* settle_merge_gate. *)

Goto(p, s) == pc' = [pc EXCEPT ![p] = s]

Excuse(why) == IF left = "none" THEN why ELSE IF left = why THEN why ELSE "lag"

Disturb == budget > 0 /\ budget' = budget - 1

BeginSettle(p, task, r) ==
    /\ Goto(p, "read")
    /\ loc' = [loc EXCEPT ![p] = [Idle EXCEPT !.task = task, !.run = r]]

Stop(p) ==
    /\ Goto(p, IF p \in Runs THEN "done" ELSE "idle")
    /\ loc' = [loc EXCEPT ![p] = Idle]

\* Where the caller goes on when settling is over: a worker with its run, a
\* retarget with its message, everyone else is done.
After(p) ==
    CASE loc[p].task = "claim"    -> "working"
      [] loc[p].task = "publish"  -> "completing"
      [] loc[p].task = "retarget" -> "enqueue"
      [] loc[p].task = "none"     -> IF p \in Runs THEN "done" ELSE "idle"

Return(p) ==
    /\ Goto(p, After(p))
    /\ loc' = [loc EXCEPT ![p] = IF loc[p].task = "retarget"
                                 THEN [Idle EXCEPT !.run = loc[p].run] ELSE Idle]

\* Nothing to do when the check is the one this call sent last (settled).
TryPost(p, check) ==
    IF check = loc[p].check THEN Return(p)
    ELSE /\ Goto(p, "post")
         /\ loc' = [loc EXCEPT ![p].check = check, ![p].link = NoRun, ![p].level = 0]

\* The first transaction of an attempt.
SettleRead(p) ==
    /\ pc[p] = "read"
    /\ LET r == InCharge
           why == Pause(repo, r, Admitted)
       IN  IF r = NoRun THEN Return(p)
           ELSE IF why # "none" THEN TryPost(p, PauseCheck(why))
           ELSE IF ReviewThere(r)
           THEN /\ Goto(p, "findings")
                /\ loc' = [loc EXCEPT ![p].link = r, ![p].level = repo.level]
           ELSE TryPost(p, NoVerdict(r))
    /\ UNCHANGED <<runVars, repo, branch, host, left, budget>>

\* collect_open_findings, in a transaction of its own.
SettleFindings(p) ==
    /\ pc[p] = "findings"
    /\ TryPost(p, Verdict(loc[p].link, loc[p].level))
    /\ UNCHANGED <<runVars, repo, branch, host, left, budget>>

\* Mutated: the check just sent is forgotten.
SettlePostForgets(p) ==
    /\ pc[p] = "post"
    /\ host' = loc[p].check
    /\ Goto(p, "read")
    /\ loc' = [loc EXCEPT ![p].check = NoCheck]
    /\ left' = "none"
    /\ UNCHANGED <<runVars, repo, branch, budget>>

SettlePost(p) ==
    /\ pc[p] = "post"
    /\ host' = loc[p].check
    /\ Goto(p, "read")
    /\ left' = "none"
    /\ UNCHANGED <<runVars, repo, branch, budget, loc>>

\* Mutated: one attempt too many.
AttemptsOneMore(p) == Attempts + 1

\* How many attempts the caller allows: _mark_in_progress makes one.
AttemptsOf(p) == IF loc[p].task = "claim" THEN 1 ELSE Attempts

\* Mutated: the check that was refused is remembered as sent.
SettleErrorRemembers(p) ==
    /\ pc[p] = "post"
    /\ Disturb
    /\ host' \in {host, loc[p].check}
    /\ IF loc[p].failures + 1 < AttemptsOf(p)
       THEN /\ Goto(p, "read")
            /\ loc' = [loc EXCEPT ![p].failures = @ + 1]
            /\ UNCHANGED left
       ELSE /\ left' = "lag"
            /\ IF loc[p].task = "retarget"
               THEN /\ Goto(p, "compensate")
                    /\ loc' = [loc EXCEPT ![p] =
                         [Idle EXCEPT !.run = loc[p].run, !.old = loc[p].old]]
               ELSE Return(p)
    /\ UNCHANGED <<runVars, repo, branch>>

\* VcsError, which does not say whether the check arrived.  After the last
\* attempt a retarget is undone, every other caller goes on.
SettleError(p) ==
    /\ pc[p] = "post"
    /\ Disturb
    /\ host' \in {host, loc[p].check}
    /\ IF loc[p].failures + 1 < AttemptsOf(p)
       THEN /\ Goto(p, "read")
            /\ loc' = [loc EXCEPT ![p].check = NoCheck, ![p].failures = @ + 1]
            /\ UNCHANGED left
       ELSE /\ left' = "lag"
            /\ IF loc[p].task = "retarget"
               THEN /\ Goto(p, "compensate")
                    /\ loc' = [loc EXCEPT ![p] =
                         [Idle EXCEPT !.run = loc[p].run, !.old = loc[p].old]]
               ELSE Return(p)
    /\ UNCHANGED <<runVars, repo, branch>>

----------------------------------------------------------------------------
(* The worker of run r, as far as the gate sees it. *)

Claim(r) ==
    /\ pc[r] = "idle"
    /\ r \in queue
    /\ queue' = queue \ {r}
    /\ IF status[r] = "queued"
       THEN /\ status' = [status EXCEPT ![r] = "building_context"]
            /\ BeginSettle(r, "claim", NoRun)
       ELSE Stop(r) /\ UNCHANGED status
    /\ UNCHANGED <<trigger, finding, thread, recorded, repo, branch, host, left, budget>>

\* What becomes of run r when a step of its worker raises or is refused:
\* _was_cancelled, then _mark_failed.
Fails(r) ==
    IF status[r] = "cancelled" THEN Stop(r) /\ UNCHANGED status
    ELSE /\ Goto(r, "block")
         /\ loc' = [loc EXCEPT ![r] = [Idle EXCEPT !.run = r]]
         /\ status' = [status EXCEPT ![r] = IF @ \in Nonterminal THEN "failed" ELSE @]

\* The transition to publishing; refused on a run that is over.
StartPublishing(r) ==
    /\ pc[r] = "working"
    /\ IF status[r] \in Nonterminal
       THEN /\ Goto(r, "publishing")
            /\ status' = [status EXCEPT ![r] = "publishing"]
            /\ UNCHANGED loc
       ELSE Fails(r)
    /\ UNCHANGED <<trigger, finding, thread, recorded, queue, repo, branch, host,
                   left, budget>>

\* The last look at the row before the review is posted.
CheckNotCancelled(r) ==
    /\ pc[r] = "publishing"
    /\ IF status[r] = "cancelled" THEN Stop(r) ELSE Goto(r, "recording") /\ UNCHANGED loc
    /\ UNCHANGED <<runVars, repo, branch, host, left, budget>>

\* The review is on the host; its comments go to the database, one finding with
\* the id of its comment or without it, or no finding of its own.
Record(r) ==
    /\ pc[r] = "recording"
    /\ recorded' = recorded \cup {r}
    /\ \/ UNCHANGED <<finding, thread>>
       \/ \E f \in Levels, t \in {"open", "untracked"} :
             /\ finding' = [finding EXCEPT ![r] = f]
             /\ thread' = [thread EXCEPT ![r] = t]
    /\ BeginSettle(r, "publish", NoRun)
    /\ UNCHANGED <<status, trigger, queue, repo, branch, host, left, budget>>

Complete(r) ==
    /\ pc[r] = "completing"
    /\ IF status[r] \in Nonterminal
       THEN Stop(r) /\ status' = [status EXCEPT ![r] = "completed"]
       ELSE Fails(r)
    /\ UNCHANGED <<trigger, finding, thread, recorded, queue, repo, branch, host,
                   left, budget>>

\* Any step raises.
WorkerError(r) ==
    /\ pc[r] \in {"working", "publishing", "recording", "completing"}
    /\ Disturb
    /\ Fails(r)
    /\ UNCHANGED <<trigger, finding, thread, recorded, queue, repo, branch, host, left>>

\* sweep_stale_runs on a run without progress; its worker may be dead or slow.
Sweep(p, r) ==
    /\ pc[p] = "idle"
    /\ Disturb
    /\ status[r] \in Nonterminal
    /\ status' = [status EXCEPT ![r] = "failed"]
    /\ Goto(p, "block")
    /\ loc' = [loc EXCEPT ![p] = [Idle EXCEPT !.run = r]]
    /\ UNCHANGED <<trigger, finding, thread, recorded, queue, repo, branch, host, left>>

\* block_head_of_failed_run, for a worker and for the sweep (_block_swept_head)
BlockHead(p) ==
    /\ pc[p] = "block"
    /\ LET r == loc[p].run IN
       IF status[r] = "failed" /\ Latest = r
       THEN BeginSettle(p, "none", NoRun)
       ELSE Stop(p)
    /\ UNCHANGED <<runVars, repo, branch, host, left, budget>>

----------------------------------------------------------------------------
(* Pull request events and manual launches.  The merge request is stored once *)
(* the head has a run or the branch left the filter; before that branch is    *)
(* what the first event will find. *)

\* The first transaction of handle_webhook_event: a pause is posted, and a
\* manual run that holds the head under a pause is left alone.
PrWebhook(p) ==
    /\ pc[p] = "idle"
    /\ LET why == Pause(repo, InCharge, TRUE) IN
       /\ why = "none" => repo.auto
       /\ IF why # "none"
          THEN /\ Goto(p, "pausing")
               /\ loc' = [loc EXCEPT ![p] =
                    [Idle EXCEPT !.check = PauseCheck(why)]]
          ELSE /\ Goto(p, "fetch")
               /\ loc' = [loc EXCEPT ![p] =
                    [Idle EXCEPT !.task = "webhook", !.filter = repo.filter]]
    /\ UNCHANGED <<runVars, repo, branch, host, left, budget>>

\* launch_review as far as the pull request's metadata
ManualRequest(p) ==
    /\ pc[p] = "idle"
    /\ repo.connected
    /\ Goto(p, "fetch")
    /\ loc' = [loc EXCEPT ![p] = [Idle EXCEPT !.task = "manual"]]
    /\ UNCHANGED <<runVars, repo, branch, host, left, budget>>

\* Nothing to launch: the metadata do not come, or the run is a duplicate.
Decline(p) ==
    /\ pc[p] = "fetch"
    /\ Stop(p)
    /\ UNCHANGED <<runVars, repo, branch, host, left, budget>>

Superseded == [q \in Runs |-> IF q \in Active THEN "cancelled" ELSE status[q]]

\* _skip_filtered_branch up to its commit
SkipFiltered(p, b) ==
    /\ pc[p] = "fetch"
    /\ loc[p].task = "webhook" /\ b \notin loc[p].filter
    /\ branch' = b
    /\ status' = IF b # branch THEN Superseded ELSE status
    /\ Goto(p, "decide")
    /\ loc' = [loc EXCEPT ![p].task = "pause"]
    /\ UNCHANGED <<trigger, finding, thread, recorded, queue, repo, host, left, budget>>

\* _duplicate_of and _active_run
Duplicate(t) ==
    IF t = "manual" THEN Active # {}
    ELSE /\ Latest # NoRun
         /\ status[Latest] \notin {"failed", "cancelled"}
         /\ \/ Active # {}
            \/ \E q \in Stored : trigger[q] = "webhook" /\ status[q] \in Reviewed

\* The commit of a new run, in the order of created_at.
Store(r, t, s) ==
    /\ status[r] = "absent"
    /\ \A q \in 1..(r - 1) : q \in Stored
    /\ status' = [s EXCEPT ![r] = "queued"]
    /\ trigger' = [trigger EXCEPT ![r] = t]

\* start_review_run without a change of branch, or for an event that is not
\* "edited".  The look for a duplicate and the insertion are two transactions;
\* what comes between them at worst makes the index refuse the insertion.
Launch(p, r, b) ==
    /\ pc[p] = "fetch"
    /\ loc[p].task = "webhook" => b \in loc[p].filter
    /\ ~Duplicate(loc[p].task) /\ Active = {}
    /\ Store(r, loc[p].task, status)
    /\ branch' = b
    /\ left' = "lag"
    /\ Goto(p, "enqueue")
    /\ loc' = [loc EXCEPT ![p] = [Idle EXCEPT !.run = r]]
    /\ UNCHANGED <<finding, thread, recorded, queue, repo, host, budget>>

\* start_review_run for an "edited" event with another branch than the stored
\* one: the cancellation and the insertion commit one after the other.
Retarget(p, r, b) ==
    /\ pc[p] = "fetch"
    /\ loc[p].task = "webhook" /\ b \in loc[p].filter
    /\ b # branch /\ Stored # {}
    /\ Store(r, "webhook", Superseded)
    /\ branch' = b
    /\ left' = "lag"
    /\ Goto(p, "read")
    /\ loc' = [loc EXCEPT ![p] = [Idle EXCEPT !.task = "retarget", !.run = r, !.old = branch]]
    /\ UNCHANGED <<finding, thread, recorded, queue, repo, host, budget>>

Enqueue(p) ==
    /\ pc[p] = "enqueue"
    /\ queue' = queue \cup {loc[p].run}
    /\ Stop(p)
    /\ UNCHANGED <<status, trigger, finding, thread, recorded, repo, branch, host,
                   left, budget>>

\* The broker refuses, or its confirmation is lost.
EnqueueError(p) ==
    /\ pc[p] = "enqueue"
    /\ Disturb
    /\ queue' \in {queue, queue \cup {loc[p].run}}
    /\ Goto(p, "compensate")
    /\ UNCHANGED <<status, trigger, finding, thread, recorded, repo, branch, host,
                   left, loc>>

\* _fail_unenqueued, for a run that was not enqueued (_settle_unenqueued comes
\* next) and for a head that could not be blocked.
Compensate(p) ==
    /\ pc[p] = "compensate"
    /\ LET r == loc[p].run IN
       /\ status' = [status EXCEPT ![r] = IF @ \in Nonterminal THEN "failed" ELSE @]
       /\ IF loc[p].old = NoBranch
          THEN BeginSettle(p, "none", NoRun) /\ UNCHANGED left
          ELSE /\ Goto(p, "restore")
               /\ left' = "lag"
               /\ UNCHANGED loc
    /\ UNCHANGED <<trigger, finding, thread, recorded, queue, repo, branch, host, budget>>

\* _restore_target_branch
Restore(p) ==
    /\ pc[p] = "restore"
    /\ branch' = loc[p].old
    /\ left' = "lag"
    /\ Stop(p)
    /\ UNCHANGED <<runVars, repo, host, budget>>

----------------------------------------------------------------------------
(* Thread events, and the checks of a pause. *)

\* apply_review_thread_webhook: a person resolves a thread or opens it again.
ThreadWebhook(p, r) ==
    /\ pc[p] = "idle"
    /\ Disturb
    /\ thread[r] \in {"open", "closed"}
    /\ thread' = [thread EXCEPT ![r] = IF @ = "open" THEN "closed" ELSE "open"]
    /\ Goto(p, "decide")
    /\ loc' = [loc EXCEPT ![p] = [Idle EXCEPT !.task = "thread"]]
    /\ UNCHANGED <<status, trigger, finding, recorded, queue, repo, branch, host, left>>

\* The repository as a delivery that skips its branch read it: not paused, and
\* with a filter that has not this branch.
Given(p) == [repo EXCEPT !.connected = TRUE, !.auto = TRUE, !.filter = loc[p].filter]

\* The pause is decided with the stored branch: for a thread event in one
\* transaction, for a skipped branch with the repository read before.
Decide(p) ==
    /\ pc[p] = "decide"
    /\ LET skipped == loc[p].task = "pause"
           why == IF skipped THEN Pause(Given(p), InChargeUnder(Given(p)), FALSE)
                  ELSE Pause(repo, InCharge, Admitted)
       IN
       \/ /\ why # "none"
          /\ Goto(p, "pausing")
          /\ loc' = [loc EXCEPT ![p] = [Idle EXCEPT !.check = PauseCheck(why)]]
          /\ UNCHANGED left
       \/ /\ why = "none" /\ loc[p].task = "thread"
          /\ Goto(p, "sync")
          /\ UNCHANGED <<loc, left>>
       \/ /\ why = "none" /\ loc[p].task = "pause"
          /\ left' = IF Pause(repo, InCharge, Admitted) = "none"
                     THEN Excuse("kept") ELSE "lag"
          /\ Stop(p)
    /\ UNCHANGED <<runVars, repo, branch, host, budget>>

\* sync_open_threads_from_host: threads resolved on the host whose events are
\* not here yet.
SyncThreads(p) ==
    /\ pc[p] = "sync"
    /\ \E S \in SUBSET {r \in Runs : thread[r] = "open"} :
          thread' = [r \in Runs |-> IF r \in S THEN "closed" ELSE thread[r]]
    /\ Goto(p, "refresh")
    /\ UNCHANGED <<status, trigger, finding, recorded, queue, repo, branch, host,
                   left, budget, loc>>

\* refresh_merge_gate_for_merge_request: only a completed run's verdict is
\* computed again.
Refresh(p) ==
    /\ pc[p] = "refresh"
    /\ \/ /\ InCharge # NoRun /\ status[InCharge] = "completed"
          /\ BeginSettle(p, "none", NoRun)
          /\ UNCHANGED left
       \/ /\ InCharge = NoRun \/ status[InCharge] # "completed"
          /\ left' = Excuse("skipped")
          /\ Stop(p)
    /\ UNCHANGED <<runVars, repo, branch, host, budget>>

\* publish_pause_check up to the end of the POST
PostPause(p) ==
    /\ pc[p] = "pausing"
    /\ host' = loc[p].check
    /\ left' = "none"
    /\ Goto(p, "reread")
    /\ UNCHANGED <<runVars, repo, branch, budget, loc>>

\* The same with a VcsError; the check may have arrived.
PostPauseError(p) ==
    /\ pc[p] = "pausing"
    /\ Disturb
    /\ host' \in {host, loc[p].check}
    /\ left' = "lag"
    /\ Goto(p, "reread")
    /\ UNCHANGED <<runVars, repo, branch, loc>>

\* publish_pause_check, the transaction after the POST.
RereadPause(p) ==
    /\ pc[p] = "reread"
    /\ LET r == InCharge
           why == Pause(repo, r, Admitted)
       IN  IF why = "none" /\ r # NoRun /\ status[r] \in {"publishing", "completed"}
           THEN BeginSettle(p, "none", NoRun) /\ UNCHANGED left
           ELSE /\ left' = IF PauseCheck(why) = loc[p].check THEN left
                           ELSE "lag"
                /\ Stop(p)
    /\ UNCHANGED <<runVars, repo, branch, host, budget>>

----------------------------------------------------------------------------
\* The owner changes the repository's settings; no handler touches the gate.
ChangeSettings ==
    /\ Disturb
    /\ repo' \in Repos \ {repo}
    /\ left' = "lag"
    /\ UNCHANGED <<runVars, branch, host, pc, loc>>

\* A process dies or gives up: the installation is not found, the database is
\* gone.  The run of a worker that died is the sweep's.
Die(p) ==
    /\ pc[p] \notin {"idle", "done"}
    /\ Disturb
    /\ left' = "lag"
    /\ Stop(p)
    /\ UNCHANGED <<runVars, repo, branch, host>>

Settle(p) == SettleRead(p) \/ SettleFindings(p) \/ SettlePost(p) \/ SettleError(p)

Worker(r) ==
    \/ Claim(r) \/ StartPublishing(r) \/ CheckNotCancelled(r) \/ Record(r)
    \/ Complete(r) \/ WorkerError(r)

Hook(p) ==
    \/ PrWebhook(p) \/ ManualRequest(p) \/ Decline(p)
    \/ \E b \in Branches : SkipFiltered(p, b)
    \/ \E r \in Runs, b \in Branches : Launch(p, r, b) \/ Retarget(p, r, b)
    \/ Enqueue(p) \/ EnqueueError(p) \/ Compensate(p) \/ Restore(p)
    \/ \E r \in Runs : ThreadWebhook(p, r) \/ Sweep(p, r)
    \/ Decide(p) \/ SyncThreads(p) \/ Refresh(p) \/ PostPause(p)
    \/ PostPauseError(p) \/ RereadPause(p)

Next ==
    \/ \E r \in Runs : Worker(r)
    \/ \E p \in Hooks : Hook(p)
    \/ \E p \in Procs : Settle(p) \/ BlockHead(p) \/ Die(p)
    \/ ChangeSettings

Fairness == \A p \in Procs : WF_vars(Settle(p))

Spec == Init /\ [][Next]_vars /\ Fairness

----------------------------------------------------------------------------
(* Properties. *)

Unattended == \A p \in Procs : pc[p] \notin Attending

\* When nobody is going to look at the gate any more and there is no excuse,
\* the commit carries the check the database calls for, however the POSTs of
\* workers, the sweep, retargets and thread events overtook one another.
GateSettled == Unattended /\ left = "none" => host = Wanted

\* A verdict is shown only for a run whose review is on the pull request: no
\* order of POSTs passes a commit by a run that did not publish.
VerdictOfAReview == host.title \in {"passed", "blocked"} => host.link \in recorded

\* Settling has no bound on its rounds, and yet every call of it ends: a round
\* follows a change of the inputs or a refusal, of which it survives few.
SettlingEnds == \A p \in Procs : pc[p] \in Settling ~> pc[p] \notin Settling

\* No thread is at work and no message waits: nothing will happen to the gate
\* without a new event.
Quiet == queue = {} /\ \A p \in Procs : pc[p] \in {"idle", "done"}

\* sync_thread_resolution.py:126 says of the early return of Refresh that the
\* gate will be set by the run that is to check the head.
SkippedIsMadeUp == Quiet /\ left \in {"none", "skipped"} => host = Wanted

\* merge_gate_publish.py:122 says that a failed or cancelled repeat of a manual
\* review does not take away the gate of the review before it.
KeptIsRight == Quiet /\ left \in {"none", "kept"} => host = Wanted
=============================================================================
