# Verification of the review service

TLA+ models of the backend that reviews pull requests with an agent: an API
process that turns GitHub webhooks and manual launches into review runs, worker
processes that carry them out, one Postgres database and one RabbitMQ queue
between them. The models are written from the code under `src/app`; paths below
are relative to it. `PROJECT.json` gives, for every definition that models code,
the lines it stands for.

## 1. Inventory

| Component | State it keeps | Operations | Talks to |
|---|---|---|---|
| run lifecycle (`domain/lifecycle.py`, `domain/enums.py`) | none, rules over the status of a run | `next_status`, `advance`, status sets | everyone who writes a run |
| run intake (`use_cases/start_review_run.py`, `handle_webhook.py`, `launch_review.py`) | rows of `review_runs`, `merge_requests` | duplicate rule, supersede on a change of target branch, insertion, enqueue, compensation, branch filter | database, queue, GitHub (metadata, gate) |
| job queue (`infrastructure/queue/rabbitmq.py`) | quorum queue `review_jobs.qq`, DLQ | publish with confirmation and one retry, deliver, ack, nack, delivery limit, consumer timeout | API, workers |
| worker (`worker/factory.py`, `worker/handling.py`) | the message in hand | consume loop, graceful stop, acknowledgement, periodic maintenance | queue, pipeline, sweep |
| review pipeline (`application/review_pipeline.py`) | the run's row, steps, findings, usage | claim, the stages, progress marks, failure, cancellation | database, GitHub, LLM |
| publication (`application/publish_review.py`, `infrastructure/vcs/github_review.py`) | `published_comments`, reviews on GitHub | adopt orphans, match threads, post, record, set the gate | database, GitHub |
| stale sweep (`application/stale_sweep.py`, `domain/staleness.py`) | none | read stale runs, fail each if unchanged, block its head | database, GitHub |
| merge gate (`application/merge_gate_publish.py`, `domain/merge_gate.py`) | the check run on GitHub | `settle_merge_gate`, `pause_check`, `publish_pause_check`, `head_run_in_charge` | database, GitHub |
| thread resolution (`application/sync_thread_resolution.py`) | `resolved_at` of threads | thread webhooks, synchronisation with the host, refresh of the gate | database, GitHub, merge gate |
| run rows (`infrastructure/db/repositories.py`, `unit_of_work.py`) | tables and unique indexes | locked update with `previous=`, look-ups, race constraints | everyone |
| run steps (`application/review_run_steps.py`, `domain/run_steps.py`) | `review_run_steps` | open, finish, fail, abandon, close | pipeline, sweep |
| webhook redelivery (`application/webhook_redelivery.py`) | list of deliveries on GitHub | find failed deliveries, ask again | GitHub, worker |
| sessions and provider tokens (`use_cases/auth.py`, `user_token.py`) | sessions, encrypted tokens | log in, refresh, revoke | database, GitHub OAuth |
| run feed (`api/events.py`, `domain/run_feed.py`) | a cursor per client | stream of changes of runs | database |
| service status (`use_cases/service_status.py`) | the last report | report of the monitoring system, renewed under a lock | Prometheus |
| caches (`infrastructure/cache`, `vcs/cached_installations.py`) | entries with an expiry | get, set, evict | API |
| connection and settings (`use_cases/connect_repository.py`) | `repositories` | connect, disconnect, change settings | database, GitHub |
| diff parser (`domain/diff_parser.py`, `hunk_context.py`) | none | lines of a diff into files and hunks, filter of files, hunks widened by the text of the head | pipeline, context, publication |
| findings algorithms (`domain/dedup.py`, `verification.py`, `thread_coverage.py`, `application/llm_schema.py`) | none | screening, deduplication, judgement, coverage by threads | pipeline, publication |
| branch filter and repository rules (`domain/glob.py`, `application/repo_config_loader.py`) | rules of a commit, cached | match, load | intake, context, cabinet |
| context assembly (`application/context_assembly.py`, `domain/context_budget.py`) | the budget in hand | parts, hunks, rules, texts and omissions taken in turn | pipeline |
| GitHub client (`infrastructure/vcs/github.py`, `github_auth.py`) | installation token | request with attempts, pauses and a search for what a lost answer hides | everyone |
| LLM gateway (`infrastructure/llm/`) | turn of the keys | providers in turn, schema attempts, metering | pipeline |
| REST API (`api/`) | none | routes, projections, pages, problem documents | use cases |
| prompts, redaction, comments; comment feedback; telemetry | none | functions from text to text; a counter; spans and logs | |

What is hard in this code, and what makes each part correct:

- **Several deliveries of one job.** Publishing is retried, messages come back
  after a crash and after the consumer timeout, while the first worker may still be
  at work. Correct: one worker owns a run, the pull request gets one review, and no
  message is acknowledged while its run waits to be taken.
- **Several writers of one row.** The worker, the sweep, a retarget and the
  compensation of a failed enqueue each write a run after an earlier read. Correct:
  the status and progress of a run that is over stay (only the usage of a cancelled one is
  added), and the sweep spares a run that moved.
- **Two unique indexes and a retry** decide among parallel deliveries. Correct: a
  commit has at most one run in progress.
- **Crashes between commits** (run stored and not enqueued; review posted and not
  recorded). Correct: every run ends, every message leaves the queue.
- **The merge gate** is a value on another host that every component sets after
  reading the database, so an old check can overtake a newer one, and a failed POST
  may have arrived. Correct: once everyone is done the gate says what the database
  says, and a verdict is only ever shown for a review that is on the pull request.
- **Lost answers.** A POST of a review whose answer is lost may have been performed;
  a repetition must look first. Correct: at most one review, and a definite answer is true.
- **Reviews of dead runs.** A run may die between its POST and its record; the next one
  adopts what it left, perhaps together with another. Correct: no comment is repeated.
- **One-time refresh tokens** asked for by parallel requests, a logout in between.
  Correct: a refresh token is spent once, no live session is closed, no token outlives a logout.
- **Windows over a moving list**: failed deliveries that several workers ask for again, and
  rows of the feed that are committed after later ones, or stamped by another clock than
  their last version. Correct: nothing within the window is missed, attempts stay bounded.
- **Caches and checks that are out of date when used**: visible repositories, the service
  report, rules and diffs by commit, the records a Setup URL has read. Correct: an answer was
  true at some moment of its request, or within a stated time of it.
- **Budgets and boundaries**: the packet's shares, schema attempts over providers and
  keys, the worst time of an enqueue, the bytes of a file, the greedy glob match.

`PROJECT.json` lists the hazards at the lines where they bite, with the
properties that watch them or the reason why none does yet.

## 2. Plan

The modules, in the order in which they were written:

1. `RunLifecycle` - the status machine, shared by the modules of runs.
2. `RunPromise` - what the service promises about runs, without queue and workers.
3. `ReviewRuns` - intake, queue, workers, pipeline and sweep composed;
   `ReviewRunsInv`, `ReviewRunsProofs` - its inductive invariant and the proofs.
4. `MergeGate` - the check run and everyone who sets it; `MergeGateInv`,
   `MergeGateProofs` - its inductive invariants and the proofs.
5. The parts of the worker, composed in `MCWorker` (section 5): `GitHubRequest` with its
   abstract specification `RequestPromise`, `Publication` with `ThreadCoverage` and
   `PublicationProofs`, `RunSteps`, `Redelivery` and `JobPublisher`, and with `RunFeed`, the stream of
   events of the runs that the worker writes; `WorkerProofs` proves about all of these but `Publication`.
6. The parts of the server and the algorithms, composed in `MCServer` (section 6):
   `UserSessions` with `UserSessionsProofs`, `RepositoryAccess` and `Cabinet` with `MemoryCache`,
   `ServiceStatus`, `ModelCall`, `DiffText`, `DiffHunks`, `Findings`,
   `ContextAssembly`, `BranchGlob`; `ServerProofs` proves about `RepositoryAccess`, `Cabinet`,
   `ServiceStatus` and `ModelCall`, `AlgorithmProofs` about `BranchGlob`, `Findings`,
   `ContextAssembly` and `DiffText`.
7. `Listing` - the members of a finite set in a list, and the sum of a finite set of costs, both
   defined by counting, and sequences joined into one, by a recursive function: forms that can be
   proved about; `ListingProofs` - the lemmas about them that `WorkerProofs`, `ServerProofs` and
   `AlgorithmProofs` share.

`MCReviewRuns`, `MCMergeGate`, `MCWorker` and `MCServer` give TLC its instances.

What is left of the plan:

| Subject | Kind |
|---|---|
| `ViewIsGitDiff` for any constants (what stands in the way: section 7) | proof |
| `ServerTypeOK` as a whole; the types of five of its ten parts are in the invariants of section 7 | proof |
| the parser of the rules, outlines of sources, the rest of the run rows | not worth a model so far (section 9) |

## 3. ReviewRuns

One action is one database transaction, one call to the broker or to GitHub, or
the failure of one. The pull request is fixed; `Heads` are its commits, `Runs` the
rows that may be inserted, `Requests` threads of the API, `Workers` processes.

| Code | Actions |
|---|---|
| `start_review_run` | `Check`, `SupersedeFind`, `SupersedeWrite`, `Insert`, `InsertConflict`, `Lookup`, `BlockHead`, `Enqueue`, `Compensate`, `ApiCrash` |
| `Worker.run`, the broker | `Deliver`, `GiveBack`, `Settle`, `ConsumerTimeout`, `Crash` |
| `run_review`, `publish_review` | `ReadRun`, `Claim`, `StartAnalysing` ... `Complete`, `StepError`, `WasCancelled`, `MarkFailed` |
| `sweep_stale_runs` | `SweepRead`, `SweepWrite`, `SweepAbort` |
| time | `Tick` |

- `last_progress_at` is compared for equality (`update(previous=...)`) and for
  age (`find_stale`), and nothing else is read of it. So it is two variables: a
  `stamp` that each write makes new, and an `age` in ticks that stops at `MaxAge`,
  where both thresholds have passed. `Tick` may come at any moment and any
  number of times: the model never relies on the worker being quick.
- A `"launch"` stands for a webhook and for a manual launch. The webhook's
  duplicate rule (`_duplicate_of`) also stops on a completed run; the manual rule
  admits every launch it admits, so one rule covers both.
- A commit whose answer is lost leaves the caller with an exception and the row
  written; every step of the pipeline that writes has that outcome.
- `_fail_unenqueued` reads and writes in one transaction without a lock. Its write
  compares with the row under the lock of `update`, so it is one step as far as
  the status is concerned.
- `Compensate`, `MarkFailed` and the sweep write only what `update` accepts
  (`MayWrite`, `Unchanged`).
- A crash of a worker hits at any step, also between the POST of the review and
  its record. A graceful stop gives the message back without the broker counting
  it; everything else is counted up to `DeliveryLimit`.

`RunPromise` has four variables: a run is accepted for a commit that no run in
progress holds, moves one stage at a time, may be given up, posts at most one review,
and completes only when it is recorded. `KeepsPromise` says that `ReviewRuns`
implements it; the refinement mapping is the identity on `status`, `head`,
`reviews`, `recorded`.

### Runs

| Run | Instance | Question |
|---|---|---|
| `two_workers` | 1 run, 2 workers, 2 copies of its message | Can redeliveries, timeouts and sweeps give a run two owners or two reviews, or lose it? Is `IInv` an invariant? |
| `two_runs` | 2 runs on one commit, 2 requests, 1 worker | Do parallel launches and retargets keep the promise? Is a finished run frozen? |
| `liveness` | 1 run, 1 request, 1 worker | Does every run end and every message leave the queue? |
| `cancelled_run_posts` | the same, without fairness | The specification says that a cancelled run publishes nothing: violated (see 8) |

*Bounds.* One run with two workers and two copies of the message already has every
pair of deliveries of one run: no property speaks of a third worker, and the proofs
have no such bound. Two runs and two requests are the least with which a
launch meets a launch, a retarget meets a launch, and an index refuses an
insertion. `DeliveryLimit` 1 lets a message come back once and die at the second
return. Thresholds 0 and 1 are the smallest that differ. `Runs` bounds how many
launches succeed; when it is used up an `Insert` cannot be taken. The model never
deadlocks: a thread of the API can always start or give up.

*Fairness* (`Fairness`, used by `liveness`). Weak fairness of `Tick`: time passes.
Weak fairness of `Handle(w)`: a worker that is alive goes on with its message, and
crashes remain possible at every step. Strong fairness of delivery, reading
and the two steps of the sweep: the consume loop calls the sweep before every
message and on its idle timer, so between restarts a turn always comes; what is
excluded is a cluster in which every restart falls just before that turn,
for ever, or a database that fails at that step each time. Nothing is assumed of the API, so a
request may die after any commit, which is what the sweep is for.

## 4. MergeGate

One head commit, its runs numbered in the order of `created_at`, one worker per
run (the process has the number of its run), and `Hooks`: threads of the API and
the sweep, which run one handler at a time.

| Code | Actions |
|---|---|
| `settle_merge_gate` | `SettleRead`, `SettleFindings`, `SettlePost`, `SettleError` |
| `pause_check`, `head_run_in_charge`, `build_*_check` | `Pause`, `InChargeUnder`, `Verdict`, `NoVerdict` |
| `publish_pause_check` | `PostPause`, `PostPauseError`, `RereadPause` |
| worker | `Claim`, `StartPublishing`, `CheckNotCancelled`, `Record`, `Complete`, `WorkerError` |
| sweep, `block_head_of_failed_run` | `Sweep`, `BlockHead` |
| `handle_webhook_event`, `launch_review`, `start_review_run` | `PrWebhook`, `ManualRequest`, `Decline`, `SkipFiltered`, `Launch`, `Retarget`, `Enqueue`, `EnqueueError`, `Compensate`, `Restore` |
| thread webhook | `ThreadWebhook`, `Decide`, `SyncThreads`, `Refresh` |
| users, crashes | `ChangeSettings`, `Die` |

`host` is the check on the commit; a check is its title, the threshold it names
and the run it links to, which is all that two checks are compared by. The findings
of a run are abstracted to its worst one, because the verdict asks only whether some open
finding reaches the threshold; its thread is open, closed, or unknown (the inline id
was not obtained). `Wanted` is the check that `settle_merge_gate` would
set if it read everything at once.

`left` records why the code does *not* promise an up-to-date check although
nobody is on the way to it: `"lag"` where the code says so itself (best effort after
failures, settings that no handler carries to the host, a run just launched
whose worker sets the gate, a pause check that landed over a run that has yet
to publish), `"skipped"` and `"kept"` where a comment promises that somebody will
make up for it. The next check that reaches the host clears it. `GateSettled` holds
with none of them; the two violation runs show that the last two promises are not kept.

Simplifications: the duplicate rule and the insertion are one step, as are the
two commits of a retarget (what comes between them is in `ReviewRuns`); runs are
committed in the order of `created_at`; the worker's own synchronisation of threads
before it publishes is left out (it closes threads, as `SyncThreads` does, and the
worker settles the gate afterwards); the
failure handling of a worker joins `_was_cancelled` and `_mark_failed`.

### Runs

| Run | Instance | Question |
|---|---|---|
| `gate` | 2 runs, 1 hook, 1 disturbance, filter and paused settings | Whatever order the POSTs arrive in, does the gate end as the database says? Is a verdict always of a published review? |
| `gate_settles` | 1 run, 4 settings, 2 disturbances, 2 attempts | Does the settle loop end, and leave the right gate after refusals? Is `SettledInv`, which has `GateInv` as a conjunct, an invariant? |
| `gate_after_skip` | 1 run, 1 disturbance | Is a refresh that was skipped made up for? Violated (see 8) |
| `gate_after_filter` | 2 runs, no disturbance | Does a cancelled repeat of a manual review leave the gate of the first? Violated (see 8) |

*Bounds.* Two runs are the least with a run that replaces another, a manual repeat and
a retarget; with their two workers and one hook three settle loops interleave.
`Budget` bounds disturbances: changes of settings, thread events, refusals,
deaths, swept runs. One of them with two runs and two with one run cover each
disturbance against each order of POSTs, and a refusal followed by another
change. One level suffices for `gate`, because verdicts differ by the open finding; the
threshold is part of the check in all runs. The system may really stop
(all runs finished, hooks idle, no run left to launch), so deadlock is not checked.

*Fairness.* Weak fairness of the settle loop of each process: a thread in it is
runnable until it returns. The loop has no bound of its own; it ends because its
inputs stop changing, which `Budget` and `MaxRuns` say of users. No
other action is fair, so everything but the loop may stop.

## 5. The parts of the worker

`MCWorker` takes six modules side by side: five parts of the worker, and the stream of events in which the API tells of
its runs. They share no variable: what one of them
does to another is an input of that other, taken from every value it may have (the retries
of a request are failures to its caller, a message that is published is a `Deliver` of
`ReviewRuns`). So the composition is a choice of a part at the start; the
others stand still, and a property of one part is checked over all behaviours of that part.

### GitHubRequest (`infrastructure/vcs/github.py`, `github_auth.py`, `github_review.py`)

| Code | Actions |
|---|---|
| `installation_token` | `TakeToken`, `FetchToken`, `StoreToken` |
| `_request` | `HostAnswers` with `Receive`, `Rejected`, `TryAgain`; `Wake` |
| `_rate_limit_wait` | `LimitWait` |
| `already_done`, the search by marker | `Check` |
| GitHub | `HostPerforms`, the answers of `MayAnswer`, `Revoke`, `Expire` |

A request that creates something (`KindOf` `"create"`) may be performed although its
answer says otherwise. `RequestPromise` is what its caller relies on: performed at most once, and
a definite answer is true. `KeepsRequestPromise` says that the requests implement it: the calls
are those that create, `effects` is `performed`, and `reply` maps the outcome to "done",
"undone" or "unknown" (`INSTANCE RequestPromise WITH`). `PatienceIsBounded` bounds waits and
attempts. Assumed: what the host has not performed when the connection breaks it does not
perform later.

### Publication, ThreadCoverage (`application/publish_review.py`, `domain/thread_coverage.py`)

| Code | Actions |
|---|---|
| `_adopt_orphaned_reviews`, `list_unpublished_failures`, `find_review` | `ReadOrphans`, `FindReview`, `FindFails`, `Adopt` |
| the threads on the host, the match, `_sync_threads_with_host` | `ReadThreads`, `Drafts`, `Sync`, `SyncFails` |
| the last look at the row, the POST, the record | `CheckNotCancelled`, `Post`, `PostWithoutIds`, `PostUnanswered`, `Record` |
| the pipeline around it | `Begin`, `Complete`, `Fail`, `Crash`, `Sweep`, `Cancel` |
| users | `CloseThread`, `Outdate` |

Runs on different heads of one pull request can publish at once, and a worker outlives the run
the sweep has ended; `Overlap` is how many do. The clock moves at each commit, for
`list_unpublished_failures` compares times. `OrphanIsNotRepeated` looks at the comments
themselves: a review that is posted repeats none that stands, is at least as severe and
belongs to an earlier run that posted, unless the host refused to tell
(`blind`), the earlier review was out of reach (`lost`) or an adoption under way hid
it (`hidden`; see `adoption_cut`). `CompletedKnowsAll` is the side of the gate: when a run
completes, every earlier review is in the database with its comments.

### Redelivery (`application/webhook_redelivery.py`, `domain/webhook_redelivery.py`, `api/webhooks.py`, `use_cases/handle_webhook.py`)

| Code | Actions |
|---|---|
| GitHub and its list of attempts | `Push`, the attempts that `AnswerDelivery` adds |
| the intake that answers | `Intake`, `InsertRun`, `EnqueueRun`, `EnqueueFails`, `IntakeFails` |
| `redeliver_failed_webhooks` | `PassBegins` (`Due` is `select_redeliveries`), `AskWhetherCurrent`, `Redeliver`, `PassEnds`, `PassAborts` |
| time, the run | `Tick`, `RunEnds` |

Each worker lists the deliveries, then asks whether a push is current, then asks for it again,
with nothing locked: two workers repeat one delivery twice, so `AttemptsAreBounded` is the
limit plus one per further worker. `PushIsMadeUp`: while fewer faults happen than there are
attempts, a push that is still the head when it leaves the window was accepted.
`ReviewedOnce`: a delivery that sets out when its commit has been reviewed starts no second review,
unless a run on the commit has failed since (`relapsed`): the duplicate rule looks at the latest
run, so that with three attempts or more a repeat may rightly start a run on a commit that has a
review. Deliveries that were under way before the review are excepted: two first deliveries that cross
between the look for a duplicate and the insertion may both be reviewed. One tick is the interval of the
passes; a request ends within it. A pass sends no more than `PassLimit`, and takes the oldest
first, so a delivery that keeps failing delays the others (webhook_redelivery.py:92).

### RunSteps (`application/review_run_steps.py`, `domain/run_steps.py`)

| Code | Actions |
|---|---|
| `start`, `retry`, `finish`, `fail` of the recorder | `Start`, `Retry`, `Reopen`, `FinishStage`, `ScreeningFails`, `FailStep` |
| the pipeline that calls it | `EnterStage`, `Spend`, `StageRaises`, `CompleteRun`, `CompleteFails`, `AskCancelled`, `MarkFailed` |
| `close_abandoned_steps`, by the worker or the sweep | `AbandonStep`, `CloseAbandoned`, `SweepCloses` |
| others who end the run | `SweepRun`, `CancelRun`, `StepCrash` |

Every write of a step is a commit of its own with three results: applied, refused, or applied
with its answer lost. The module keeps `truth`, what really became of each step, beside the
journal. `StepTellsTheTruth`: a closed step agrees with it, or is marked abandoned for a
reason. `NoStepIsLeft`: when run and closers are through nothing is left running, and a failed
stage shows. A cancelled run with a dead worker does keep a running step: nobody closes it.

### JobPublisher (`infrastructure/queue/rabbitmq.py`)

| Code | Actions |
|---|---|
| `enqueue`: the lock, `_channel_ready` | `EnqueueJob`, `TakeConnection`, `GiveUpLock`, `ReuseChannel`, `OpenChannel` |
| `_publish_with_retry`: once more over a new connection, or not | `Breaks`, `Refuses`, `BlockedTooLong` |
| broker | `BrokerTakes`, `Confirmed`, `BrokerDoesNotRead`, `HangUp`, `BrokerFails`, `BrokerRecovers` |
| time | `SecondPasses`, for a thread that waits for the lock or a broker that does not read |

`EnqueueFailsForCause`: success means queued, a second copy needs a broken connection, a failure
has a cause within the call, and no call takes ten seconds. The timeouts are the real ones,
three seconds each. The worst call takes nine: the lock, then two attempts that are blocked;
the comment at rabbitmq.py:67-71 adds up one of each. An unreachable broker is assumed to
refuse at once. A message whose confirmation timed out under an alarm may still be read later, and
is then a job whose enqueue had failed (its run is already failed, and `ReviewRuns` drops it).

### RunFeed (`api/events.py`, `domain/run_feed.py`, `application/run_feed_events.py`, `infrastructure/db/run_changes.py`)

| Code | Actions |
|---|---|
| writers of runs | `InsertFeedRun`, `UpdateFeedRun`, `CommitFeedRun` |
| the LISTEN connection | `Listen`, `ListenerDies`, `HeartbeatFails` |
| the stream | `Connect`, `FirstRead`, `WaitChange`, `ReadBatch`, `StreamEnds` |
| the client | `ReadSnapshot`, `ShowSnapshot` |

A row is stamped before it is committed, so a later stamp may be committed first; the read looks
`Recheck` behind its cursor. An insertion keeps the clock of its process (`add`, repositories.py:444-477), which may
be ahead by `Skew`, and an update has the clock of the database (`onupdate` in base.py): nothing keeps a claim or a
compensation from following the insertion within that difference, so a later version may bear an earlier stamp or the
same one. (An inserting process that is behind does what a longer transaction does.) `number` counts the versions
of a row and `past` remembers the latest stamp of those before. `WriteLimit` bounds the writes of each run: an insertion
and an update of the first, which it may outpace, and an insertion of the second. The theorem has no such bound.

`QuietClientIsCurrent`: when the stream has nothing to do the client shows what is committed, and no version
came twice. It has two exceptions. A connection may be dead and not yet noticed: until the heartbeat
fails the client may be behind. And a version may be stamped no later than one before it (`Outpaced`): the client keeps the
version with the larger `updated_at` (api/events.py:67-69), so it may stay with the earlier one until a write that is later
than all; section 8 says what this contradicts. That the stream gives no version twice holds of these versions
too. The guard of `InstantPasses` is the assumption that run_feed.py:23-26 states: with the skew of
the clocks, a row is committed within `Recheck` of its stamp; `FeedAssumption` has `Skew < Recheck`, because the
window is chosen larger than the clocks' difference. The same guard lets a catch-up
over several batches (a batch is one row here) end within an instant: one that took longer
than the window could carry the cursor past a row committed meanwhile.

### Runs

| Run | Instance | Question |
|---|---|---|
| `worker` | all six parts | Does each part keep its promises under the faults it handles? |
| `adoption_cut` | `Publication`, 4 runs, two at once, crashes only | The specification: what a failed run published is not published again. Violated (see 8) |
| `second_delivery_hides` | `Redelivery`, 2 pushes, 2 workers | A comment: an extra attempt costs nothing but attempts. Violated (see 8) |

*Bounds of `worker`.* Requests: one that creates and one that reads, three attempts, two tokens, a
budget that a second default wait exceeds: each way of giving up is met. Publication:
three runs, two at once and one place with two severities let one run adopt of two
predecessors, or of one while the other still posts; one trouble besides the lookups that fail.
Redelivery: two pushes, so that one is overtaken, two workers and three faults, one more than the attempts.
Steps: one retry of a model call and one refused write, which is enough for each write to be the
lost one. Publisher: two threads, for the lock, and two upsets, for the retry to fail as
well. Feed: a run that is written twice and one that is written once, four instants against a window of two, two
connections and one loss: a late commit, an outpaced version and a stream that begins again can meet. A part may really stop, so deadlock is not checked.

## 6. The parts of the server and the algorithms of a review

`MCServer` does the same with ten parts.

### UserSessions (`use_cases/auth.py`, `use_cases/user_token.py`, `oauth/github.py`)

| Code | Actions |
|---|---|
| `complete_login` | `Login`, `FinishLogin`, `LoginFails` |
| `authenticate`, `_fresh_or_refreshed` | `Enter`, `ReadStored` |
| `_refreshed`, under the lock of the row | `TakeLock`, `LockTimeout`, `Exchange`, `ExchangeFails`, `ExchangeRefused`, `SaveToken` |
| `call_with_user_token`, `_close` | `CallProvider`, `Close` |
| `logout`, `revoke_quietly` | `Logout`, `LogoutLocked`, `LogoutBusy`, `LogoutDelete`, `RevokeToken` |
| the rest of the world | `PurgeSession`, `Withdraw`, `RefreshTokenExpires`, `Restart`, `Tick` |

A pair of tokens is its generation, and the provider honours one generation of a session's grant.
`RefreshTokenServesOnce`, `OnlyDeadSessionIsClosed`, `LogoutLeavesNoToken` leave out
sessions that are `spoilt`: the grant was withdrawn or the answer to a refresh was lost,
which the code cannot tell. Three calls on two sessions: two refresh while the third logs out or
logs in over the old session. A token outlives the margin and a request, as GitHub's does (eight hours).

### MemoryCache, RepositoryAccess (`infrastructure/cache/memory.py`, `use_cases/connect_repository.py`, `api/repositories.py`, `vcs/cached_installations.py`)

`MemoryCache` is the store as a sequence of entries (`Live`, `AfterGet`, `AfterSet`, `Evict`): expiry, and
eviction in the order of insertion (`AtPlaces` of `Listing` leaves entries out). `RepositoryAccess` has an action for each question to GitHub, each look into the
cache and each transaction of the routes that list, connect, disconnect, set up or save settings
(`ListRequest` ... `SetupRequest`); roles and installations change in between.
History (`seen`) keeps what was so while a request was under way. `AnswerWasTrue`: an answer was
true at some moment of its request. `ListIsRecent`: a withdrawn role shows after the time to
live. `SwitchedOffStaysOff`: a Setup URL that read the records before does not
bring back what a user has switched off. Two plans of three requests on one repository: connect against
disconnect against setup, and connect against settings against the list; `Patience` 0 says that a
request takes less than a day of the model.

### ServiceStatus (`use_cases/service_status.py`, `domain/service_status.py`)

`Arrive`, `TakeOld`, `LockReport`, `QueryAlerts`, `StoreReport`, `Depart` are the steps of a
request; `AlertChanges` and `MomentPasses` are the world. `SourceIsSpared`: one request asks the
source and not before the report expired, and an answer is as recent as that, unless
another request is renewing it. The exception is real: the first requests after a quiet night
are told a report of any age while one of them renews it, although api/status.py:48-54 speaks of the time to live.

### Cabinet (`use_cases/run_diff.py`, `repository_rules.py`, `launch_review.py`, `repo_config_loader.py`)

One action for each question of the diff, the rules and the launch by hand (`ReaderStep`), and
for each change outside (`RoleChanges`, `AppChanges`, `Pushed`, `PullChanges`, `DiffLost`,
`SwitchChanges`, `OtherRun`, `DayPasses`). `ReplyWasRight` compares each reply with what was so
during its request; a cached text must be of its commit, and a failure is never kept as one.
One excuse is needed (`lapsed`): `fetch_file` takes any 404 for "no such file", also the one of an app
that was withdrawn at that moment, and the answer is kept for the commit until it expires
(github.py:219-232), which the comment at run_diff.py:46-49 rules out.

### ModelCall (`infrastructure/llm/`)

`Ask`, `NoReply`, `KeyRefused`, `ReplyComes`, `ReadReply`: providers in turn, keys in turn, attempts at
an answer that fits the schema. `EveryAttemptIsAccounted`: each paid reply is in the meter once and
each attempt but the last was told to the listener, so the steps of a run agree with what was paid. Two
calls, for they share the turn of the keys; a local and a hosted provider with two keys.

### DiffText, DiffHunks (`domain/diff_parser.py`, `domain/hunk_context.py`)

`DiffText` writes a diff the way git does (`GiveDiff`) and reads it line by line the way `parse_diff`
does, then filters. What stands between two newlines is a *stretch*: a line, and what other characters
that break lines cut off; `SplitLines` keeps a stretch in one piece, as split_lines does, and where the
text behind such a character looks like the header of a file this matters. `ReadAsWritten` compares the two. Lines of a body look like headers of
a diff (`"signs"`), and names are plain, quoted, filtered or hold " b/"; of the last kind
`_paths_from_git_header` cuts an unquoted name (diff_parser.py:254-256), so the property
excepts it where no other line gives the name. `DiffHunks` numbers lines and widens hunks: `ViewIsGitDiff` compares the
result with what git itself would write with the wider context, for all changes of up to five lines, with a
text that is current or stale.

### Findings (`domain/verification.py`, `domain/dedup.py`, `application/llm_schema.py`)

`Report`, `Screen`, `Judge`, `JudgeFails`, `NothingToJudge`. `SavedFindingsStand`: no finding in
the diff is lost without a reason (a duplicate has a reason: it says what an earlier one says at its place), no serious finding of security is dropped by a verdict, and what is saved
keeps the unique key. It speaks of findings after deduplication: there a minor finding of security may
win over a serious one at its place and then be dropped. All lists of up to three findings.

### ContextAssembly (`application/context_assembly.py`, `domain/context_budget.py`)

The passes in their order: `TakePart`, `ReserveRules`, `TakeHunk`, `TakeRule`, `ShowWhole`, `TakeAst`,
`ShowWindow`, `ListOmission`, each with what it does when the budget is short. `PacketIsSound`: costs keep to
the limit with the reserve, and each hunk, part and rule is in the packet or listed, once. The order of
the items is `ByPlace`, the sums of their costs are `Total`, both of `Listing`. 48 pull
requests that fit, nearly fit and do not.

### BranchGlob (`domain/glob.py`)

`AskFilter`, `MeetStar`, `MatchSegment`, `TakeBack`, `NoMatch`, `BranchEnds` are the turns of the
loop. `FilterIsFullMatch` compares its answer with the existence of a cut of the branch into pieces
(`FullMatch`) and its turns with the bound its docstring promises: all patterns of up to four
parts, branches of up to three segments over two names.

### Run

| Run | Instance | Question |
|---|---|---|
| `server` | all ten parts | Does each part keep its promises, and does each algorithm compute its reference? |

The bounds are named with the parts; each is the least at which the actors of a hazard meet, plus one
where the run's time allows it. Nothing here is fair, and requests may stop, so
deadlock is not checked.

## 7. Proofs

`ReviewRunsProofs` proves for any sets of runs, commits, requests and workers and any
limits that satisfy the three assumptions of `ReviewRuns` (the sweep's thresholds are
ordered as `check_sweep_thresholds` demands; the limits are numbers; the null
values are not members):

- `Invariance`: `Spec => []IInv`, with `TypeCorrect`, `SingleOwner`, `SingleReview`,
  `AcknowledgedAfterTaking` as consequences;
- `TerminalStays`, `SweepSpares`: the two action properties;
- `Implementation`: `ReviewRuns` implements `RunPromise`.

`OneOwner` is not inductive: a second worker might hold a copy of the queued row and
claim with it. `IInv` adds what forbids that. `ClaimCopy`: a run that no one has taken has its first
stamp, and a copy about to be claimed has that stamp, so the comparison
under the lock fails after any write. `OwnedStage`: the row of an owner is at the
stage where the owner stands, or given up. So nobody else finds it queued, and each step of
the owner is the next stage of the promise. `ReviewMark` and `ReviewRecorded`: a review on the
pull request means that no worker is before its POST with this run. `SweepCopy`: what
the sweep holds is still past its threshold unless its row was written.
`AckTaken`, `RunsInserted`, `JobHeld` and `RequestHeld` say that a message about to
be acknowledged, and whatever is in hand, belongs to a run that exists and was taken.

`MergeGateProofs` proves for any number of runs, hooks and attempts and any set of
settings (`GateAssumption` only gives them their types) that the types hold
(`GateTyped`, with the failures of a call below its attempts) and that a verdict on
the commit is one of a recorded review (`VerdictShown`). `VerdictOfAReview` alone is not
inductive: a thread may hold an old verdict, or be on its way to compute one. `GateInv`
follows the verdict back from the host: `Good` says of each process that a verdict it
sends, a run whose findings it reads and, for a worker, its own run once it is past its
record all have their review recorded, and `CompletedRecorded` says so of completed
runs. `Moved` is the frame lemma: a step of one process that is good afterwards leaves the
others good, because no record ever disappears. That a set of runs has a newest one
comes from the well-foundedness of the naturals.

The same module proves `GateIsSettled`, from `SettledInv` (`SettledInvariance`). `HostKept` says why the
gate ends right: the host has what the database calls for, or there is an excuse, or some process
`Corrects` it. A process does so if its next look at the database cannot end with a check that is not
there: it has sent nothing yet, or what it sent last is what the host has (`Knows`), and if it is between its
two reads, what it read first is `StillSo`; or it is about to block a head whose run has failed and is
the latest. Who sends a check over another's becomes the one who corrects, as it reads again. `RowsInOrder` (only the latest run
is under way) and `Told` (a run whose worker records it is publishing or over, and has no record before)
show that going on to publish and completing change nothing a check says, so that the worker need not look then.
`Undisturbed` is the frame lemma: a step that changes no row the others need leaves the gate kept, if its
process was not to correct it.

`WorkerProofs` proves four parts of the worker. A request to GitHub, for any number of requests, tokens
and limits and any pauses the host names (`RequestAssumption` gives the constants their types) that the types hold
(`RequestTypes`), that no request exceeds its patience (`Patience`) and that the requests which
create something implement `RequestPromise` (`RequestImplements`). The invariant `RequestInv` has two
parts besides the types. `Bounded`: the host has performed a request at most once per attempt, and
while another attempt is to come one is left. `Once`, of the requests that create: when one is about to
be sent, its effect is not there yet, because the way back to "send" leads through a search that
found nothing or a refusal that came before the effect; and its outcome agrees with the effect.
`EndIsSound` and `GoesOn` are the frame lemmas of a step that ends its request and of one that
does not; `PromiseStep` maps a step to one of the promise. That a power of two is a number
follows from the count of the subsets of a set.

`UserSessionsProofs` proves for any number of requests and sessions and any times, margins and
bounds (`SessionAssumption` orders the margins and keeps `Nobody` out of the requests) that the types hold
(`SessionTypes`), that a refresh token is spent once (`RefreshOnce`), that a logout which revoked a
token leaves none behind (`LogoutIsFinal`) and that a request closes only a session whose token cannot be
renewed or read (`LivingSessionsStay`). None of the last three is inductive. `Locking` says that the
row lock is held by exactly the request that refreshes the session, and that its row is still there, so that
two exchanges of one session never meet. `Honoured` follows the grant: the provider honours the
generation that is stored, or the holder of the lock is about to store it. `Opened` covers the
time in which a login has its grant and no row, and `Leaving` the time between a logout's deletion and its
revocation: the session is `Gone`, so nobody refreshes it and nobody brings it back. For `LivingSessionsStay` the invariant
`CloseInv` adds what each request knows of its session. `Behind`: a row that was replaced after the request
read it carries a token that outlives the request. `Rejected`: the token a request was turned down with and takes
the lock for is past its time or no longer honoured. `Renewed`: the token of the second call is the stored
one, and nobody replaces it meanwhile, as it is neither within the margin nor rejected (a token's life has to exceed the margin
and the time of a request). `Closing`: who is about to close a session has found it dead. `RowsGo`,
`Unlocks` and `SameRows` are the frame lemmas: steps that only delete unlocked rows, that let go
of the lock, and that change of a row neither its presence nor its generation.

`PublicationProofs` proves for any number of runs, places and severities (`PublicationAssumption`
makes them numbers) the types, `CompletedKnowsAll` and `OrphanIsNotRepeated`. `PubInv` follows an owed
review through the run that owes it. `Settled`: while the run adopts, what it owes is
recorded or among the orphans it still holds, and afterwards all is recorded. `Seen` and
`Hiding` deal with the comparison of times by which orphans are found: a run that began after a
failure has seen it, and a record as late as the failure hides the review only from runs that are to look yet, which `hidden` names. `Spoken`
carries the threads into the drafts: the drafts repeat none of them. `Staged` ties the step of the
worker to the row and the review. The module ends with the whole of `MCWorker`: side by side each part
behaves as it does alone (`PartsKeepApart`), so what is proved of the parts is true of the runs' instance, and
all types hold (`WorkerTypes`).

The steps of a run (`WorkerProofs`), for any number of retries, tokens and refused writes: the types, `StepTellsTheTruth` and
`NoStepIsLeft`. A row alone does not tell whether its
writer still remembers it. `Told` says that a row left running is one whose outcome the worker keeps
in `unwritten`, or one that really runs; `OpenRow`, that the step under way runs unless the sweep closed
it; `Shared`, that what the meter has counted since its start belongs to no other step; `Swept`
and `Finished`, that whoever ended the run closes what is left; `FailsVisibly`, that the last step of a
run that failed in a stage has not succeeded.

An enqueue (`EnqueueAnswersTruly`), for any number of threads and any
timeouts that add up below the hook's limit, as those of rabbitmq.py:68-73 do
(`PublisherAssumption`): `Linked` ties lock, connection and step, `Counted` bounds the copies
by the attempts, `Timed` the time by the waits that are behind, and `Caused` keeps the cause of a failure that is
to come.

Redelivery (`RepeatsAreBounded`, `RepeatStartsNoSecondReview`) for any number of pushes,
faults and attempts, and finitely many workers; config.py demands at least one attempt. The bound
is not inductive by itself. `OneEach` counts, of one push and one interval, the repeats under way, the workers that
hold it in their list and those that are to begin their pass: together no more than there are workers. So when a worker
takes up a push that has an attempt left, at most the others can add one each (`Limited`).
`Carried` and `Remembered` say that a delivery which set out after a review inserts only when a
run on the commit has failed.

`PushesAreMadeUp` proves `PushIsMadeUp` from `WindowSuffices`: there is a worker, a pass may send
something and a pause is longer than nothing (`gt=0` in config.py), and the pauses of all attempts together fit
into the window. With the defaults of config.py, five attempts that start at five minutes and
double, they add up to less than three hours of a window of three days. The invariant `MadeUpInv` adds two
parts to `RedeliveryInv`. `Ordered` says what is known of which push: nobody repeats one that is
not listed yet, the attempts are numbered, and a worker takes for overtaken only what is
(`Known`, `Listed`, `Overtaken`, `Repeating`, `Single`, `Numbered`). `InTime` is the account of the
head, while no attempt has delivered it. `Timely`: every failed attempt and every interval in which a due
repeat was not sent has used up a fault, so the time since the first attempt is at most the pauses so far and the
faults that are left over. `Missed` and `InHand`: while the repeat is due and not on its way, each
worker either has the push before it, or has used up a fault in this interval. A worker is not kept busy by older
pushes: they do not get past the question whether they are still the head and count nothing towards
`PassLimit`. `PausesGrow` and `PausesSuffice` compare the sum with the window; each attempt that is left
lengthens the pauses by at least the one interval that a fault may cost.

The feed (`QuietClientHasAll`, `FeedTypes`), for any number of writes and any order of their stamps: `NothingIsMissed` says
of a run that the client has not in its last version, though that is stamped later than all before it, why it is still to come: the row is above the cursor or in the
window under it, and a signal, a read or a further batch is due. That a late commit is in the window follows from
`Stamped` and `CursorIsDated`, which compare stamps and cursor with the clock. `ShownWasCommitted`: what the
client or the snapshot has is a version that was committed, so the last one wins at the client (`NewerOf`) unless it is
`Outpaced`. `GivenIsKnown` justifies what the stream leaves out as given; `SentOnce` that it sends nothing twice,
for which the number of the last version given is compared, not its stamp. That a batch has a last row comes
from the finite number of runs. `FeedAssumption` makes the bounds numbers and keeps the clocks' difference below the
window, and the window below the last instant.

`ServerProofs` proves four parts, for any number of requests, calls, providers and rules. `StatusSourceIsSpared`:
who asks the source holds the lock, and a report is dated by the query it came
from (`ReportIsDated`, `AnswerIsDated`). `ModelCallIsAccounted`: `Tally` counts attempts and replies of a call as a function
of the provider, the key and the try it is at; `Allowed` adds up what the providers before it were
allowed. `AccessAnswersTruly` and `SwitchedOffIsKept`: `Known` says of each request that what it has read of a role,
an installation or a record was so at a moment since it began (the histories `AnswerWasTrue`
looks at), `Recorded` that a record has its owner, `Shaped` what a request holds at each step.
`ListsAreRecent`, for any time a request may take (the run has 0): an entry expires at most a time to live and a request after
the moment its list is of (`Recent`), and a list in the hands of a request is `Dated` by the start of
that request. `CabinetRepliesTruly`: `Fits` says what a request has met before it stands at a step, and `Advances`
that each step goes on from there or replies rightly; `TrueRules` and `TrueDiffs` say that what a cache holds is
what the commit holds or the run compares, except after the application was off. Both rest on `StoreHolds`: whatever a store
evicts and in whichever order, it holds what it held and what was put. `AccessAssumption` types the plans of requests, `CabinetAssumption` the errands, trees and sizes;
`StatusAssumption` keeps `NoOne` out of the guests.

`AlgorithmProofs` proves four algorithms for inputs of any size. What is computed in a loop is an action
per turn in the model, so an invariant of the loop takes the place of an induction.

- The branch filter (`FilterAnswersTruly`): for any branch and any pattern the loop answers as the full match
  does, which may cut the branch in any way (`FullMatch`), within the bound on its turns. `Reached`: the
  parts of the pattern that are behind cut what is eaten of the branch, and those up to the last `**` what was
  before it. `Minimal`: whichever way the whole branch is cut, its `**` ends no sooner than the
  loop's, so that going back to it once more loses nothing, and forgetting an earlier `**` neither. `Thrifty`: each segment that
  the `**` takes costs less than one walk over the parts. Assumed is
  that branches and filters are sequences and that `**` is no pattern of one segment (`GlobAssumption`).
- Findings (`SavedFindingsAreRight`), for any candidates and verdicts: `Screened` and `Judged` say of the first and the
  second pass that two of their findings are `Apart`, that what is left out was refused, judged away or said
  by another, and that the numbers add up.
- The packet (`PacketIsAlwaysSound`), for any pull request, rules and budget. `Dealing` follows the items: `Fits`
  says which kind each stage deals in, `Once` that an item is in one place, `InTurn` that it is there in its stage, `NothingLost`
  that it waits, is in the packet or is listed as omitted. `Account` adds up size, what is left and the reserve.
  `RulesFit` says that when the rules fit into their share those still to come fit into what is left of it; `Widening`,
  that a file is widened once.

- The reading of a diff (`DiffIsReadAsWritten`), for any number of files, hunks and lines. `TextInv` is exact: until the
  end every file behind the reading is `Whole`, the file in hand is what the lines so far make of
  it, and the lines still to read are what git wrote from there on. So a step has a place in the patch, at a line of the
  header (`AtHeader`) or of a hunk (`AtBody`). `HeaderIsRead` follows the header of each kind of change
  and content, `LineStep` says that a line of a body is taken for nothing else whatever it looks like, `HunkStep`
  and `FileEnds` that the next hunk and the next file begin where they should. `NamesAreRight`, `HunksAreRight` and
  `FlagsAreRight` read the property off a whole file. `WeighedRightly` is about change_exceeds, which
  decides from the characters alone where it can: it exceeds the limit exactly when the bytes do. Assumed are
  what git keeps to (`DiffTextAssumption`: a rename has two names, text has hunks, a quoted name is not cut) and that a
  character takes one to four bytes.

`ListingProofs` holds what these proofs need of lists and sums. `PlacesInOrder` and `PlacesHold`: the
members of a set of places, counted off, come in order, without a gap and each once. `ByPlaceLists`: a listing of items
holds each of them once. `TotalGrows` and `TotalWithout`: a sum of costs grows with its set, and by the cost
of what is added. `PowerType`, `PowerDoubles`: a power of two counts the subsets of a set. `RestsAre`, `RestsType`: what is left of
sequences that are joined begins with the next of them. A recursive function is a choice among those
that keep its equations, so that there is one has to be shown; `RestsAre` (and `WeightsAre` for the sums of
change_exceeds) does so by the least length for which there is none.

Only model-checked: liveness (`EveryRunFinishes`, `EveryMessageSettles`, `SettlingEnds`), which needs
fairness and is out of the prover's reach; `ViewIsGitDiff`, whose two sides are built by sorting, folding
and flattening in one step, with no loop whose invariant could take the place of an induction; and
`ServerTypeOK` as a whole, as it holds the types of that part, which follow only from the same facts.

## 8. Disagreements between the code and its words

- `cancelled_run_posts`: the pipeline's specification says that a run cancelled by a
  retarget publishes no review. The code looks at the row and then posts, so a
  cancellation in between comes too late. (Its gate is corrected, its review stays.)
- `gate_after_skip`: the refresh after a thread event does nothing unless the head's
  run is completed, and relies on the run to set the gate. A publishing run has
  already set its last one.
- `gate_after_filter`: when a pull request leaves the branch filter while a manual
  review is being repeated, the repeat is cancelled and nobody sets the gate of the
  first review again: the check stays in progress.

- `adoption_cut`: a run adopts the reviews of dead runs one by one, each record with the time of
  the adopting run; from the first record on, the failure of the next is earlier than the latest
  publication, and any other run leaves it out. If the adopting run dies there, or another
  publishes meanwhile, the second review is published again.
- `second_delivery_hides`: an extra attempt of a delivery that finds the run of the first is
  answered with success. If the first then fails to enqueue, the run is failed, and the delivery
  is not repeated because one of its attempts succeeded.

Smaller ones, which no run shows: the docstring at worker/factory.py:381-382 against
review_pipeline.py:293-297; a stale token that `StoreToken` writes after an invalidation
(github_auth.py:49), healed by the next rejection; two runs on different heads of one pull
request that are in progress at once, which the unique index allows; and "a version of the row that is older
loses by updated_at" (api/events.py:75-76, likewise `RECHECK`, run_feed.py:23-26, which takes the difference of clocks for
covered): a run inserted by a process that is ahead of the database and written again within the difference has an
`updated_at` that went back, and the client keeps the insertion until a later write. `QuietClientIsCurrent`
without `Outpaced` is violated after eleven steps.

## 9. Not modelled

- Functions from text to text without state: prompts, redaction and sanitising, the wording of
  comments and problem documents, the parser of the rules file, outlines of sources. Where another
  module depends on their result it is taken from every value it may have (a text's cost, a
  rule that applies, a candidate that is unsound).
- Projections, pagination, visibility filters and body limits of the REST API, on which no
  state depends; cookies, the OAuth state and signatures, which are one check each before the
  modelled handler begins.
- Comment feedback, one increment in one transaction that nothing calls yet; telemetry, logs
  and the report of a deployment; the expiry of stored bodies in the worker's maintenance.
- Endpoints of GitHub beyond what their callers observe. GitHub is assumed to apply checks in the
  order in which it received them, to perform nothing after it broke a connection, and to
  deliver webhooks at any time, in any order.
- The parts of sections 5 and 6 are not composed with `ReviewRuns` and `MergeGate` in one
  state space: they meet only in inputs that each takes in every order. Runs of different pull
  requests share nothing but the queue, whose order no property relies on.
- Liveness of the parts of sections 5 and 6: what must happen eventually is there stated by a
  deadline (`PushIsMadeUp`, `ListIsRecent`, `EnqueueFailsForCause`) or as a state of rest
  (`NoStepIsLeft`, `QuietClientIsCurrent`), which needs no fairness.
