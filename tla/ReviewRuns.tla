---------------------------- MODULE ReviewRuns ----------------------------
(***************************************************************************)
(* The life of review runs across the API process, the database, the job   *)
(* queue, the workers and the sweep of stale runs:                         *)
(*   - app/application/use_cases/start_review_run.py  (intake)             *)
(*   - app/infrastructure/queue/rabbitmq.py           (publisher, queue)   *)
(*   - app/worker/factory.py                          (consume loop)       *)
(*   - app/application/review_pipeline.py, publish_review.py (pipeline)    *)
(*   - app/application/stale_sweep.py                 (sweep)              *)
(*   - SqlAlchemyReviewRunRepo in infrastructure/db/repositories.py (rows) *)
(* One action is one database transaction, one call to the host or to the  *)
(* broker, or a failure of one of them.  The pull request is fixed; its    *)
(* commits are Heads.                                                      *)
(***************************************************************************)
EXTENDS RunLifecycle, Naturals, FiniteSets

CONSTANTS
    Runs,           \* identifiers of rows of review_runs
    Heads,          \* head commits of the pull request
    Requests,       \* API threads that launch runs
    Workers,        \* worker processes
    PublishTries,   \* how often one enqueue publishes, 2 in _publish_with_retry
    DeliveryLimit,  \* x-delivery-limit of the queue
    StaleLimit,     \* STALE_RUN_TIMEOUT, in ticks
    QueuedLimit,    \* QUEUED_RUN_TIMEOUT, in ticks
    NoHead, NoRun, NoMsg

\* check_sweep_thresholds refuses to start a worker otherwise.
ASSUME ThresholdsAssumption ==
    /\ StaleLimit \in Nat /\ QueuedLimit \in Nat
    /\ StaleLimit < QueuedLimit

ASSUME BrokerAssumption == PublishTries \in Nat /\ DeliveryLimit \in Nat

ASSUME NullsAssumption ==
    NoHead \notin Heads /\ NoRun \notin Runs

(***************************************************************************)
(* A row keeps its status and last_progress_at.  The time stamp is modelled*)
(* by the two things the code reads from it: whether it is still the one   *)
(* read before (stamp, which each write makes new) and how long ago it was *)
(* (age, in ticks, counted up to MaxAge where every threshold has passed). *)
(***************************************************************************)
VARIABLES
    status, head,   \* columns of review_runs
    stamp, age,     \* last_progress_at
    mrStored,       \* whether merge_requests has the pull request's row
    api,            \* where each API thread stands in start_review_run
    req,            \* and what it holds in local variables
    msg,            \* the state of each published message
    returns,        \* how many times the broker counted its return
    pc,             \* where each worker stands
    job,            \* the message a worker is handling
    holds,          \* whether the broker still counts it as delivered to it
    copy,           \* the run as the worker read it before claiming it
    sweeping,       \* the stale runs a worker has read and not yet written
    reviews,        \* reviews of each run on the pull request
    recorded        \* runs with their review in published_comments

rowVars == <<status, head, stamp, age, mrStored>>
apiVars == <<api, req>>
queueVars == <<msg, returns>>
workerVars == <<pc, job, holds, copy>>
hostVars == <<reviews, recorded>>
vars == <<rowVars, apiVars, queueVars, workerVars, sweeping, hostVars>>

MaxAge == QueuedLimit + 1

\* A broken connection makes the publisher try again, so that a run may have
\* several messages.
Msgs == Runs \X (1..PublishTries)
RunOf(m) == m[1]

Copies == [run : Runs, status : Nonterminal, stamp : Nat]
NoCopy == [run |-> NoRun, status |-> "absent", stamp |-> 0]

Reqs == [kind : {"launch", "retarget"}, head : Heads, run : Runs \cup {NoRun},
         knowsMr : BOOLEAN, retried : BOOLEAN]
NoReq == [kind |-> "none", head |-> NoHead, run |-> NoRun,
          knowsMr |-> FALSE, retried |-> FALSE]

ApiStates == {"idle", "supersede", "cancelling", "insert", "lookup",
              "block", "enqueue", "compensate"}

\* The pipeline between the claim and the last write of the run.
BeforePost == {"building", "analysing", "verifying", "saving", "publishing",
               "posting"}
AfterPost == {"posted", "recorded"}
Owning == BeforePost \cup AfterPost
WorkerStates == Owning \cup
    {"idle", "received", "claiming", "handling", "failing", "ack", "nack"}

TypeOK ==
    /\ status \in [Runs -> Statuses \cup {"absent"}]
    /\ head \in [Runs -> Heads \cup {NoHead}]
    /\ stamp \in [Runs -> Nat]
    /\ age \in [Runs -> 0..MaxAge]
    /\ mrStored \in BOOLEAN
    /\ api \in [Requests -> ApiStates]
    /\ req \in [Requests -> Reqs \cup {NoReq}]
    /\ msg \in [Msgs -> {"none", "ready", "unacked", "acked", "dead"}]
    /\ returns \in [Msgs -> 0..DeliveryLimit]
    /\ pc \in [Workers -> WorkerStates]
    /\ job \in [Workers -> Msgs \cup {NoMsg}]
    /\ holds \in [Workers -> BOOLEAN]
    /\ copy \in [Workers -> Copies \cup {NoCopy}]
    /\ sweeping \in [Workers -> SUBSET Copies]
    /\ reviews \in [Runs -> Nat]
    /\ recorded \in SUBSET Runs

Init ==
    /\ status = [r \in Runs |-> "absent"]
    /\ head = [r \in Runs |-> NoHead]
    /\ stamp = [r \in Runs |-> 0]
    /\ age = [r \in Runs |-> 0]
    /\ mrStored = FALSE
    /\ api = [a \in Requests |-> "idle"]
    /\ req = [a \in Requests |-> NoReq]
    /\ msg = [m \in Msgs |-> "none"]
    /\ returns = [m \in Msgs |-> 0]
    /\ pc = [w \in Workers |-> "idle"]
    /\ job = [w \in Workers |-> NoMsg]
    /\ holds = [w \in Workers |-> FALSE]
    /\ copy = [w \in Workers |-> NoCopy]
    /\ sweeping = [w \in Workers |-> {}]
    /\ reviews = [r \in Runs |-> 0]
    /\ recorded = {}

----------------------------------------------------------------------------
(* Rows of review_runs. *)

\* find_active
ActiveOn(h) == {r \in Runs : status[r] \in Nonterminal /\ head[r] = h}

Limit(r) == IF status[r] = "queued" THEN QueuedLimit ELSE StaleLimit

\* Mutated: a run waiting in the queue is never stale.
StaleInWork(r) ==
    status[r] \in Nonterminal \ {"queued"} /\ age[r] > Limit(r)

\* find_stale
Stale(r) == status[r] \in Nonterminal /\ age[r] > Limit(r)

\* A write of the row with a new last_progress_at, which update() accepts.
WriteRow(r, s) ==
    /\ status' = [status EXCEPT ![r] = s]
    /\ stamp' = [stamp EXCEPT ![r] = @ + 1]
    /\ age' = [age EXCEPT ![r] = 0]
    /\ UNCHANGED <<head, mrStored>>

\* The run as a transaction reads it, to be compared later.
Read(r) == [run |-> r, status |-> status[r], stamp |-> stamp[r]]

\* update(previous=c): the row is still the one that was read.
Unchanged(c) == status[c.run] = c.status /\ stamp[c.run] = c.stamp

\* Time passes; only the age of a run in progress is ever looked at.
Tick ==
    /\ \E r \in Runs : status[r] \in Nonterminal /\ age[r] < MaxAge
    /\ age' = [r \in Runs |-> IF status[r] \in Nonterminal /\ age[r] < MaxAge
                              THEN age[r] + 1 ELSE age[r]]
    /\ UNCHANGED <<status, head, stamp, mrStored, apiVars, queueVars,
                   workerVars, sweeping, hostVars>>

----------------------------------------------------------------------------
(***************************************************************************)
(* start_review_run.  A "launch" is a webhook or a manual launch.  The     *)
(* webhook's duplicate rule is stricter than the manual one (it also stops *)
(* on a completed webhook run), so the rule here is the manual one: the    *)
(* commit has no active run.  A "retarget" is an edited event that changes *)
(* the target branch of a stored pull request.                             *)
(***************************************************************************)
AtApi(a, from, to) == api[a] = from /\ api' = [api EXCEPT ![a] = to]

Finish(a) == /\ api' = [api EXCEPT ![a] = "idle"]
             /\ req' = [req EXCEPT ![a] = NoReq]

Check(a, k, h) ==
    /\ AtApi(a, "idle", IF k = "retarget" THEN "supersede" ELSE "insert")
    /\ k = "retarget" => mrStored
    /\ k = "launch" => ActiveOn(h) = {}
    /\ req' = [req EXCEPT ![a] = [kind |-> k, head |-> h, run |-> NoRun,
                                  knowsMr |-> mrStored, retried |-> FALSE]]
    /\ UNCHANGED <<rowVars, queueVars, workerVars, sweeping, hostVars>>

\* supersede(): the run to cancel is read first and locked after.
SupersedeFind(a) ==
    /\ \/ /\ ActiveOn(req[a].head) = {}
          /\ AtApi(a, "supersede", "insert")
          /\ UNCHANGED req
       \/ \E r \in ActiveOn(req[a].head) :
             /\ AtApi(a, "supersede", "cancelling")
             /\ req' = [req EXCEPT ![a].run = r]
    /\ UNCHANGED <<rowVars, queueVars, workerVars, sweeping, hostVars>>

\* The cancellation has its own commit.  If the run has become terminal in
\* between, update() raises and the request ends with 5xx.
SupersedeWrite(a) ==
    /\ api[a] = "cancelling"
    /\ IF MayWrite(status[req[a].run], "cancelled")
       THEN /\ WriteRow(req[a].run, "cancelled")
            /\ api' = [api EXCEPT ![a] = "insert"]
            /\ req' = [req EXCEPT ![a].run = NoRun]
       ELSE Finish(a) /\ UNCHANGED rowVars
    /\ UNCHANGED <<queueVars, workerVars, sweeping, hostVars>>

\* Mutated: neither index is there.
ViolatesNothing(a) == FALSE

\* The two unique indexes that turn a commit into ActiveRunConflict.
ViolatesIndex(a) ==
    \/ ActiveOn(req[a].head) # {}
    \/ mrStored /\ ~req[a].knowsMr

\* upsert_merge_request and _create_review_run in one commit.
Insert(a, r) ==
    /\ api[a] = "insert"
    /\ ~ViolatesIndex(a)
    /\ status[r] = "absent"
    /\ status' = [status EXCEPT ![r] = "queued"]
    /\ head' = [head EXCEPT ![r] = req[a].head]
    /\ mrStored' = TRUE
    /\ api' = [api EXCEPT ![a] = IF req[a].kind = "retarget" THEN "block"
                                 ELSE "enqueue"]
    /\ req' = [req EXCEPT ![a].run = r]
    /\ UNCHANGED <<stamp, age, queueVars, workerVars, sweeping, hostVars>>

InsertConflict(a) ==
    /\ ViolatesIndex(a)
    /\ AtApi(a, "insert", "lookup")
    /\ UNCHANGED <<rowVars, req, queueVars, workerVars, sweeping, hostVars>>

\* _find_survivor: the winner's run ends the request, the winner's pull
\* request alone sends it back to insert once more, a second refusal without
\* a survivor is raised.
Lookup(a) ==
    /\ api[a] = "lookup"
    /\ IF ActiveOn(req[a].head) # {} \/ req[a].retried
       THEN Finish(a)
       ELSE /\ api' = [api EXCEPT ![a] = "insert"]
            /\ req' = [req EXCEPT ![a].knowsMr = TRUE, ![a].retried = TRUE]
    /\ UNCHANGED <<rowVars, queueVars, workerVars, sweeping, hostVars>>

\* settle_merge_gate before the job is queued; VcsError undoes the launch.
BlockHead(a) ==
    /\ \/ AtApi(a, "block", "enqueue")
       \/ AtApi(a, "block", "compensate")
    /\ UNCHANGED <<rowVars, req, queueVars, workerVars, sweeping, hostVars>>

\* RabbitMQJobQueue.enqueue: a broken connection leaves it unknown whether
\* a copy arrived, and one more is published.  The call succeeds
\* only with a confirmed copy.
Enqueue(a) ==
    /\ api[a] = "enqueue"
    /\ \E arrived \in SUBSET (1..PublishTries), confirmed \in BOOLEAN :
          /\ confirmed => arrived # {}
          /\ msg' = [m \in Msgs |-> IF RunOf(m) = req[a].run /\ m[2] \in arrived
                                    THEN "ready" ELSE msg[m]]
          /\ IF confirmed THEN Finish(a)
             ELSE /\ api' = [api EXCEPT ![a] = "compensate"]
                  /\ UNCHANGED req
    /\ UNCHANGED <<rowVars, returns, workerVars, sweeping, hostVars>>

\* _fail_unenqueued: a run that is not terminal by now becomes failed.
Compensate(a) ==
    /\ api[a] = "compensate"
    /\ Finish(a)
    /\ IF MayWrite(status[req[a].run], "failed")
       THEN WriteRow(req[a].run, "failed") ELSE UNCHANGED rowVars
    /\ UNCHANGED <<queueVars, workerVars, sweeping, hostVars>>

\* The process dies or the database refuses the next transaction.
ApiCrash(a) ==
    /\ api[a] # "idle"
    /\ Finish(a)
    /\ UNCHANGED <<rowVars, queueVars, workerVars, sweeping, hostVars>>

----------------------------------------------------------------------------
(* The queue and the consume loop (Worker.run). *)

At(w, from, to) == pc[w] = from /\ pc' = [pc EXCEPT ![w] = to]

RunAt(w) == RunOf(job[w])

\* The worker is back at its loop, or restarted.
BackToLoop(w) ==
    /\ pc' = [pc EXCEPT ![w] = "idle"]
    /\ job' = [job EXCEPT ![w] = NoMsg]
    /\ holds' = [holds EXCEPT ![w] = FALSE]
    /\ copy' = [copy EXCEPT ![w] = NoCopy]

\* Mutated: one return too many.
RequeueOnceMore(m) ==
    IF returns[m] <= DeliveryLimit
    THEN /\ msg' = [msg EXCEPT ![m] = "ready"]
         /\ returns' = [returns EXCEPT ![m] = @ + 1]
    ELSE /\ msg' = [msg EXCEPT ![m] = "dead"]
         /\ UNCHANGED returns

\* Mutated: a classic queue, which does not count returns.
RequeueAlways(m) ==
    /\ msg' = [msg EXCEPT ![m] = "ready"]
    /\ UNCHANGED returns

\* The broker takes an unacknowledged message back and counts it.
Requeue(m) ==
    IF returns[m] < DeliveryLimit
    THEN /\ msg' = [msg EXCEPT ![m] = "ready"]
         /\ returns' = [returns EXCEPT ![m] = @ + 1]
    ELSE /\ msg' = [msg EXCEPT ![m] = "dead"]
         /\ UNCHANGED returns

\* The broker hands over one message at a time (prefetch 1), also to a worker
\* that is sweeping.
Deliver(w, m) ==
    /\ msg[m] = "ready"
    /\ At(w, "idle", "received")
    /\ msg' = [msg EXCEPT ![m] = "unacked"]
    /\ job' = [job EXCEPT ![w] = m]
    /\ holds' = [holds EXCEPT ![w] = TRUE]
    /\ UNCHANGED <<rowVars, apiVars, returns, copy, sweeping, hostVars>>

\* _stop_consuming: nack with requeue, which the broker does not count.
GiveBack(w) ==
    /\ pc[w] = "received"
    /\ holds[w]
    /\ sweeping[w] = {}
    /\ msg' = [msg EXCEPT ![job[w]] = "ready"]
    /\ BackToLoop(w)
    /\ UNCHANGED <<rowVars, apiVars, returns, sweeping, hostVars>>

\* basic_ack after the handler returned, basic_nack without requeue after it
\* raised.  A worker that lost its consumer just leaves.
Settle(w) ==
    /\ pc[w] \in {"ack", "nack"}
    /\ msg' = IF ~holds[w] THEN msg
              ELSE [msg EXCEPT ![job[w]] =
                        IF pc[w] = "ack" THEN "acked" ELSE "dead"]
    /\ BackToLoop(w)
    /\ UNCHANGED <<rowVars, apiVars, returns, sweeping, hostVars>>

\* x-consumer-timeout: the message goes back while its worker is at work.
ConsumerTimeout(w) ==
    /\ holds[w]
    /\ Requeue(job[w])
    /\ holds' = [holds EXCEPT ![w] = FALSE]
    /\ UNCHANGED <<rowVars, apiVars, pc, job, copy, sweeping, hostVars>>

\* The process is killed: no handler of the pipeline runs.
Crash(w) ==
    /\ pc[w] # "idle"
    /\ IF holds[w] THEN Requeue(job[w]) ELSE UNCHANGED queueVars
    /\ BackToLoop(w)
    /\ sweeping' = [sweeping EXCEPT ![w] = {}]
    /\ UNCHANGED <<rowVars, apiVars, hostVars>>

----------------------------------------------------------------------------
(* run_review. *)

\* Only a queued run goes on; any other status acknowledges the message.
ReadRun(w) ==
    /\ pc[w] = "received"
    /\ sweeping[w] = {}
    /\ IF status[RunAt(w)] = "queued"
       THEN /\ At(w, "received", "claiming")
            /\ copy' = [copy EXCEPT ![w] = Read(RunAt(w))]
       ELSE /\ At(w, "received", "ack")
            /\ UNCHANGED copy
    /\ UNCHANGED <<rowVars, apiVars, queueVars, job, holds, sweeping, hostVars>>

\* Mutated: a run that cannot be read is taken for one that is gone.
ReadRunFailsQuietly(w) ==
    /\ sweeping[w] = {}
    /\ At(w, "received", "ack")
    /\ UNCHANGED <<rowVars, apiVars, queueVars, job, holds, copy, sweeping,
                   hostVars>>

\* The first read is outside the try: its failure goes straight to the DLQ.
ReadRunFails(w) ==
    /\ sweeping[w] = {}
    /\ At(w, "received", "nack")
    /\ UNCHANGED <<rowVars, apiVars, queueVars, job, holds, copy, sweeping,
                   hostVars>>

\* Mutated: the claim is a plain write, without previous=.
ClaimUnconditionally(w) ==
    /\ pc[w] = "claiming"
    /\ IF MayWrite(status[copy[w].run], "building_context")
       THEN /\ At(w, "claiming", "building")
            /\ WriteRow(copy[w].run, "building_context")
       ELSE At(w, "claiming", "ack") /\ UNCHANGED rowVars
    /\ copy' = [copy EXCEPT ![w] = NoCopy]
    /\ UNCHANGED <<apiVars, queueVars, job, holds, sweeping, hostVars>>

\* _claim
Claim(w) ==
    /\ pc[w] = "claiming"
    /\ IF Unchanged(copy[w])
       THEN /\ \E next \in {"building", "handling"} : At(w, "claiming", next)
            /\ WriteRow(copy[w].run, "building_context")
       ELSE At(w, "claiming", "ack") /\ UNCHANGED rowVars
    /\ copy' = [copy EXCEPT ![w] = NoCopy]
    /\ UNCHANGED <<apiVars, queueVars, job, holds, sweeping, hostVars>>

\* A write of the run without previous=: refused on a row that moved on.  The
\* reply to an applied commit may be lost, which raises as well.
Step(w, from, s, to) ==
    /\ pc[w] = from
    /\ IF MayWrite(status[RunAt(w)], s)
       THEN /\ \E next \in {to, "handling"} : At(w, from, next)
            /\ WriteRow(RunAt(w), s)
       ELSE At(w, from, "handling") /\ UNCHANGED rowVars
    /\ UNCHANGED <<apiVars, queueVars, job, holds, copy, sweeping, hostVars>>

StartAnalysing(w) == Step(w, "building", "analysing", "analysing")
RecordProgress(w) == Step(w, "analysing", "analysing", "verifying")
SaveFindings(w) == Step(w, "verifying", "analysing", "saving")
StartPublishing(w) == Step(w, "saving", "publishing", "publishing")
Complete(w) == Step(w, "recorded", "completed", "ack")

\* publish_review: the row is read again just before the POST.
CheckNotCancelled(w) ==
    /\ At(w, "publishing", IF status[RunAt(w)] = "cancelled" THEN "handling"
                           ELSE "posting")
    /\ UNCHANGED <<rowVars, apiVars, queueVars, job, holds, copy, sweeping,
                   hostVars>>

\* publish_pull_request_review: the review may be there and the answer lost.
PostReview(w) ==
    /\ \E next \in {"posted", "handling"} : At(w, "posting", next)
    /\ reviews' = [reviews EXCEPT ![RunAt(w)] = @ + 1]
    /\ UNCHANGED <<rowVars, apiVars, queueVars, job, holds, copy, sweeping,
                   recorded>>

\* _record_publication
RecordPublication(w) ==
    /\ \E next \in {"recorded", "handling"} : At(w, "posted", next)
    /\ recorded' = recorded \cup {RunAt(w)}
    /\ UNCHANGED <<rowVars, apiVars, queueVars, job, holds, copy, sweeping,
                   reviews>>

\* Any call of the pipeline raises before it has changed anything.
StepError(w) ==
    /\ pc[w] \in Owning \cup {"claiming"}
    /\ pc' = [pc EXCEPT ![w] = "handling"]
    /\ copy' = [copy EXCEPT ![w] = NoCopy]
    /\ UNCHANGED <<rowVars, apiVars, queueVars, job, holds, sweeping, hostVars>>

\* _was_cancelled: an unreadable row counts as not cancelled.
WasCancelled(w) ==
    /\ \/ At(w, "handling", "ack") /\ status[RunAt(w)] = "cancelled"
       \/ At(w, "handling", "failing")
    /\ UNCHANGED <<rowVars, apiVars, queueVars, job, holds, copy, sweeping,
                   hostVars>>

\* _mark_failed: best effort, from the row as it is now.
MarkFailed(w) ==
    /\ At(w, "failing", "nack")
    /\ \/ /\ MayWrite(status[RunAt(w)], "failed")
          /\ WriteRow(RunAt(w), "failed")
       \/ UNCHANGED rowVars
    /\ UNCHANGED <<apiVars, queueVars, job, holds, copy, sweeping, hostVars>>

----------------------------------------------------------------------------
(* sweep_stale_runs, called by the consume loop before it handles a message. *)

SweepRead(w) ==
    /\ pc[w] \in {"idle", "received"}
    /\ sweeping[w] = {}
    /\ \E r \in Runs : Stale(r)
    /\ sweeping' = [sweeping EXCEPT ![w] = {Read(r) : r \in {q \in Runs : Stale(q)}}]
    /\ UNCHANGED <<rowVars, apiVars, queueVars, workerVars, hostVars>>

\* Mutated: the sweep trusts what it read.
SweepWriteUnconditionally(w, c) ==
    /\ c \in sweeping[w]
    /\ IF MayWrite(status[c.run], "failed") THEN WriteRow(c.run, "failed")
       ELSE UNCHANGED rowVars
    /\ sweeping' = [sweeping EXCEPT ![w] = @ \ {c}]
    /\ UNCHANGED <<apiVars, queueVars, workerVars, hostVars>>

\* Each run in its own transaction, only if the row is the one that was read.
SweepWrite(w, c) ==
    /\ c \in sweeping[w]
    /\ IF Unchanged(c) THEN WriteRow(c.run, "failed") ELSE UNCHANGED rowVars
    /\ sweeping' = [sweeping EXCEPT ![w] = @ \ {c}]
    /\ UNCHANGED <<apiVars, queueVars, workerVars, hostVars>>

\* The pass fails or the process dies in it.
SweepAbort(w) ==
    /\ sweeping[w] # {}
    /\ sweeping' = [sweeping EXCEPT ![w] = {}]
    /\ UNCHANGED <<rowVars, apiVars, queueVars, workerVars, hostVars>>

----------------------------------------------------------------------------
ApiStep(a) ==
    \/ \E k \in {"launch", "retarget"}, h \in Heads : Check(a, k, h)
    \/ SupersedeFind(a) \/ SupersedeWrite(a)
    \/ \E r \in Runs : Insert(a, r)
    \/ InsertConflict(a) \/ Lookup(a) \/ BlockHead(a)
    \/ Enqueue(a) \/ Compensate(a) \/ ApiCrash(a)

\* What a worker that is neither killed nor stopped does with its message.
Handle(w) ==
    \/ ReadRun(w) \/ ReadRunFails(w) \/ Claim(w)
    \/ StartAnalysing(w) \/ RecordProgress(w) \/ SaveFindings(w)
    \/ StartPublishing(w) \/ CheckNotCancelled(w) \/ PostReview(w)
    \/ RecordPublication(w) \/ Complete(w)
    \/ StepError(w) \/ WasCancelled(w) \/ MarkFailed(w) \/ Settle(w)

WorkerStep(w) ==
    \/ \E m \in Msgs : Deliver(w, m)
    \/ GiveBack(w) \/ ConsumerTimeout(w) \/ Crash(w)
    \/ Handle(w)
    \/ SweepRead(w) \/ SweepAbort(w)
    \/ \E c \in sweeping[w] : SweepWrite(w, c)

Next == \/ Tick
        \/ \E a \in Requests : ApiStep(a)
        \/ \E w \in Workers : WorkerStep(w)

Spec == Init /\ [][Next]_vars

\* Liveness needs the workers to get on with a message they hold and the sweep
\* to get a turn and a database that answers.  The consume loop sweeps before
\* it hands over a message, so a sweep that is due is not overtaken for ever;
\* strong fairness says that neither restarts nor database failures repeat for
\* ever at the same place.  Nothing is assumed of the API, of the broker or of
\* crashes.
Fairness ==
    /\ WF_vars(Tick)
    /\ \A w \in Workers :
          /\ WF_vars(Handle(w))
          /\ SF_vars(ReadRun(w))
          /\ SF_vars(\E m \in Msgs : Deliver(w, m))
          /\ SF_vars(SweepRead(w))
          /\ SF_vars(\E c \in sweeping[w] : SweepWrite(w, c))

FairSpec == Spec /\ Fairness

----------------------------------------------------------------------------
(* Properties. *)

\* A run is worked on by at most one worker, whatever the queue delivers: a
\* job published twice, a message redelivered after a crash or taken back by
\* the consumer timeout from a worker that is still alive (_claim, run_review).
OneOwner == \A w1, w2 \in Workers :
    pc[w1] \in Owning /\ pc[w2] \in Owning /\ RunAt(w1) = RunAt(w2) => w1 = w2

\* A run never puts a second review on the pull request, across crashes after
\* the POST, lost answers, redeliveries and runs swept under a live worker.
OneReviewPerRun == \A r \in Runs : reviews[r] <= 1

\* A message is acknowledged only when its run needs no message any more: some
\* worker has claimed it or it is over.  A run still queued keeps its message
\* (or leaves it in the DLQ).
AckedRunWasTaken ==
    \A m \in Msgs : msg[m] = "acked" => status[RunOf(m)] # "queued"

\* The status and the progress of a run that is over stay as they are, whoever comes
\* late: a worker that lost it to the sweep or to a retarget, or a compensation.  (The
\* usage of a cancelled run is still added, record_cancelled_spend.)
TerminalIsFrozen ==
    [][\A r \in Runs : status[r] \in Terminal =>
          status'[r] = status[r] /\ stamp'[r] = stamp[r]]_vars

\* The sweep fails a run only if at the moment of the write it is past its
\* threshold, although it chose it by an earlier read: a run that its worker
\* has moved since then is spared.
SweepSparesProgress ==
    [][\A w \in Workers, r \in Runs :
          sweeping'[w] # sweeping[w] /\ status'[r] # status[r] => Stale(r)]_vars

\* Every accepted run comes to an end, whatever happens to its request, its
\* messages and its workers: a run left behind in any status is swept.
EveryRunFinishes ==
    \A r \in Runs : status[r] = "queued" ~> status[r] \in Terminal

\* Every published message leaves the queue, acknowledged or dead-lettered: a
\* message cannot kill workers for ever.
EveryMessageSettles ==
    \A m \in Msgs : msg[m] = "ready" ~> msg[m] \in {"acked", "dead"}

\* openspec/specs/review-pipeline/spec.md:658 says of a run cancelled by a change
\* of the target branch that it publishes no review (publish_review).
CancelledRunDoesNotPost ==
    [][\A r \in Runs : reviews'[r] # reviews[r] => status[r] # "cancelled"]_vars

\* The system implements the abstract promise.
Promise == INSTANCE RunPromise
KeepsPromise == Promise!Spec
=============================================================================
