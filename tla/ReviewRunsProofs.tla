------------------------- MODULE ReviewRunsProofs -------------------------
(***************************************************************************)
(* Proofs about ReviewRuns, for any number of runs, commits, requests and  *)
(* workers.                                                                *)
(***************************************************************************)
EXTENDS ReviewRunsInv, TLAPS

USE DEF rowVars, apiVars, queueVars, workerVars, hostVars

----------------------------------------------------------------------------
(* Type correctness. *)

LEMMA InitTypeInv == Init => TypeInv
  <1> SUFFICES ASSUME Init PROVE TypeInv
    OBVIOUS
  <1>1. /\ age \in [Runs -> 0..MaxAge]
        /\ returns \in [Msgs -> 0..DeliveryLimit]
    BY ThresholdsAssumption, BrokerAssumption DEF Init, MaxAge
  <1>2. /\ pc \in [Workers -> WorkerStates]
        /\ api \in [Requests -> ApiStates]
    BY DEF Init, WorkerStates, ApiStates
  <1>3. TypeOK
    BY <1>1, <1>2 DEF Init, TypeOK
  <1>4. JobHeld /\ RequestHeld
    BY DEF Init, JobHeld, RequestHeld
  <1>5. QED BY <1>3, <1>4 DEF TypeInv

\* What a write of a row leaves typed.
LEMMA WriteRowType ==
  ASSUME TypeOK, NEW r, NEW s \in Statuses, WriteRow(r, s)
  PROVE  /\ status' \in [Runs -> Statuses \cup {"absent"}]
         /\ head' \in [Runs -> Heads \cup {NoHead}]
         /\ stamp' \in [Runs -> Nat]
         /\ age' \in [Runs -> 0..MaxAge]
         /\ mrStored' \in BOOLEAN
  <1>1. 0 \in 0..MaxAge
    BY ThresholdsAssumption DEF MaxAge
  <1>2. CASE r \in Runs
    <2>1. stamp[r] + 1 \in Nat
      BY <1>2 DEF TypeOK
    <2>2. QED BY <1>1, <2>1 DEF TypeOK, WriteRow
  <1>3. CASE r \notin Runs
    <2>1. status' = status /\ stamp' = stamp /\ age' = age
      BY <1>3 DEF TypeOK, WriteRow
    <2>2. QED BY <2>1 DEF TypeOK, WriteRow
  <1>4. QED BY <1>2, <1>3

LEMMA RequeueType ==
  ASSUME TypeOK, NEW m, Requeue(m)
  PROVE  /\ msg' \in [Msgs -> {"none", "ready", "unacked", "acked", "dead"}]
         /\ returns' \in [Msgs -> 0..DeliveryLimit]
  BY BrokerAssumption DEF TypeOK, Requeue

LEMMA BackToLoopType ==
  ASSUME TypeInv, NEW w \in Workers, BackToLoop(w)
  PROVE  /\ pc' \in [Workers -> WorkerStates]
         /\ job' \in [Workers -> Msgs \cup {NoMsg}]
         /\ holds' \in [Workers -> BOOLEAN]
         /\ copy' \in [Workers -> Copies \cup {NoCopy}]
         /\ JobHeld'
  BY DEF TypeInv, TypeOK, JobHeld, BackToLoop, WorkerStates

\* A request that ends leaves the rest typed.
LEMMA FinishType ==
  ASSUME TypeInv, NEW a \in Requests, Finish(a)
  PROVE  /\ api' \in [Requests -> ApiStates]
         /\ req' \in [Requests -> Reqs \cup {NoReq}]
         /\ RequestHeld'
  BY DEF TypeInv, TypeOK, RequestHeld, Finish, ApiStates

\* Every move of a request keeps the types.
LEMMA ApiStepType ==
  ASSUME TypeInv, NEW a \in Requests, ApiStep(a)
  PROVE  TypeInv'
  <1> USE DEF TypeInv
  <1> DEFINE ApiTyped == /\ api' \in [Requests -> ApiStates]
                         /\ req' \in [Requests -> Reqs \cup {NoReq}]
                         /\ RequestHeld'
             RowsTyped == /\ status' \in [Runs -> Statuses \cup {"absent"}]
                          /\ head' \in [Runs -> Heads \cup {NoHead}]
                          /\ stamp' \in [Runs -> Nat]
                          /\ age' \in [Runs -> 0..MaxAge]
                          /\ mrStored' \in BOOLEAN
  <1>h. ASSUME api[a] # "idle"
        PROVE  /\ req[a] \in Reqs
               /\ \A r \in Runs \cup {NoRun} : [req[a] EXCEPT !.run = r] \in Reqs
    BY <1>h DEF RequestHeld, Reqs
  <1>1. ASSUME NEW k \in {"launch", "retarget"}, NEW h \in Heads, Check(a, k, h)
        PROVE  TypeInv'
    <2>1. [kind |-> k, head |-> h, run |-> NoRun, knowsMr |-> mrStored,
           retried |-> FALSE] \in Reqs
      BY DEF Reqs, TypeOK
    <2>2. ApiTyped
      BY <1>1, <2>1 DEF Check, AtApi, TypeOK, RequestHeld, ApiStates
    <2>3. QED BY <1>1, <2>2 DEF Check, TypeOK, JobHeld
  <1>2. CASE SupersedeFind(a)
    <2>1. CASE AtApi(a, "supersede", "insert") /\ UNCHANGED req
      <3>1. ApiTyped
        BY <2>1 DEF AtApi, TypeOK, RequestHeld, ApiStates
      <3>2. QED BY <1>2, <3>1 DEF SupersedeFind, TypeOK, JobHeld
    <2>2. ASSUME NEW r \in Runs, AtApi(a, "supersede", "cancelling"),
                 req' = [req EXCEPT ![a].run = r]
          PROVE  TypeInv'
      <3>1. [req[a] EXCEPT !.run = r] \in Reqs /\ req[a] \in Reqs
        BY <2>2, <1>h DEF AtApi
      <3>2. ApiTyped
        BY <2>2, <3>1 DEF AtApi, TypeOK, RequestHeld, ApiStates
      <3>3. QED BY <1>2, <3>2 DEF SupersedeFind, TypeOK, JobHeld
    <2>3. QED BY <1>2, <2>1, <2>2 DEF SupersedeFind, ActiveOn
  <1>3. CASE SupersedeWrite(a)
    <2>1. CASE MayWrite(status[req[a].run], "cancelled")
      <3>1. req[a] \in Reqs /\ [req[a] EXCEPT !.run = NoRun] \in Reqs
        BY <1>3, <1>h DEF SupersedeWrite
      <3>2. ApiTyped
        BY <1>3, <2>1, <3>1 DEF SupersedeWrite, TypeOK, RequestHeld, ApiStates
      <3>3. WriteRow(req[a].run, "cancelled") /\ "cancelled" \in Statuses
        BY <1>3, <2>1 DEF SupersedeWrite, Statuses, Terminal
      <3>4. RowsTyped
        BY <3>3, WriteRowType
      <3>5. QED BY <1>3, <3>2, <3>4 DEF SupersedeWrite, TypeOK, JobHeld
    <2>2. CASE ~MayWrite(status[req[a].run], "cancelled")
      <3>1. Finish(a) /\ UNCHANGED rowVars
        BY <1>3, <2>2 DEF SupersedeWrite
      <3>2. ApiTyped
        BY <3>1, FinishType
      <3>3. QED BY <1>3, <3>1, <3>2 DEF SupersedeWrite, TypeOK, JobHeld
    <2>3. QED BY <2>1, <2>2
  <1>4. ASSUME NEW r \in Runs, Insert(a, r)
        PROVE  TypeInv'
    <2>1. req[a] \in Reqs /\ [req[a] EXCEPT !.run = r] \in Reqs
      BY <1>4, <1>h DEF Insert
    <2>2. ApiTyped
      BY <1>4, <2>1 DEF Insert, TypeOK, RequestHeld, ApiStates
    <2>3. RowsTyped
      BY <1>4, <2>1 DEF Insert, TypeOK, Statuses, Nonterminal, Reqs
    <2>4. QED BY <1>4, <2>2, <2>3 DEF Insert, TypeOK, JobHeld
  <1>5. CASE InsertConflict(a)
    BY <1>5, <1>h DEF InsertConflict, AtApi, TypeOK, RequestHeld, JobHeld, ApiStates
  <1>6. CASE Lookup(a)
    <2>1. CASE Finish(a)
      BY <1>6, <2>1, FinishType DEF Lookup, TypeOK, JobHeld
    <2>2. CASE ~Finish(a)
      <3>1. req[a] \in Reqs
            /\ [req[a] EXCEPT !.knowsMr = TRUE, !.retried = TRUE] \in Reqs
        BY <1>6, <1>h DEF Lookup, Reqs
      <3>2. ApiTyped
        BY <1>6, <2>2, <3>1 DEF Lookup, TypeOK, RequestHeld, ApiStates
      <3>3. QED BY <1>6, <3>2 DEF Lookup, TypeOK, JobHeld
    <2>3. QED BY <2>1, <2>2
  <1>7. CASE BlockHead(a)
    BY <1>7, <1>h DEF BlockHead, AtApi, TypeOK, RequestHeld, JobHeld, ApiStates
  <1>8. CASE Enqueue(a)
    <2>1. msg' \in [Msgs -> {"none", "ready", "unacked", "acked", "dead"}]
      BY <1>8 DEF Enqueue, TypeOK
    <2>2. ApiTyped
      <3>1. CASE Finish(a)
        BY <3>1, FinishType
      <3>2. CASE api' = [api EXCEPT ![a] = "compensate"] /\ UNCHANGED req
        BY <1>8, <3>2, <1>h DEF Enqueue, TypeOK, RequestHeld, ApiStates
      <3>3. QED BY <1>8, <3>1, <3>2 DEF Enqueue
    <2>3. QED BY <1>8, <2>1, <2>2 DEF Enqueue, TypeOK, JobHeld
  <1>9. CASE Compensate(a)
    <2>1. ApiTyped
      BY <1>9, FinishType DEF Compensate
    <2>2. RowsTyped
      <3>1. CASE UNCHANGED rowVars
        BY <3>1 DEF TypeOK
      <3>2. CASE WriteRow(req[a].run, "failed")
        BY <3>2, WriteRowType DEF Statuses, Terminal
      <3>3. QED BY <1>9, <3>1, <3>2 DEF Compensate
    <2>3. QED BY <1>9, <2>1, <2>2 DEF Compensate, TypeOK, JobHeld
  <1>10. CASE ApiCrash(a)
    BY <1>10, FinishType DEF ApiCrash, TypeOK, JobHeld
  <1>11. QED BY <1>1, <1>2, <1>3, <1>4, <1>5, <1>6, <1>7, <1>8, <1>9, <1>10
             DEF ApiStep

\* A worker that goes on with the message it has.
LEMMA AtType ==
  ASSUME TypeInv, NEW w \in Workers, NEW from, NEW to \in WorkerStates \ {"idle"},
         from # "idle", At(w, from, to), UNCHANGED <<job, holds>>
  PROVE  pc' \in [Workers -> WorkerStates] /\ JobHeld'
  BY DEF TypeInv, TypeOK, JobHeld, At

\* A write in the pipeline, applied or refused.
LEMMA StepType ==
  ASSUME TypeInv, NEW w \in Workers, NEW from, from # "idle",
         NEW s \in Statuses, NEW to \in WorkerStates \ {"idle"}, Step(w, from, s, to)
  PROVE  TypeInv'
  <1> USE DEF TypeInv
  <1>1. PICK next \in {to, "handling"} : At(w, from, next)
    BY DEF Step
  <1>2. pc' \in [Workers -> WorkerStates] /\ JobHeld'
    BY <1>1, AtType DEF Step, WorkerStates
  <1>3. CASE WriteRow(RunAt(w), s)
    BY <1>2, <1>3, WriteRowType DEF Step, TypeOK, RequestHeld
  <1>4. CASE UNCHANGED rowVars
    BY <1>2, <1>4 DEF Step, TypeOK, RequestHeld
  <1>5. QED BY <1>3, <1>4 DEF Step

\* Every step of a handler keeps the types.
LEMMA HandleType ==
  ASSUME TypeInv, NEW w \in Workers, Handle(w)
  PROVE  TypeInv'
  <1> USE DEF TypeInv
  <1>s. /\ Owning \cup {"received", "claiming", "handling", "failing", "ack", "nack"}
           \subseteq WorkerStates \ {"idle"}
        /\ {"queued", "building_context", "analysing", "publishing", "completed",
            "failed", "cancelled"} \subseteq Statuses
    BY DEF WorkerStates, Owning, BeforePost, AfterPost, Statuses, Nonterminal, Terminal
  <1>o. BeforePost \cup AfterPost = Owning
    BY DEF Owning
  <1>1. CASE ReadRun(w)
    <2>1. pc' \in [Workers -> WorkerStates] /\ JobHeld'
      BY <1>1, <1>s, AtType DEF ReadRun
    <2>2. copy' \in [Workers -> Copies \cup {NoCopy}]
      <3>1. CASE status[RunAt(w)] = "queued"
        <4>1. Read(RunAt(w)) \in Copies
          BY <1>1, <3>1 DEF ReadRun, Read, Copies, TypeOK, JobHeld, RunAt, RunOf,
                            Msgs, Nonterminal
        <4>2. QED BY <1>1, <3>1, <4>1 DEF ReadRun, TypeOK
      <3>2. QED BY <1>1, <3>1 DEF ReadRun, TypeOK
    <2>3. QED BY <1>1, <2>1, <2>2 DEF ReadRun, TypeOK, RequestHeld
  <1>2. CASE ReadRunFails(w)
    BY <1>2, <1>s, AtType DEF ReadRunFails, TypeOK, RequestHeld
  <1>3. CASE Claim(w)
    <2>1. PICK next \in {"building", "handling", "ack"} : At(w, "claiming", next)
      BY <1>3 DEF Claim
    <2>2. pc' \in [Workers -> WorkerStates] /\ JobHeld'
      BY <1>3, <1>s, <1>o, <2>1, AtType DEF Claim, BeforePost
    <2>3. copy' \in [Workers -> Copies \cup {NoCopy}]
      BY <1>3 DEF Claim, TypeOK
    <2>4. CASE WriteRow(copy[w].run, "building_context")
      BY <1>3, <1>s, <2>2, <2>3, <2>4, WriteRowType DEF Claim, TypeOK, RequestHeld
    <2>5. CASE UNCHANGED rowVars
      BY <1>3, <2>2, <2>3, <2>5 DEF Claim, TypeOK, RequestHeld
    <2>6. QED BY <1>3, <2>4, <2>5 DEF Claim
  <1>4. CASE \/ StartAnalysing(w) \/ RecordProgress(w) \/ SaveFindings(w)
             \/ StartPublishing(w) \/ Complete(w)
    BY <1>4, <1>s, <1>o, StepType
       DEF StartAnalysing, RecordProgress, SaveFindings, StartPublishing, Complete,
           BeforePost
  <1>5. CASE CheckNotCancelled(w)
    BY <1>5, <1>s, <1>o, AtType
       DEF CheckNotCancelled, TypeOK, RequestHeld, BeforePost
  <1>6. CASE PostReview(w)
    <2>1. pc' \in [Workers -> WorkerStates] /\ JobHeld'
      BY <1>6, <1>s, <1>o, AtType DEF PostReview, AfterPost
    <2>2. reviews' \in [Runs -> Nat]
      BY <1>6 DEF PostReview, TypeOK, JobHeld, At, RunAt, RunOf, Msgs
    <2>3. QED BY <1>6, <2>1, <2>2 DEF PostReview, TypeOK, RequestHeld
  <1>7. CASE RecordPublication(w)
    <2>1. pc' \in [Workers -> WorkerStates] /\ JobHeld'
      BY <1>7, <1>s, <1>o, AtType DEF RecordPublication, AfterPost
    <2>2. recorded' \in SUBSET Runs
      BY <1>7 DEF RecordPublication, TypeOK, JobHeld, At, RunAt, RunOf, Msgs
    <2>3. QED BY <1>7, <2>1, <2>2 DEF RecordPublication, TypeOK, RequestHeld
  <1>8. CASE StepError(w)
    <2>1. pc' \in [Workers -> WorkerStates] /\ JobHeld'
      BY <1>8, <1>s DEF StepError, TypeOK, JobHeld
    <2>2. copy' \in [Workers -> Copies \cup {NoCopy}]
      BY <1>8 DEF StepError, TypeOK
    <2>3. QED BY <1>8, <2>1, <2>2 DEF StepError, TypeOK, RequestHeld
  <1>9. CASE WasCancelled(w)
    BY <1>9, <1>s, AtType DEF WasCancelled, TypeOK, RequestHeld
  <1>10. CASE MarkFailed(w)
    <2>1. pc' \in [Workers -> WorkerStates] /\ JobHeld'
      BY <1>10, <1>s, AtType DEF MarkFailed
    <2>2. CASE WriteRow(RunAt(w), "failed")
      BY <1>10, <1>s, <2>1, <2>2, WriteRowType DEF MarkFailed, TypeOK, RequestHeld
    <2>3. CASE UNCHANGED rowVars
      BY <1>10, <2>1, <2>3 DEF MarkFailed, TypeOK, RequestHeld
    <2>4. QED BY <1>10, <2>2, <2>3 DEF MarkFailed
  <1>11. CASE Settle(w)
    <2>1. msg' \in [Msgs -> {"none", "ready", "unacked", "acked", "dead"}]
      BY <1>11 DEF Settle, TypeOK
    <2>2. QED BY <1>11, <2>1, BackToLoopType DEF Settle, TypeOK, RequestHeld
  <1>12. QED BY <1>1, <1>2, <1>3, <1>4, <1>5, <1>6, <1>7, <1>8, <1>9, <1>10, <1>11
             DEF Handle

\* So does everything else that happens to a worker.
LEMMA WorkerStepType ==
  ASSUME TypeInv, NEW w \in Workers, WorkerStep(w)
  PROVE  TypeInv'
  <1> USE DEF TypeInv
  <1>1. ASSUME NEW m \in Msgs, Deliver(w, m)
        PROVE  TypeInv'
    <2>1. /\ pc' \in [Workers -> WorkerStates]
          /\ job' \in [Workers -> Msgs \cup {NoMsg}]
          /\ holds' \in [Workers -> BOOLEAN]
          /\ JobHeld'
      BY <1>1 DEF Deliver, At, TypeOK, JobHeld, WorkerStates
    <2>2. msg' \in [Msgs -> {"none", "ready", "unacked", "acked", "dead"}]
      BY <1>1 DEF Deliver, TypeOK
    <2>3. QED BY <1>1, <2>1, <2>2 DEF Deliver, TypeOK, RequestHeld
  <1>2. CASE GiveBack(w)
    <2>1. msg' \in [Msgs -> {"none", "ready", "unacked", "acked", "dead"}]
      BY <1>2 DEF GiveBack, TypeOK
    <2>2. QED BY <1>2, <2>1, BackToLoopType DEF GiveBack, TypeOK, RequestHeld
  <1>3. CASE ConsumerTimeout(w)
    <2>1. holds' \in [Workers -> BOOLEAN] /\ JobHeld'
      BY <1>3 DEF ConsumerTimeout, TypeOK, JobHeld
    <2>2. QED BY <1>3, <2>1, RequeueType DEF ConsumerTimeout, TypeOK, RequestHeld
  <1>4. CASE Crash(w)
    <2>1. /\ msg' \in [Msgs -> {"none", "ready", "unacked", "acked", "dead"}]
          /\ returns' \in [Msgs -> 0..DeliveryLimit]
      BY <1>4, RequeueType DEF Crash, TypeOK
    <2>2. QED BY <1>4, <2>1, BackToLoopType DEF Crash, TypeOK, RequestHeld
  <1>5. CASE Handle(w)
    BY <1>5, HandleType
  <1>6. CASE SweepRead(w)
    <2>1. \A r \in Runs : Stale(r) => Read(r) \in Copies
      BY DEF Stale, Read, Copies, TypeOK
    <2>2. sweeping' \in [Workers -> SUBSET Copies]
      BY <1>6, <2>1 DEF SweepRead, TypeOK
    <2>3. QED BY <1>6, <2>2 DEF SweepRead, TypeOK, RequestHeld, JobHeld
  <1>7. CASE SweepAbort(w)
    BY <1>7 DEF SweepAbort, TypeOK, RequestHeld, JobHeld
  <1>8. ASSUME NEW c \in sweeping[w], SweepWrite(w, c)
        PROVE  TypeInv'
    <2>1. sweeping' \in [Workers -> SUBSET Copies]
      BY <1>8 DEF SweepWrite, TypeOK
    <2>2. CASE WriteRow(c.run, "failed")
      <3>1. "failed" \in Statuses
        BY DEF Statuses, Terminal
      <3>2. QED BY <1>8, <2>1, <2>2, <3>1, WriteRowType
                   DEF SweepWrite, TypeOK, RequestHeld, JobHeld
    <2>3. CASE UNCHANGED rowVars
      BY <1>8, <2>1, <2>3 DEF SweepWrite, TypeOK, RequestHeld, JobHeld
    <2>4. QED BY <1>8, <2>2, <2>3 DEF SweepWrite
  <1>9. QED BY <1>1, <1>2, <1>3, <1>4, <1>5, <1>6, <1>7, <1>8 DEF WorkerStep

LEMMA TickType ==
  ASSUME TypeInv, Tick
  PROVE  TypeInv'
  <1>1. age' \in [Runs -> 0..MaxAge]
    BY ThresholdsAssumption DEF TypeInv, TypeOK, Tick, MaxAge
  <1>2. QED BY <1>1 DEF Tick, TypeInv, TypeOK, JobHeld, RequestHeld

LEMMA TypeInvStep == TypeInv /\ [Next]_vars => TypeInv'
  <1> SUFFICES ASSUME TypeInv, [Next]_vars PROVE TypeInv'
    OBVIOUS
  <1>1. CASE UNCHANGED vars
    BY <1>1 DEF vars, TypeInv, TypeOK, JobHeld, RequestHeld
  <1>2. QED BY <1>1, ApiStepType, WorkerStepType, TickType DEF Next

\* Every variable keeps to its type.
THEOREM TypeCorrect == Spec => []TypeOK
  <1>1. Spec => []TypeInv
    BY InitTypeInv, TypeInvStep, PTL DEF Spec
  <1>2. TypeInv => TypeOK
    BY DEF TypeInv
  <1>3. QED BY <1>1, <1>2, PTL

----------------------------------------------------------------------------
(* Who writes rows, and what the writes keep. *)

LEMMA MayWriteFacts ==
  ASSUME NEW stored, NEW new \in Statuses, new # "queued", MayWrite(stored, new)
  PROVE  stored \in Nonterminal
  BY DEF MayWrite, Allowed, Statuses

\* The five ways a step treats the rows.
RowsMove ==
    \/ UNCHANGED <<status, stamp>> /\ \A r \in Runs : age'[r] >= age[r]
    \/ \E r \in Runs : /\ status[r] = "absent"
                       /\ status' = [status EXCEPT ![r] = "queued"]
                       /\ UNCHANGED <<stamp, age>>
    \/ \E r \in Runs, s \in GivenUp : status[r] \in Nonterminal /\ WriteRow(r, s)
    \/ \E w \in Workers : /\ pc[w] = "claiming" /\ status[RunAt(w)] = "queued"
                          /\ WriteRow(RunAt(w), "building_context")
                          /\ pc'[w] \in Owning => pc'[w] = "building"
    \/ \E w \in Workers, s \in {"analysing", "publishing", "completed"} :
          /\ pc[w] \in Owning /\ status[RunAt(w)] \in Nonterminal
          /\ WriteRow(RunAt(w), s)
          /\ pc'[w] \in Owning => StageOf(pc'[w]) = s

LEMMA ApiRowsMove ==
  ASSUME IInv, NEW a \in Requests, ApiStep(a)
  PROVE  RowsMove
  <1>k. UNCHANGED rowVars => RowsMove
    BY DEF RowsMove, IInv, TypeInv, TypeOK
  <1>g. GivenUp \subseteq Statuses \ {"queued"}
    BY DEF GivenUp, Statuses, Terminal
  <1>1. CASE SupersedeWrite(a)
    <2>1. req[a].run \in Runs
      BY <1>1 DEF SupersedeWrite, IInv, RunsInserted
    <2>2. QED BY <1>1, <1>k, <1>g, <2>1, MayWriteFacts DEF SupersedeWrite, RowsMove, GivenUp
  <1>2. ASSUME NEW r \in Runs, Insert(a, r)
        PROVE  RowsMove
    BY <1>2 DEF Insert, RowsMove
  <1>3. CASE Compensate(a)
    <2>1. req[a].run \in Runs
      BY <1>3 DEF Compensate, IInv, RunsInserted
    <2>2. QED BY <1>3, <1>k, <1>g, <2>1, MayWriteFacts DEF Compensate, RowsMove, GivenUp
  <1>4. QED BY <1>k, <1>1, <1>2, <1>3
            DEF ApiStep, Check, SupersedeFind, InsertConflict, Lookup, BlockHead,
                Enqueue, ApiCrash

LEMMA RunAtRuns ==
  ASSUME TypeInv, NEW w \in Workers, pc[w] # "idle"
  PROVE  RunAt(w) \in Runs
  BY DEF TypeInv, JobHeld, RunAt, RunOf, Msgs

LEMMA StepRowsMove ==
  ASSUME IInv, NEW w \in Workers, NEW from \in Owning,
         NEW s \in {"analysing", "publishing", "completed"}, NEW to, Step(w, from, s, to),
         to \in Owning => StageOf(to) = s
  PROVE  RowsMove
  <1>1. s \in Statuses /\ s # "queued"
    BY DEF Statuses, Nonterminal, Terminal
  <1>2. CASE UNCHANGED rowVars
    BY <1>2 DEF RowsMove, IInv, TypeInv, TypeOK
  <1>3. CASE MayWrite(status[RunAt(w)], s) /\ WriteRow(RunAt(w), s)
    <2>1. PICK next \in {to, "handling"} : At(w, from, next)
      BY <1>3 DEF Step
    <2>2. pc'[w] = next
      BY <2>1 DEF At, IInv, TypeInv, TypeOK
    <2>3. "handling" \notin Owning
      BY DEF Owning, BeforePost, AfterPost
    <2>4. status[RunAt(w)] \in Nonterminal
      BY <1>1, <1>3, MayWriteFacts
    <2>5. QED BY <1>3, <2>1, <2>2, <2>3, <2>4 DEF At, RowsMove
  <1>4. QED BY <1>2, <1>3 DEF Step

LEMMA WorkerRowsMove ==
  ASSUME IInv, NEW w \in Workers, WorkerStep(w)
  PROVE  RowsMove
  <1>k. UNCHANGED rowVars => RowsMove
    BY DEF RowsMove, IInv, TypeInv, TypeOK
  <1>1. CASE Claim(w)
    <2>1. CASE Unchanged(copy[w])
      <3>1. PICK next \in {"building", "handling"} : At(w, "claiming", next)
        BY <1>1, <2>1 DEF Claim
      <3>2. pc'[w] = next /\ "handling" \notin Owning
        BY <3>1 DEF At, IInv, TypeInv, TypeOK, Owning, BeforePost, AfterPost
      <3>3. QED BY <1>1, <2>1, <3>2 DEF Claim, Unchanged, RowsMove, IInv, ClaimCopy
    <2>2. QED BY <1>1, <1>k, <2>1 DEF Claim
  <1>2. CASE \/ StartAnalysing(w) \/ RecordProgress(w) \/ SaveFindings(w)
             \/ StartPublishing(w) \/ Complete(w)
    BY <1>2, StepRowsMove
       DEF StartAnalysing, RecordProgress, SaveFindings, StartPublishing, Complete,
           Owning, BeforePost, AfterPost, StageOf
  <1>3. CASE MarkFailed(w)
    <2>1. RunAt(w) \in Runs
      BY <1>3, RunAtRuns DEF MarkFailed, At, IInv
    <2>2. "failed" \in GivenUp /\ "failed" \in Statuses
      BY DEF GivenUp, Statuses, Terminal
    <2>3. QED BY <1>3, <1>k, <2>1, <2>2, MayWriteFacts DEF MarkFailed, RowsMove
  <1>4. ASSUME NEW c \in sweeping[w], SweepWrite(w, c)
        PROVE  RowsMove
    <2>1. c.run \in Runs /\ c.status \in Nonterminal
      BY DEF IInv, TypeInv, TypeOK, Copies
    <2>2. QED BY <1>4, <1>k, <2>1 DEF SweepWrite, RowsMove, Unchanged, GivenUp
  <1>5. QED BY <1>k, <1>1, <1>2, <1>3, <1>4
            DEF WorkerStep, Handle, Deliver, GiveBack, ConsumerTimeout, Crash,
                ReadRun, ReadRunFails, CheckNotCancelled, PostReview,
                RecordPublication, StepError, WasCancelled, Settle,
                SweepRead, SweepAbort

LEMMA NextRowsMove ==
  ASSUME IInv, [Next]_vars
  PROVE  RowsMove
  <1>1. CASE Tick
    BY <1>1 DEF Tick, RowsMove, IInv, TypeInv, TypeOK, MaxAge
  <1>2. CASE UNCHANGED vars
    BY <1>2 DEF vars, RowsMove, IInv, TypeInv, TypeOK
  <1>3. QED BY <1>1, <1>2, ApiRowsMove, WorkerRowsMove DEF Next

\* What all five ways have in common.
RowKept(r) ==
    /\ Present(r) => status'[r] # "absent"
    /\ Taken(r) => status'[r] \notin {"absent", "queued"}
    /\ stamp'[r] >= stamp[r]
    /\ status'[r] \in {"absent", "queued"} => stamp'[r] = stamp[r]
    /\ Present(r) /\ stamp'[r] = stamp[r] =>
           status'[r] = status[r] /\ age'[r] >= age[r]
    /\ status[r] \in Terminal => status'[r] = status[r] /\ stamp'[r] = stamp[r]

LEMMA WriteRowKept ==
  ASSUME IInv, NEW q \in Runs, status[q] \in Nonterminal,
         NEW s \in Statuses \ {"queued"}, WriteRow(q, s), NEW r \in Runs
  PROVE  RowKept(r)
  <1>1. /\ status \in [Runs -> Statuses \cup {"absent"}]
        /\ stamp \in [Runs -> Nat] /\ age \in [Runs -> 0..MaxAge]
    BY DEF IInv, TypeInv, TypeOK
  <1>2. "absent" \notin Statuses
    BY DEF Statuses, Nonterminal, Terminal
  <1>3. CASE r = q
    <2>1. status'[r] = s /\ stamp'[r] = stamp[r] + 1
      BY <1>1, <1>3 DEF WriteRow
    <2>2. status[r] \notin Terminal
      BY <1>3 DEF Nonterminal, Terminal
    <2>3. QED BY <1>1, <1>2, <2>1, <2>2 DEF RowKept
  <1>4. CASE r # q
    <2>1. status'[r] = status[r] /\ stamp'[r] = stamp[r] /\ age'[r] = age[r]
      BY <1>1, <1>4 DEF WriteRow
    <2>2. stamp[r] \in Nat /\ age[r] \in Nat
      BY <1>1, ThresholdsAssumption DEF MaxAge
    <2>3. QED BY <2>1, <2>2 DEF RowKept, Present, Taken
  <1>5. QED BY <1>3, <1>4

LEMMA RowsKept ==
  ASSUME IInv, RowsMove, NEW r \in Runs
  PROVE  RowKept(r)
  <1>1. /\ stamp[r] \in Nat /\ age[r] \in Nat
        /\ status \in [Runs -> Statuses \cup {"absent"}]
    BY ThresholdsAssumption DEF IInv, TypeInv, TypeOK, MaxAge
  <1>2. CASE UNCHANGED <<status, stamp>> /\ \A q \in Runs : age'[q] >= age[q]
    BY <1>1, <1>2 DEF RowKept, Present, Taken
  <1>3. ASSUME NEW q \in Runs, status[q] = "absent",
               status' = [status EXCEPT ![q] = "queued"], UNCHANGED <<stamp, age>>
        PROVE  RowKept(r)
    BY <1>1, <1>3 DEF RowKept, Present, Taken, Terminal
  <1>4. ASSUME NEW q \in Runs, NEW s \in GivenUp, status[q] \in Nonterminal,
               WriteRow(q, s)
        PROVE  RowKept(r)
    BY <1>4, WriteRowKept DEF GivenUp, Statuses, Terminal
  <1>5. ASSUME NEW w \in Workers, pc[w] \in Owning \cup {"claiming"},
               status[RunAt(w)] \in Nonterminal,
               NEW s \in {"building_context", "analysing", "publishing", "completed"},
               WriteRow(RunAt(w), s)
        PROVE  RowKept(r)
    <2>1. RunAt(w) \in Runs
      BY <1>5, RunAtRuns DEF IInv, Owning, BeforePost, AfterPost
    <2>2. s \in Statuses \ {"queued"}
      BY DEF Statuses, Nonterminal, Terminal
    <2>3. QED BY <1>5, <2>1, <2>2, WriteRowKept
  <1>6. QED BY <1>2, <1>3, <1>4, <1>5 DEF RowsMove, Nonterminal

----------------------------------------------------------------------------
(* What a step of one process leaves alone, and where its counter may go. *)

LEMMA ApiFrame ==
  ASSUME NEW a \in Requests, ApiStep(a)
  PROVE  UNCHANGED <<returns, workerVars, sweeping, hostVars>>
  BY DEF ApiStep, Check, SupersedeFind, SupersedeWrite, Insert, InsertConflict,
         Lookup, BlockHead, Enqueue, Compensate, ApiCrash

LEMMA WorkerFrame ==
  ASSUME TypeInv, NEW w \in Workers, WorkerStep(w), NEW v \in Workers \ {w}
  PROVE  /\ UNCHANGED apiVars
         /\ pc'[v] = pc[v] /\ job'[v] = job[v] /\ copy'[v] = copy[v]
         /\ sweeping'[v] = sweeping[v]
  <1> USE DEF TypeInv, TypeOK
  <1>1. CASE Handle(w)
    BY <1>1 DEF Handle, ReadRun, ReadRunFails, Claim, Step, StartAnalysing,
                RecordProgress, SaveFindings, StartPublishing, Complete,
                CheckNotCancelled, PostReview, RecordPublication, StepError,
                WasCancelled, MarkFailed, Settle, BackToLoop, At
  <1>2. CASE ~Handle(w)
    BY <1>2 DEF WorkerStep, Deliver, GiveBack, ConsumerTimeout, Crash, BackToLoop,
                SweepRead, SweepAbort, SweepWrite, At
  <1>3. QED BY <1>1, <1>2

\* How a worker gets a run and how it gets on with it.
LEMMA WorkerMoves ==
  ASSUME TypeInv, NEW w \in Workers, WorkerStep(w)
  PROVE  /\ pc'[w] # "idle" /\ (job'[w] # job[w] \/ pc[w] = "idle") =>
                /\ pc[w] = "idle" /\ pc'[w] = "received"
                /\ \E m \in Msgs : msg[m] = "ready" /\ job'[w] = m
         /\ pc'[w] = "claiming" =>
                \/ pc[w] = "claiming" /\ copy'[w] = copy[w]
                \/ /\ status[RunAt(w)] = "queued" /\ pc[w] # "idle"
                   /\ copy'[w] = Read(RunAt(w))
         /\ pc'[w] \in Owning /\ pc[w] \notin Owning => Claim(w)
         /\ pc'[w] \in BeforePost /\ pc[w] \notin BeforePost => Claim(w)
  <1> USE DEF TypeInv, TypeOK, Owning, BeforePost, AfterPost
  <1>1. CASE Handle(w) /\ ~Claim(w)
    BY <1>1 DEF Handle, ReadRun, ReadRunFails, Step, StartAnalysing,
                RecordProgress, SaveFindings, StartPublishing, Complete,
                CheckNotCancelled, PostReview, RecordPublication, StepError,
                WasCancelled, MarkFailed, Settle, BackToLoop, At
  <1>2. CASE Claim(w)
    BY <1>2 DEF Claim, At
  <1>3. ASSUME NEW m \in Msgs, Deliver(w, m)
        PROVE  /\ pc[w] = "idle" /\ pc'[w] = "received"
               /\ msg[m] = "ready" /\ job'[w] = m
    BY <1>3 DEF Deliver, At
  <1>4. CASE GiveBack(w) \/ Crash(w)
    BY <1>4 DEF GiveBack, Crash, BackToLoop
  <1>5. CASE \/ ConsumerTimeout(w) \/ SweepRead(w) \/ SweepAbort(w)
             \/ \E c \in sweeping[w] : SweepWrite(w, c)
    BY <1>5 DEF ConsumerTimeout, SweepRead, SweepAbort, SweepWrite
  <1>6. QED BY <1>1, <1>2, <1>3, <1>4, <1>5 DEF WorkerStep

----------------------------------------------------------------------------
(* The parts of the invariant, one after the other. *)

LEMMA RunsInsertedStep ==
  ASSUME IInv, [Next]_vars
  PROVE  RunsInserted'
  <1>t. TypeInv /\ TypeInv'
    BY TypeInvStep DEF IInv
  <1>k. \A r \in Runs : Present(r) => Present(r)'
    BY NextRowsMove, RowsKept DEF RowKept, Present
  <1>m. \A m \in Msgs : RunOf(m) \in Runs
    BY DEF Msgs, RunOf
  <1> DEFINE Requests1 == \A a \in Requests :
                 api[a] \in {"cancelling", "block", "enqueue", "compensate"} =>
                     req[a].run \in Runs /\ Present(req[a].run)
             Msgs1 == \A m \in Msgs : msg[m] # "none" => Present(RunOf(m))
             Workers1 == \A w \in Workers : pc[w] # "idle" => Present(RunAt(w))
  <1>i. Requests1 /\ Msgs1 /\ Workers1
    BY DEF IInv, RunsInserted
  <1>1. CASE UNCHANGED vars
    BY <1>1, <1>i DEF vars, RunsInserted, Present, RunAt
  <1>2. CASE Tick
    BY <1>2, <1>i DEF Tick, RunsInserted, Present, RunAt
  <1>3. ASSUME NEW a \in Requests, ApiStep(a)
        PROVE  RunsInserted'
    <2>1. Workers1'
      BY <1>3, <1>i, <1>k, <1>t, ApiFrame, RunAtRuns DEF RunAt
    <2>2. Msgs1'
      <3>1. CASE Enqueue(a)
        BY <3>1, <1>i, <1>m DEF Enqueue, Present, TypeInv, TypeOK
      <3>2. CASE ~Enqueue(a)
        <4>1. UNCHANGED msg
          BY <1>3, <3>2 DEF ApiStep, Check, SupersedeFind, SupersedeWrite, Insert,
                 InsertConflict, Lookup, BlockHead, Compensate, ApiCrash
        <4>2. QED BY <4>1, <1>i, <1>m, <1>k
      <3>3. QED BY <3>1, <3>2
    <2>3. ASSUME NEW b \in Requests,
                 api'[b] \in {"cancelling", "block", "enqueue", "compensate"}
          PROVE  req'[b].run \in Runs /\ status'[req'[b].run] # "absent"
      <3>1. CASE a # b
        <4>1. api'[b] = api[b] /\ req'[b] = req[b]
          BY <1>3, <1>t, <3>1
             DEF ApiStep, Check, SupersedeFind, SupersedeWrite, Insert,
                 InsertConflict, Lookup, BlockHead, Enqueue, Compensate, ApiCrash,
                 AtApi, Finish, TypeInv, TypeOK
        <4>2. QED BY <4>1, <2>3, <1>i, <1>k DEF Present
      <3>2. CASE a = b
        <4>1. ASSUME NEW r \in Runs, Insert(a, r)
              PROVE  req'[a].run = r /\ status'[r] = "queued"
          BY <4>1, <1>t DEF Insert, TypeInv, TypeOK, RequestHeld, Reqs
        <4>2. CASE \E r \in Runs : Insert(a, r)
          BY <3>2, <4>1, <4>2
        <4>3. CASE SupersedeFind(a)
          <5>1. req[a] \in Reqs
            BY <4>3, <1>t DEF SupersedeFind, AtApi, TypeInv, RequestHeld
          <5>2. PICK r \in ActiveOn(req[a].head) : req' = [req EXCEPT ![a].run = r]
            BY <4>3, <3>2, <2>3, <1>t DEF SupersedeFind, AtApi, TypeInv, TypeOK
          <5>3. req'[a].run = r /\ r \in Runs /\ status[r] # "absent"
            BY <5>1, <5>2, <1>t DEF TypeInv, TypeOK, Reqs, ActiveOn, Nonterminal
          <5>4. QED BY <5>3, <4>3, <3>2 DEF SupersedeFind, Present
        <4>4. CASE BlockHead(a) \/ Enqueue(a)
          <5>1. /\ api[a] \in {"block", "enqueue"} /\ req'[a] = req[a]
                /\ UNCHANGED rowVars
            BY <4>4, <3>2, <2>3, <1>t DEF BlockHead, Enqueue, AtApi, Finish, TypeInv, TypeOK
          <5>2. QED BY <5>1, <3>2, <1>i DEF Present, rowVars
        <4>5. CASE \/ \E k \in {"launch", "retarget"}, h \in Heads : Check(a, k, h)
                   \/ SupersedeWrite(a) \/ InsertConflict(a) \/ Lookup(a)
                   \/ Compensate(a) \/ ApiCrash(a)
          BY <4>5, <3>2, <2>3, <1>t
             DEF Check, SupersedeWrite, InsertConflict, Lookup, Compensate, ApiCrash,
                 AtApi, Finish, TypeInv, TypeOK
        <4>6. QED BY <1>3, <4>2, <4>3, <4>4, <4>5 DEF ApiStep
      <3>3. QED BY <3>1, <3>2
    <2>4. QED BY <2>1, <2>2, <2>3 DEF RunsInserted, Present
  <1>4. ASSUME NEW w \in Workers, WorkerStep(w)
        PROVE  RunsInserted'
    <2>1. Requests1'
      <3>1. UNCHANGED apiVars
        BY <1>4 DEF WorkerStep, Handle, Deliver, GiveBack, ConsumerTimeout, Crash,
                ReadRun, ReadRunFails, Claim, Step, StartAnalysing, RecordProgress,
                SaveFindings, StartPublishing, Complete, CheckNotCancelled, PostReview,
                RecordPublication, StepError, WasCancelled, MarkFailed, Settle,
                SweepRead, SweepAbort, SweepWrite
      <3>2. QED BY <3>1, <1>i, <1>k
    <2>2. Msgs1'
      <3>1. ASSUME NEW m \in Msgs, msg'[m] # "none"
            PROVE  msg[m] # "none" \/ (pc[w] # "idle" /\ m = job[w])
        BY <3>1, <1>4, <1>t
           DEF WorkerStep, Handle, Deliver, GiveBack, ConsumerTimeout, Crash, Requeue,
               ReadRun, ReadRunFails, Claim, Step, StartAnalysing, RecordProgress,
               SaveFindings, StartPublishing, Complete, CheckNotCancelled, PostReview,
               RecordPublication, StepError, WasCancelled, MarkFailed, Settle,
               SweepRead, SweepAbort, SweepWrite, TypeInv, TypeOK, JobHeld
      <3>2. QED BY <3>1, <1>i, <1>k, <1>m DEF RunAt
    <2>3. ASSUME NEW v \in Workers, pc'[v] # "idle"
          PROVE  Present(RunAt(v))'
      <3>1. CASE v # w
        <4>1. pc[v] # "idle" /\ job'[v] = job[v]
          BY <3>1, <2>3, <1>4, <1>t, WorkerFrame
        <4>2. QED BY <4>1, <1>i, <1>k, <1>t, RunAtRuns DEF RunAt
      <3>2. CASE v = w
        <4>1. CASE pc[w] # "idle" /\ job'[w] = job[w]
          BY <3>2, <4>1, <1>i, <1>k, <1>t, RunAtRuns DEF RunAt
        <4>2. CASE \E m \in Msgs : msg[m] = "ready" /\ job'[w] = m
          BY <3>2, <4>2, <1>i, <1>k, <1>m DEF RunAt
        <4>3. QED BY <3>2, <4>1, <4>2, <2>3, <1>4, <1>t, WorkerMoves
      <3>3. QED BY <3>1, <3>2
    <2>4. QED BY <2>1, <2>2, <2>3 DEF RunsInserted
  <1>5. QED BY <1>1, <1>2, <1>3, <1>4 DEF Next

\* A step of the system, seen by the workers: at most one of them moves.
LEMMA NextWorkers ==
  ASSUME TypeInv, [Next]_vars
  PROVE  \/ UNCHANGED <<workerVars, sweeping, hostVars>>
         \/ \E w \in Workers : WorkerStep(w)
  BY ApiFrame DEF Next, Tick, vars

LEMMA ClaimCopyStep ==
  ASSUME IInv, [Next]_vars
  PROVE  ClaimCopy'
  <1>t. TypeInv /\ TypeInv'
    BY TypeInvStep DEF IInv
  <1>1. \A r \in Runs : status'[r] \in {"absent", "queued"} => stamp'[r] = 0
    BY NextRowsMove, RowsKept DEF RowKept, Taken, IInv, ClaimCopy
  <1>2. ASSUME NEW v \in Workers, pc'[v] = "claiming"
        PROVE  /\ copy'[v] \in Copies
               /\ copy'[v].run = RunOf(job'[v]) /\ copy'[v].status = "queued"
               /\ copy'[v].stamp = 0
    <2>1. CASE pc[v] = "claiming" /\ job'[v] = job[v] /\ copy'[v] = copy[v]
      BY <2>1 DEF IInv, ClaimCopy, RunAt
    <2>2. CASE /\ status[RunAt(v)] = "queued" /\ pc[v] # "idle"
               /\ copy'[v] = Read(RunAt(v)) /\ job'[v] = job[v]
      <3>1. RunAt(v) \in Runs /\ stamp[RunAt(v)] = 0
        BY <2>2, <1>t, RunAtRuns DEF IInv, ClaimCopy, Taken
      <3>2. QED BY <2>2, <3>1 DEF Read, Copies, Nonterminal, RunAt
    <2>3. QED BY <1>2, <1>t, <2>1, <2>2, NextWorkers, WorkerFrame, WorkerMoves
  <1>3. QED BY <1>1, <1>2 DEF ClaimCopy, Taken, RunAt

\* Two workers that own runs after a step owned them before it, or one of them
\* has just claimed a run that was queued and so had no owner.
LEMMA OneOwnerStep ==
  ASSUME IInv, [Next]_vars
  PROVE  OneOwner'
  <1>t. TypeInv
    BY DEF IInv
  <1>o. "idle" \notin Owning /\ "claiming" \notin Owning
    BY DEF Owning, BeforePost, AfterPost
  <1>1. ASSUME NEW w \in Workers, NEW v \in Workers, v # w, WorkerStep(w),
               pc'[w] \in Owning, pc'[v] \in Owning,
               RunOf(job'[w]) = RunOf(job'[v])
        PROVE  FALSE
    <2>1. pc[v] \in Owning /\ job'[v] = job[v]
      BY <1>1, <1>t, WorkerFrame
    <2>2. job'[w] = job[w]
      BY <1>1, <1>t, <1>o, WorkerMoves DEF Owning, BeforePost, AfterPost
    <2>3. pc[w] \notin Owning
      BY <1>1, <2>1, <2>2 DEF IInv, OneOwner, RunAt
    <2>4. Claim(w)
      BY <1>1, <1>t, <2>3, WorkerMoves
    <2>5. status[RunAt(w)] = "queued"
      BY <1>1, <2>4, <1>o DEF Claim, At, Unchanged, IInv, ClaimCopy, TypeInv, TypeOK,
                        Owning, BeforePost, AfterPost
    <2>6. QED BY <1>1, <2>1, <2>2, <2>5
              DEF IInv, OwnedStage, StageOf, GivenUp, RunAt, Owning, BeforePost, AfterPost
  <1>2. CASE UNCHANGED workerVars
    BY <1>2 DEF IInv, OneOwner, RunAt
  <1>3. ASSUME NEW w \in Workers, WorkerStep(w)
        PROVE  OneOwner'
    <2>1. SUFFICES ASSUME NEW u \in Workers, NEW v \in Workers, pc'[u] \in Owning,
                          pc'[v] \in Owning, RunOf(job'[u]) = RunOf(job'[v]), u # v
                   PROVE  FALSE
      BY DEF OneOwner, RunAt
    <2>2. CASE u = w \/ v = w
      BY <1>1, <1>3, <2>1, <2>2
    <2>3. CASE u # w /\ v # w
      BY <1>3, <1>t, <2>1, <2>3, WorkerFrame DEF IInv, OneOwner, RunAt
    <2>4. QED BY <2>2, <2>3
  <1>4. QED BY <1>2, <1>3, <1>t, NextWorkers

LEMMA OwnerMoves ==
  ASSUME TypeInv, NEW w \in Workers, WorkerStep(w), pc[w] \in Owning, pc'[w] \in Owning
  PROVE  \/ StageOf(pc'[w]) = StageOf(pc[w])
         \/ status'[RunAt(w)] = StageOf(pc'[w])
  <1> USE DEF TypeInv, TypeOK, Owning, BeforePost, AfterPost, StageOf, At
  <1>1. RunAt(w) \in Runs
    BY RunAtRuns
  <1>2. CASE Handle(w)
    BY <1>1, <1>2 DEF Handle, ReadRun, ReadRunFails, Claim, Step, StartAnalysing,
                RecordProgress, SaveFindings, StartPublishing, Complete,
                CheckNotCancelled, PostReview, RecordPublication, StepError,
                WasCancelled, MarkFailed, Settle, BackToLoop, WriteRow
  <1>3. CASE ~Handle(w)
    BY <1>3 DEF WorkerStep, Deliver, GiveBack, ConsumerTimeout, Crash, BackToLoop,
                SweepRead, SweepAbort, SweepWrite
  <1>4. QED BY <1>2, <1>3

\* Only its owner moves the row of a run from stage to stage.
LEMMA OwnedStageStep ==
  ASSUME IInv, [Next]_vars
  PROVE  OwnedStage'
  <1>t. /\ TypeInv /\ status \in [Runs -> Statuses \cup {"absent"}]
    BY DEF IInv, TypeInv, TypeOK
  <1>o. Owning \cap {"idle", "claiming", "received"} = {}
    BY DEF Owning, BeforePost, AfterPost
  <1> SUFFICES ASSUME NEW v \in Workers, pc'[v] \in Owning
               PROVE  status'[RunOf(job'[v])] \in GivenUp \cup {StageOf(pc'[v])}
    BY DEF OwnedStage, RunAt
  <1>1. CASE Claim(v)
    <2>1. RunAt(v) \in Runs /\ copy[v].run = RunAt(v) /\ job'[v] = job[v]
      BY <1>1, <1>t, RunAtRuns DEF Claim, At, IInv, ClaimCopy
    <2>2. pc'[v] = "building" /\ status'[RunAt(v)] = "building_context"
      BY <1>1, <1>t, <2>1 DEF Claim, At, WriteRow, TypeInv, TypeOK, Owning, BeforePost, AfterPost
    <2>3. QED BY <2>1, <2>2 DEF StageOf, RunAt
  <1>2. CASE /\ job'[v] = job[v] /\ pc[v] \in Owning
             /\ \/ StageOf(pc'[v]) = StageOf(pc[v])
                \/ status'[RunAt(v)] = StageOf(pc'[v])
    <2>1. /\ RunAt(v) \in Runs
          /\ status[RunAt(v)] \in GivenUp \cup {StageOf(pc[v])}
          /\ StageOf(pc[v]) \notin {"absent", "queued"}
      BY <1>2, <1>t, <1>o, RunAtRuns
         DEF IInv, OwnedStage, StageOf, Owning, BeforePost, AfterPost
    <2>2. status[RunAt(v)] \notin {"absent", "queued"}
      BY <2>1 DEF GivenUp
    <2>3. CASE status'[RunAt(v)] = status[RunAt(v)]
      BY <1>2, <2>1, <2>3 DEF RunAt
    <2>4. ASSUME NEW w \in Workers, RunAt(w) # RunAt(v), NEW s, WriteRow(RunAt(w), s)
          PROVE  status'[RunAt(v)] = status[RunAt(v)]
      BY <1>t, <2>1, <2>4 DEF WriteRow
    <2>5. ASSUME NEW r \in Runs, NEW s \in GivenUp, WriteRow(r, s)
          PROVE  status'[RunAt(v)] \in GivenUp \cup {status[RunAt(v)]}
      BY <1>t, <2>1, <2>5 DEF WriteRow
    <2>6. ASSUME NEW w \in Workers, pc[w] \in Owning, NEW s,
                 WriteRow(RunAt(w), s), pc'[w] \in Owning => StageOf(pc'[w]) = s
          PROVE  status'[RunAt(v)] \in {status[RunAt(v)], StageOf(pc'[v])}
      <3>1. CASE RunAt(w) = RunAt(v)
        BY <1>t, <1>2, <2>1, <2>6, <3>1 DEF IInv, OneOwner, WriteRow
      <3>2. QED BY <2>4, <2>6, <3>1
    <2>7. QED BY <1>2, <1>t, NextRowsMove, <2>1, <2>2, <2>3, <2>4, <2>5, <2>6
              DEF RowsMove, RunAt
  <1>3. CASE UNCHANGED workerVars
    BY <1>2, <1>3
  <1>4. ASSUME NEW w \in Workers, WorkerStep(w), ~Claim(v)
        PROVE  /\ job'[v] = job[v] /\ pc[v] \in Owning
               /\ \/ StageOf(pc'[v]) = StageOf(pc[v])
                  \/ status'[RunAt(v)] = StageOf(pc'[v])
    <2>1. CASE w # v
      BY <1>4, <1>t, <2>1, WorkerFrame
    <2>2. CASE w = v
      BY <1>4, <1>t, <1>o, <2>2, WorkerMoves, OwnerMoves
    <2>3. QED BY <2>1, <2>2
  <1>5. QED BY <1>1, <1>2, <1>3, <1>4, <1>t, NextWorkers

\* Only two calls touch the host and the record of what was published.
LEMMA HostMoves ==
  ASSUME NEW w \in Workers, WorkerStep(w)
  PROVE  PostReview(w) \/ RecordPublication(w) \/ UNCHANGED hostVars
  BY DEF WorkerStep, Handle, Deliver, GiveBack, ConsumerTimeout, Crash,
         ReadRun, ReadRunFails, Claim, Step, StartAnalysing, RecordProgress,
         SaveFindings, StartPublishing, Complete, CheckNotCancelled,
         StepError, WasCancelled, MarkFailed, Settle,
         SweepRead, SweepAbort, SweepWrite

\* A review is posted by the owner of a run that had none, who then leaves the
\* part of the pipeline in which it may post.
LEMMA ReviewMarkStep ==
  ASSUME IInv, [Next]_vars
  PROVE  ReviewMark'
  <1>t. /\ TypeInv /\ reviews \in [Runs -> Nat]
    BY DEF IInv, TypeInv, TypeOK
  <1>o. BeforePost \cap {"idle", "claiming", "received", "posted", "handling"} = {}
    BY DEF BeforePost
  <1>k. \A r \in Runs : Taken(r) => status'[r] \notin {"absent", "queued"}
    BY NextRowsMove, RowsKept DEF RowKept
  <1> SUFFICES ASSUME NEW r \in Runs
               PROVE  /\ reviews'[r] \in {0, 1}
                      /\ reviews'[r] = 1 =>
                            /\ status'[r] \notin {"absent", "queued"}
                            /\ \A v \in Workers : pc'[v] \in BeforePost => RunOf(job'[v]) # r
    BY DEF ReviewMark, RunAt, Taken
  <1>1. CASE UNCHANGED <<workerVars, hostVars>>
    BY <1>1, <1>k DEF IInv, ReviewMark, RunAt
  <1>2. ASSUME NEW w \in Workers, PostReview(w)
        PROVE  /\ reviews'[r] \in {0, 1}
               /\ reviews'[r] = 1 =>
                     /\ status'[r] \notin {"absent", "queued"}
                     /\ \A v \in Workers : pc'[v] \in BeforePost => RunOf(job'[v]) # r
    <2>1. /\ pc[w] = "posting" /\ pc[w] \in Owning /\ pc[w] \in BeforePost
          /\ RunAt(w) \in Runs
          /\ reviews[RunAt(w)] = 0 /\ Taken(RunAt(w))
          /\ UNCHANGED job
      BY <1>2, <1>t, RunAtRuns
         DEF PostReview, At, IInv, ReviewMark, OwnedStage, StageOf, GivenUp, Taken,
             Owning, BeforePost
    <2>2. ASSUME NEW v \in Workers, pc'[v] \in BeforePost
          PROVE  v # w /\ pc[v] \in BeforePost /\ pc[v] \in Owning
      BY <1>2, <1>t, <1>o, <2>2 DEF PostReview, At, Owning, TypeInv, TypeOK
    <2>3. CASE r = RunAt(w)
      <3>1. reviews'[r] = 1
        BY <1>2, <1>t, <2>1, <2>3 DEF PostReview
      <3>2. QED BY <1>k, <2>1, <2>2, <2>3, <3>1 DEF IInv, OneOwner, RunAt
    <2>4. CASE r # RunAt(w)
      <3>1. reviews'[r] = reviews[r]
        BY <1>2, <1>t, <2>4 DEF PostReview
      <3>2. QED BY <1>k, <2>1, <2>2, <3>1 DEF IInv, ReviewMark, RunAt
    <2>5. QED BY <2>3, <2>4
  <1>3. ASSUME NEW w \in Workers, WorkerStep(w), UNCHANGED reviews
        PROVE  /\ reviews'[r] \in {0, 1}
               /\ reviews'[r] = 1 =>
                     /\ status'[r] \notin {"absent", "queued"}
                     /\ \A v \in Workers : pc'[v] \in BeforePost => RunOf(job'[v]) # r
    <2>1. reviews'[r] \in {0, 1} /\ (reviews'[r] = 1 => Taken(r))
      BY <1>3 DEF IInv, ReviewMark
    <2>2. ASSUME reviews[r] = 1, NEW v \in Workers, pc'[v] \in BeforePost,
                 RunOf(job'[v]) = r
          PROVE  FALSE
      <3>1. CASE pc[v] \in BeforePost /\ job'[v] = job[v]
        BY <2>2, <3>1 DEF IInv, ReviewMark, RunAt
      <3>2. CASE Claim(v)
        BY <1>t, <2>1, <1>3, <2>2, <3>2
           DEF Claim, At, Unchanged, IInv, ClaimCopy, Taken, RunAt, BeforePost,
               TypeInv, TypeOK
      <3>3. CASE v = w
        BY <1>3, <1>t, <1>o, <2>2, <3>1, <3>2, <3>3, WorkerMoves
      <3>4. CASE v # w
        BY <1>3, <1>t, <2>2, <3>1, <3>4, WorkerFrame
      <3>5. QED BY <3>3, <3>4
    <2>3. QED BY <1>k, <1>3, <2>1, <2>2
  <1>4. QED BY <1>t, <1>1, <1>2, <1>3, NextWorkers, HostMoves DEF RecordPublication

\* What the last write of a run rests on.
LEMMA ReviewRecordedStep ==
  ASSUME IInv, [Next]_vars
  PROVE  ReviewRecorded'
  <1>t. /\ TypeInv /\ reviews \in [Runs -> Nat] /\ recorded \subseteq Runs
    BY DEF IInv, TypeInv, TypeOK
  <1> USE DEF AfterPost
  <1>1. CASE UNCHANGED <<workerVars, hostVars>>
    BY <1>1 DEF IInv, ReviewRecorded, RunAt
  <1>2. ASSUME NEW w \in Workers, PostReview(w)
        PROVE  ReviewRecorded'
    <2>1. /\ RunAt(w) \in Runs /\ RunAt(w) \notin recorded
          /\ reviews[RunAt(w)] = 0
          /\ UNCHANGED <<job, recorded>>
      BY <1>2, <1>t, RunAtRuns
         DEF PostReview, At, IInv, ReviewMark, ReviewRecorded, BeforePost
    <2>2. /\ reviews'[RunAt(w)] = 1
          /\ \A r \in Runs : r # RunAt(w) => reviews'[r] = reviews[r]
      BY <1>2, <1>t, <2>1 DEF PostReview
    <2>3. \A v \in Workers : v # w => pc'[v] = pc[v]
      BY <1>2, <1>t DEF PostReview, At, TypeInv, TypeOK
    <2>4. pc'[w] \in {"posted", "handling"}
      BY <1>2, <1>t DEF PostReview, At, TypeInv, TypeOK
    <2>5. \A v \in Workers : v # w /\ pc[v] \in AfterPost => RunAt(v) \in Runs
      BY <1>t, RunAtRuns
    <2>6. QED BY <1>t, <2>1, <2>2, <2>3, <2>4, <2>5 DEF IInv, ReviewRecorded, RunAt
  <1>3. ASSUME NEW w \in Workers, RecordPublication(w)
        PROVE  ReviewRecorded'
    <2>1. \A v \in Workers : v # w => pc'[v] = pc[v]
      BY <1>3, <1>t DEF RecordPublication, At, TypeInv, TypeOK
    <2>2. pc[w] = "posted" /\ recorded' = recorded \cup {RunAt(w)}
          /\ UNCHANGED <<job, reviews>>
      BY <1>3 DEF RecordPublication, At
    <2>3. QED BY <2>1, <2>2 DEF IInv, ReviewRecorded, RunAt
  <1>4. ASSUME NEW w \in Workers, WorkerStep(w), UNCHANGED hostVars,
               ~PostReview(w), ~RecordPublication(w)
        PROVE  ReviewRecorded'
    <2>1. ASSUME NEW v \in Workers, pc'[v] \in AfterPost
          PROVE  job'[v] = job[v] /\ pc[v] = pc'[v]
      <3>1. CASE v # w
        BY <1>4, <1>t, <3>1, WorkerFrame
      <3>2. CASE v = w
        <4>1. CASE Handle(w)
          BY <1>4, <1>t, <2>1, <3>2, <4>1, RunAtRuns
             DEF Handle, ReadRun, ReadRunFails, Claim, Step, StartAnalysing,
                RecordProgress, SaveFindings, StartPublishing, Complete,
                CheckNotCancelled, StepError, WasCancelled, MarkFailed, Settle, BackToLoop,
                At, TypeInv, TypeOK
        <4>2. CASE ~Handle(w)
          BY <1>4, <1>t, <2>1, <3>2, <4>2
             DEF WorkerStep, Deliver, GiveBack, ConsumerTimeout, Crash, BackToLoop,
                SweepRead, SweepAbort, SweepWrite, At, TypeInv, TypeOK
        <4>3. QED BY <4>1, <4>2
      <3>3. QED BY <3>1, <3>2
    <2>2. QED BY <1>4, <2>1 DEF IInv, ReviewRecorded, RunAt
  <1>5. QED BY <1>t, <1>1, <1>2, <1>3, <1>4, NextWorkers, HostMoves

LEMMA AckTakenStep ==
  ASSUME IInv, [Next]_vars
  PROVE  AckTaken'
  <1>t. TypeInv /\ status \in [Runs -> Statuses \cup {"absent"}]
    BY DEF IInv, TypeInv, TypeOK
  <1>k. \A r \in Runs : Taken(r) => status'[r] \notin {"absent", "queued"}
    BY NextRowsMove, RowsKept DEF RowKept
  <1>m. \A m \in Msgs : RunOf(m) \in Runs
    BY DEF Msgs, RunOf
  \* A run that its worker finds taken, or has just finished with.
  <1>1. ASSUME NEW w \in Workers, WorkerStep(w), pc'[w] = "ack"
        PROVE  status'[RunOf(job'[w])] \notin {"absent", "queued"}
    <2>1. pc[w] # "idle" /\ job'[w] = job[w] /\ RunAt(w) \in Runs
      BY <1>1, <1>t, WorkerMoves, RunAtRuns
    <2>2. Present(RunAt(w))
      BY <2>1 DEF IInv, RunsInserted
    <2>3. CASE pc[w] = "ack"
      BY <1>k, <2>1, <2>3 DEF IInv, AckTaken, RunAt
    <2>4. CASE pc[w] \in Owning
      BY <1>k, <2>1, <2>4
         DEF IInv, OwnedStage, StageOf, GivenUp, Owning, BeforePost, AfterPost, Taken, RunAt
    <2>5. CASE Claim(w)
      <3>1. ~Unchanged(copy[w])
        BY <1>1, <1>t, <2>5 DEF Claim, At, TypeInv, TypeOK
      <3>2. Taken(RunAt(w))
        BY <2>1, <2>2, <2>5, <3>1 DEF Claim, At, IInv, ClaimCopy, Unchanged, Taken, Present
      <3>3. QED BY <1>k, <2>1, <3>2 DEF RunAt
    <2>6. CASE (ReadRun(w) \/ WasCancelled(w)) /\ pc[w] # "ack"
      <3>1. Taken(RunAt(w))
        BY <1>1, <1>t, <2>2, <2>6 DEF ReadRun, WasCancelled, At, Present, Taken, TypeInv, TypeOK
      <3>2. QED BY <1>k, <2>1, <3>1 DEF RunAt
    <2>7. CASE /\ ~Claim(w) /\ ~ReadRun(w) /\ ~WasCancelled(w)
               /\ pc[w] \notin Owning \cup {"ack"}
      BY <1>1, <1>t, <2>7
         DEF WorkerStep, Handle, Deliver, GiveBack, ConsumerTimeout, Crash,
             ReadRunFails, Step, StartAnalysing, RecordProgress,
             SaveFindings, StartPublishing, Complete, CheckNotCancelled, PostReview,
             RecordPublication, StepError, MarkFailed, Settle, BackToLoop,
             SweepRead, SweepAbort, SweepWrite, At, TypeInv, TypeOK,
             Owning, BeforePost, AfterPost
    <2>8. QED BY <2>3, <2>4, <2>5, <2>6, <2>7
  <1>2. ASSUME NEW v \in Workers, pc'[v] = "ack"
        PROVE  status'[RunOf(job'[v])] \notin {"absent", "queued"}
    <2>1. CASE pc[v] = "ack" /\ job'[v] = job[v]
      BY <1>k, <1>t, <2>1, RunAtRuns DEF IInv, AckTaken, RunAt
    <2>2. QED BY <1>1, <1>2, <1>t, <2>1, NextWorkers, WorkerFrame
  \* The only acknowledgement is the one of a worker that means it.
  <1>3. ASSUME NEW m \in Msgs, msg'[m] = "acked"
        PROVE  status'[RunOf(m)] \notin {"absent", "queued"}
    <2>1. CASE msg[m] = "acked"
      BY <1>k, <1>m, <2>1 DEF IInv, AckTaken
    <2>2. CASE \E w \in Workers : pc[w] = "ack" /\ job[w] = m
      BY <1>k, <1>m, <2>2 DEF IInv, AckTaken, RunAt
    <2>3. CASE Tick \/ UNCHANGED vars
      BY <1>3, <2>1, <2>3 DEF Tick, vars
    <2>4. ASSUME NEW a \in Requests, ApiStep(a)
          PROVE  msg[m] = "acked"
      BY <1>3, <2>4
         DEF ApiStep, Check, SupersedeFind, SupersedeWrite, Insert, InsertConflict,
             Lookup, BlockHead, Enqueue, Compensate, ApiCrash
    <2>5. ASSUME NEW w \in Workers, WorkerStep(w)
          PROVE  msg[m] = "acked" \/ (pc[w] = "ack" /\ job[w] = m)
      BY <1>3, <1>t, <2>5
         DEF WorkerStep, Handle, Deliver, GiveBack, ConsumerTimeout, Crash, Requeue,
             ReadRun, ReadRunFails, Claim, Step, StartAnalysing, RecordProgress,
             SaveFindings, StartPublishing, Complete, CheckNotCancelled, PostReview,
             RecordPublication, StepError, WasCancelled, MarkFailed, Settle,
             SweepRead, SweepAbort, SweepWrite, TypeInv, TypeOK
    <2>6. QED BY <2>1, <2>2, <2>3, <2>4, <2>5 DEF Next
  <1>4. QED BY <1>2, <1>3 DEF AckTaken, Taken, RunAt

LEMMA SweepCopyStep ==
  ASSUME IInv, [Next]_vars
  PROVE  SweepCopy'
  <1>t. /\ TypeInv /\ sweeping \in [Workers -> SUBSET Copies]
        /\ stamp \in [Runs -> Nat] /\ age \in [Runs -> 0..MaxAge]
    BY DEF IInv, TypeInv, TypeOK
  <1>k. \A r \in Runs : RowKept(r) /\ stamp'[r] \in Nat
    BY NextRowsMove, RowsKept, TypeInvStep DEF IInv, TypeInv, TypeOK
  <1> SUFFICES ASSUME NEW v \in Workers, NEW c \in sweeping'[v]
               PROVE  /\ status'[c.run] # "absent"
                      /\ c.stamp <= stamp'[c.run]
                      /\ status'[c.run] = c.status /\ stamp'[c.run] = c.stamp => Stale(c.run)'
    BY DEF SweepCopy, Present, Unchanged
  <1>1. CASE c \in sweeping[v]
    <2>1. c.run \in Runs /\ c.stamp \in Nat
      BY <1>1, <1>t DEF Copies
    <2>2. Present(c.run) /\ c.stamp <= stamp[c.run] /\ (Unchanged(c) => Stale(c.run))
      BY <1>1 DEF IInv, SweepCopy
    <2>3. stamp[c.run] <= stamp'[c.run] /\ status'[c.run] # "absent"
      BY <1>k, <2>1, <2>2 DEF RowKept
    <2>4. ASSUME status'[c.run] = c.status, stamp'[c.run] = c.stamp
          PROVE  Stale(c.run)'
      <3>1. stamp'[c.run] = stamp[c.run]
        BY <1>t, <2>1, <2>2, <2>3, <2>4
      <3>2. status'[c.run] = status[c.run] /\ age'[c.run] >= age[c.run]
        BY <1>k, <2>1, <2>2, <3>1 DEF RowKept
      <3>3. Stale(c.run)
        BY <2>2, <2>4, <3>1, <3>2 DEF Unchanged
      <3>4. age'[c.run] \in Nat /\ age[c.run] \in Nat
        BY <1>t, <2>1, TypeInvStep, ThresholdsAssumption DEF TypeInv, TypeOK, MaxAge
      <3>5. Limit(c.run) \in Nat
        BY ThresholdsAssumption DEF Limit
      <3>6. QED BY <3>2, <3>3, <3>4, <3>5 DEF Stale, Limit
    <2>5. QED BY <1>k, <1>t, <2>1, <2>2, <2>3, <2>4
  <1>2. ASSUME NEW w \in Workers, SweepRead(w), c \notin sweeping[v]
        PROVE  /\ status'[c.run] # "absent"
               /\ c.stamp <= stamp'[c.run]
               /\ Stale(c.run)'
    <2>1. v = w /\ c \in {Read(r) : r \in {q \in Runs : Stale(q)}}
      BY <1>2, <1>t DEF SweepRead
    <2>2. PICK r \in Runs : Stale(r) /\ c = Read(r)
      BY <2>1
    <2>3. c.run = r /\ c.stamp = stamp[r] /\ stamp[r] \in Nat
      BY <2>2, <1>t DEF Read
    <2>4. QED BY <1>2, <2>2, <2>3 DEF SweepRead, Stale, Limit, Nonterminal
  <1>3. ASSUME NEW w \in Workers, WorkerStep(w), ~SweepRead(w)
        PROVE  sweeping'[v] \subseteq sweeping[v]
    BY <1>3, <1>t DEF WorkerStep, Handle, Deliver, GiveBack, ConsumerTimeout, Crash,
             ReadRun, ReadRunFails, Claim, Step, StartAnalysing, RecordProgress,
             SaveFindings, StartPublishing, Complete, CheckNotCancelled, PostReview,
             RecordPublication, StepError, WasCancelled, MarkFailed, Settle,
             SweepAbort, SweepWrite
  <1>4. QED BY <1>1, <1>2, <1>3, <1>t, NextWorkers

----------------------------------------------------------------------------
(* The theorems. *)

LEMMA InitIInv == Init => IInv
  <1> SUFFICES ASSUME Init PROVE IInv
    OBVIOUS
  <1>1. TypeInv
    BY InitTypeInv
  <1>2. RunsInserted /\ ClaimCopy /\ OwnedStage /\ OneOwner /\ ReviewRecorded /\ AckTaken
    BY DEF Init, RunsInserted, ClaimCopy, OwnedStage, OneOwner, ReviewRecorded, AckTaken,
           Owning, BeforePost, AfterPost, Taken
  <1>3. ReviewMark /\ SweepCopy
    BY DEF Init, ReviewMark, SweepCopy
  <1>4. QED BY <1>1, <1>2, <1>3 DEF IInv

LEMMA IInvStep == IInv /\ [Next]_vars => IInv'
  BY TypeInvStep, RunsInsertedStep, ClaimCopyStep, OwnedStageStep, OneOwnerStep,
     ReviewMarkStep, ReviewRecordedStep, AckTakenStep, SweepCopyStep DEF IInv

\* The strengthened invariant holds in every reachable state.
THEOREM Invariance == Spec => []IInv
  BY InitIInv, IInvStep, PTL DEF Spec

\* No run is worked on by two workers at a time.
THEOREM SingleOwner == Spec => []OneOwner
  <1>1. IInv => OneOwner
    BY DEF IInv
  <1>2. QED BY <1>1, Invariance, PTL

\* No run puts a second review on the pull request.
THEOREM SingleReview == Spec => []OneReviewPerRun
  <1>1. IInv => OneReviewPerRun
    BY DEF IInv, ReviewMark, OneReviewPerRun
  <1>2. QED BY <1>1, Invariance, PTL

\* No acknowledgement leaves a queued run without its message.
THEOREM AcknowledgedAfterTaking == Spec => []AckedRunWasTaken
  <1>1. IInv => AckedRunWasTaken
    BY DEF IInv, AckTaken, Taken, AckedRunWasTaken
  <1>2. QED BY <1>1, Invariance, PTL

\* The status and the progress of a run that is over stay as they are.
THEOREM TerminalStays == Spec => TerminalIsFrozen
  <1>1. IInv /\ [Next]_vars =>
            [\A r \in Runs : status[r] \in Terminal =>
                status'[r] = status[r] /\ stamp'[r] = stamp[r]]_vars
    BY NextRowsMove, RowsKept DEF RowKept
  <1>2. QED BY <1>1, Invariance, PTL DEF Spec, TerminalIsFrozen

\* The sweep spares a run that made progress after it was read.
THEOREM SweepSpares == Spec => SweepSparesProgress
  <1> DEFINE Spared == \A w \in Workers, r \in Runs :
                 sweeping'[w] # sweeping[w] /\ status'[r] # status[r] => Stale(r)
  <1>1. ASSUME IInv, [Next]_vars
        PROVE  Spared
    <2>1. CASE UNCHANGED status \/ UNCHANGED sweeping
      BY <2>1
    <2>2. ASSUME NEW v \in Workers, NEW c \in sweeping[v], SweepWrite(v, c)
          PROVE  Spared
      <3>t. sweeping \in [Workers -> SUBSET Copies] /\ status \in [Runs -> Statuses \cup {"absent"}]
        BY <1>1 DEF IInv, TypeInv, TypeOK
      <3>1. c.run \in Runs /\ (Unchanged(c) => Stale(c.run))
        BY <1>1, <2>2, <3>t DEF IInv, SweepCopy, Copies
      <3>2. \A r \in Runs : status'[r] # status[r] => r = c.run /\ Unchanged(c)
        BY <2>2, <3>1, <3>t DEF SweepWrite, WriteRow
      <3>3. QED BY <3>1, <3>2
    <2>3. QED
      BY <1>1, <2>1, <2>2, ApiFrame
         DEF Next, vars, Tick, WorkerStep, Handle, Deliver, GiveBack, ConsumerTimeout,
             Crash, ReadRun, ReadRunFails, Claim, Step, StartAnalysing, RecordProgress,
             SaveFindings, StartPublishing, Complete, CheckNotCancelled, PostReview,
             RecordPublication, StepError, WasCancelled, MarkFailed, Settle,
             SweepRead, SweepAbort
  <1>2. IInv /\ [Next]_vars => [Spared]_vars
    BY <1>1
  <1>3. QED BY <1>2, Invariance, PTL DEF Spec, SweepSparesProgress

----------------------------------------------------------------------------
(* The system implements RunPromise. *)

PromiseVars == <<status, head, reviews, recorded>>

LEMMA PromiseGiveUp ==
  ASSUME NEW r \in Runs, NEW s \in GivenUp, status[r] \in Nonterminal,
         WriteRow(r, s), UNCHANGED hostVars
  PROVE  Promise!Next
  BY DEF Promise!Next, Promise!GiveUp, Promise!Nonterminal, Nonterminal, WriteRow, GivenUp

LEMMA PromiseAdvance ==
  ASSUME TypeOK, NEW r \in Runs, status[r] \in Nonterminal,
         status[r] = "publishing" => r \in recorded,
         WriteRow(r, Following(status[r])), UNCHANGED hostVars
  PROVE  Promise!Next
  BY DEF Promise!Next, Promise!Advance, Promise!Nonterminal, Nonterminal, WriteRow,
         Promise!Following, Following

LEMMA PromiseApiStep ==
  ASSUME IInv, NEW a \in Requests, ApiStep(a)
  PROVE  Promise!Next \/ UNCHANGED PromiseVars
  <1>h. UNCHANGED hostVars
    BY ApiFrame
  <1>k. UNCHANGED rowVars => UNCHANGED PromiseVars
    BY <1>h DEF PromiseVars
  <1>g. GivenUp \subseteq Statuses \ {"queued"}
    BY DEF GivenUp, Statuses, Terminal
  <1>1. CASE SupersedeWrite(a) \/ Compensate(a)
    <2>1. req[a].run \in Runs
      BY <1>1 DEF SupersedeWrite, Compensate, AtApi, IInv, RunsInserted
    <2>2. QED BY <1>1, <1>h, <1>k, <1>g, <2>1, MayWriteFacts, PromiseGiveUp
              DEF SupersedeWrite, Compensate, GivenUp
  <1>2. ASSUME NEW r \in Runs, Insert(a, r)
        PROVE  Promise!Next
    <2>1. req[a].head \in Heads
      BY <1>2 DEF Insert, IInv, TypeInv, RequestHeld, Reqs
    <2>2. Promise!InProgressOn(req[a].head) = {}
      BY <1>2 DEF Insert, ViolatesIndex, ActiveOn, Promise!InProgressOn,
                  Promise!Nonterminal, Nonterminal
    <2>3. QED BY <1>2, <2>1, <2>2 DEF Insert, Promise!Next, Promise!Accept
  <1>3. QED BY <1>k, <1>1, <1>2
            DEF ApiStep, Check, SupersedeFind, InsertConflict, Lookup, BlockHead,
                Enqueue, ApiCrash

LEMMA PromisePipeline ==
  ASSUME IInv, NEW w \in Workers, NEW from \in Owning, NEW s, NEW to,
         Step(w, from, s, to), s \in {"analysing", "publishing", "completed"},
         s = Following(StageOf(from)) \/ s = StageOf(from),
         s = "completed" => from = "recorded"
  PROVE  Promise!Next \/ UNCHANGED PromiseVars
  <1>1. CASE UNCHANGED rowVars
    BY <1>1 DEF Step, PromiseVars
  <1>2. CASE MayWrite(status[RunAt(w)], s) /\ WriteRow(RunAt(w), s)
    <2>1. pc[w] = from /\ RunAt(w) \in Runs /\ UNCHANGED hostVars
      BY RunAtRuns DEF Step, IInv, Owning, BeforePost, AfterPost
    <2>2. status[RunAt(w)] \in Nonterminal
      BY <1>2, MayWriteFacts DEF Statuses, Nonterminal, Terminal
    <2>3. status[RunAt(w)] = StageOf(from)
      BY <2>1, <2>2 DEF IInv, OwnedStage, GivenUp, Nonterminal
    <2>4. CASE s = StageOf(from)
      BY <1>2, <2>1, <2>3, <2>4 DEF WriteRow, PromiseVars, IInv, TypeInv, TypeOK
    <2>5. CASE s = Following(StageOf(from)) /\ s # StageOf(from)
      <3>1. status[RunAt(w)] = "publishing" => RunAt(w) \in recorded
        <4>1. Following("publishing") = "completed"
          BY DEF Following
        <4>2. QED BY <2>1, <2>3, <2>5, <4>1 DEF IInv, ReviewRecorded, AfterPost
      <3>2. QED BY <1>2, <2>1, <2>2, <2>3, <2>5, <3>1, PromiseAdvance DEF IInv, TypeInv
    <2>6. QED BY <2>4, <2>5
  <1>3. QED BY <1>1, <1>2 DEF Step

LEMMA PromiseWorkerStep ==
  ASSUME IInv, NEW w \in Workers, WorkerStep(w)
  PROVE  Promise!Next \/ UNCHANGED PromiseVars
  <1>k. UNCHANGED <<rowVars, hostVars>> => UNCHANGED PromiseVars
    BY DEF PromiseVars
  <1>o. Owning \cap {"idle", "claiming"} = {}
    BY DEF Owning, BeforePost, AfterPost
  <1>1. CASE Claim(w)
    <2>1. CASE Unchanged(copy[w])
      <3>1. /\ RunAt(w) \in Runs /\ copy[w].run = RunAt(w)
            /\ status[RunAt(w)] = "queued" /\ WriteRow(RunAt(w), "building_context")
            /\ UNCHANGED hostVars
        BY <1>1, <2>1, RunAtRuns DEF Claim, IInv, ClaimCopy, Unchanged
      <3>2. QED BY <3>1, PromiseAdvance DEF Following, Nonterminal, IInv, TypeInv
    <2>2. QED BY <1>1, <1>k, <2>1 DEF Claim
  <1>2. CASE \/ StartAnalysing(w) \/ RecordProgress(w) \/ SaveFindings(w)
             \/ StartPublishing(w) \/ Complete(w)
    BY <1>2, PromisePipeline
       DEF StartAnalysing, RecordProgress, SaveFindings, StartPublishing, Complete,
           Owning, BeforePost, AfterPost, StageOf, Following
  <1>3. CASE PostReview(w)
    <2>1. /\ RunAt(w) \in Runs /\ reviews[RunAt(w)] = 0
          /\ status[RunAt(w)] \in {"publishing", "failed", "cancelled"}
      BY <1>3, RunAtRuns
         DEF PostReview, At, IInv, ReviewMark, OwnedStage, StageOf, GivenUp, Owning, BeforePost
    <2>2. reviews' = [reviews EXCEPT ![RunAt(w)] = 1]
      BY <1>3, <2>1 DEF PostReview
    <2>3. QED BY <1>3, <2>1, <2>2 DEF PostReview, Promise!Next, Promise!Post
  <1>4. CASE RecordPublication(w)
    <2>1. RunAt(w) \in Runs /\ reviews[RunAt(w)] = 1
      BY <1>4, RunAtRuns DEF RecordPublication, At, IInv, ReviewRecorded, AfterPost
    <2>2. CASE RunAt(w) \in recorded
      BY <1>4, <2>2 DEF RecordPublication, PromiseVars
    <2>3. CASE RunAt(w) \notin recorded
      BY <1>4, <2>1, <2>3 DEF RecordPublication, Promise!Next, Promise!Record
    <2>4. QED BY <2>2, <2>3
  <1>5. CASE MarkFailed(w)
    <2>1. CASE UNCHANGED rowVars
      BY <1>5, <1>k, <2>1 DEF MarkFailed
    <2>2. CASE MayWrite(status[RunAt(w)], "failed") /\ WriteRow(RunAt(w), "failed")
      <3>1. RunAt(w) \in Runs /\ "failed" \in Statuses /\ "failed" \in GivenUp
        BY <1>5, RunAtRuns DEF MarkFailed, At, IInv, Statuses, Terminal, GivenUp
      <3>2. QED BY <1>5, <2>2, <3>1, MayWriteFacts, PromiseGiveUp DEF MarkFailed
    <2>3. QED BY <1>5, <2>1, <2>2 DEF MarkFailed
  <1>6. ASSUME NEW c \in sweeping[w], SweepWrite(w, c)
        PROVE  Promise!Next \/ UNCHANGED PromiseVars
    <2>1. c.run \in Runs /\ c.status \in Nonterminal
      BY DEF IInv, TypeInv, TypeOK, Copies
    <2>2. QED BY <1>6, <1>k, <2>1, PromiseGiveUp DEF SweepWrite, Unchanged, GivenUp
  <1>7. QED BY <1>k, <1>1, <1>2, <1>3, <1>4, <1>5, <1>6
            DEF WorkerStep, Handle, Deliver, GiveBack, ConsumerTimeout, Crash,
                ReadRun, ReadRunFails, CheckNotCancelled, StepError, WasCancelled,
                Settle, SweepRead, SweepAbort

\* Every behaviour of the system is one that the abstract specification allows.
THEOREM Implementation == Spec => KeepsPromise
  <1>1. Init => Promise!Init
    BY DEF Init, Promise!Init
  <1>2. IInv /\ [Next]_vars => [Promise!Next]_PromiseVars
    BY PromiseApiStep, PromiseWorkerStep DEF Next, Tick, vars, PromiseVars
  <1>3. QED
    BY <1>1, <1>2, Invariance, PTL
       DEF Spec, KeepsPromise, Promise!Spec, Promise!vars, PromiseVars
=============================================================================
