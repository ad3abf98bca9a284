-------------------------- MODULE ReviewRunsInv --------------------------
(***************************************************************************)
(* The inductive invariant of ReviewRuns: TypeOK, OneOwner and what they,  *)
(* OneReviewPerRun, AckedRunWasTaken and the step properties rest on.      *)
(* ReviewRunsProofs proves it inductive, the run two_workers checks it.    *)
(***************************************************************************)
EXTENDS ReviewRuns

Present(r) == status[r] # "absent"
Taken(r) == status[r] \notin {"absent", "queued"}
GivenUp == {"failed", "cancelled"}

\* A worker away from its loop has a message; one the broker counts on is
\* away from its loop.
JobHeld == \A w \in Workers :
    /\ pc[w] # "idle" => job[w] \in Msgs
    /\ holds[w] => pc[w] # "idle"

\* A request in flight has its local variables.
RequestHeld == \A a \in Requests : api[a] # "idle" => req[a] \in Reqs

TypeInv == TypeOK /\ JobHeld /\ RequestHeld

\* Whoever has a run in hand has one that was inserted.
RunsInserted ==
    /\ \A a \in Requests :
          api[a] \in {"cancelling", "block", "enqueue", "compensate"} =>
              req[a].run \in Runs /\ Present(req[a].run)
    /\ \A m \in Msgs : msg[m] # "none" => Present(RunOf(m))
    /\ \A w \in Workers : pc[w] # "idle" => Present(RunAt(w))

\* A run that no one has claimed or ended has its first last_progress_at, and
\* the copy a worker is about to claim was read before any write.
ClaimCopy ==
    /\ \A r \in Runs : ~Taken(r) => stamp[r] = 0
    /\ \A w \in Workers : pc[w] = "claiming" =>
          /\ copy[w] \in Copies
          /\ copy[w].run = RunAt(w) /\ copy[w].status = "queued"
          /\ copy[w].stamp = 0

\* The status a row has while its worker stands at a step of the pipeline,
\* unless the run was given up behind its back.
StageOf(p) ==
    CASE p = "building" -> "building_context"
      [] p \in {"analysing", "verifying", "saving"} -> "analysing"
      [] p \in {"publishing", "posting", "posted", "recorded"} -> "publishing"

OwnedStage == \A w \in Workers : pc[w] \in Owning =>
    status[RunAt(w)] \in GivenUp \cup {StageOf(pc[w])}

\* A run with a review has no worker that may still post, and vice versa.
ReviewMark == \A r \in Runs :
    /\ reviews[r] \in {0, 1}
    /\ reviews[r] = 1 =>
          /\ Taken(r)
          /\ \A w \in Workers : pc[w] \in BeforePost => RunAt(w) # r

\* What stands behind a completed run.
ReviewRecorded ==
    /\ \A r \in recorded : reviews[r] = 1
    /\ \A w \in Workers : pc[w] \in AfterPost =>
          reviews[RunAt(w)] = 1 /\ (pc[w] = "recorded" => RunAt(w) \in recorded)

\* A message is about to be acknowledged, or is, only for a run that was taken.
AckTaken ==
    /\ \A w \in Workers : pc[w] = "ack" => Taken(RunAt(w))
    /\ \A m \in Msgs : msg[m] = "acked" => Taken(RunOf(m))

\* A row the sweep has read is still past its threshold unless it was written.
SweepCopy == \A w \in Workers : \A c \in sweeping[w] :
    /\ Present(c.run)
    /\ c.stamp <= stamp[c.run]
    /\ Unchanged(c) => Stale(c.run)

IInv == /\ TypeInv /\ RunsInserted /\ ClaimCopy /\ OwnedStage /\ OneOwner
        /\ ReviewMark /\ ReviewRecorded /\ AckTaken /\ SweepCopy
=============================================================================
