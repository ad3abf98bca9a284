---------------------------- MODULE RunPromise ----------------------------
(***************************************************************************)
(* What the service promises about review runs, with no queue, no worker   *)
(* and no sweep in it.  A run is accepted for a commit that no other run   *)
(* in progress holds, goes through the stages one at a time, may be given  *)
(* up at any moment while in progress, and then never changes.  It puts at *)
(* most one review on the pull request, only after it has reached the      *)
(* publishing stage, and is completed only when that review is recorded.   *)
(***************************************************************************)
EXTENDS RunLifecycle, Naturals

CONSTANTS Runs,     \* the identifiers of review runs
          Heads,    \* the commits of a pull request
          NoHead    \* the commit of a run that has not been accepted

VARIABLES status,   \* the status of each run, "absent" before it is accepted
          head,     \* the commit each run reviews
          reviews,  \* how many reviews of the run the pull request carries
          recorded  \* the runs whose review is recorded in the database

vars == <<status, head, reviews, recorded>>

Init == /\ status = [r \in Runs |-> "absent"]
        /\ head = [r \in Runs |-> NoHead]
        /\ reviews = [r \in Runs |-> 0]
        /\ recorded = {}

InProgressOn(h) == {r \in Runs : status[r] \in Nonterminal /\ head[r] = h}

Accept(r, h) ==
    /\ status[r] = "absent"
    /\ InProgressOn(h) = {}
    /\ status' = [status EXCEPT ![r] = "queued"]
    /\ head' = [head EXCEPT ![r] = h]
    /\ UNCHANGED <<reviews, recorded>>

\* One stage forward; the last step needs the recorded review.
Advance(r) ==
    /\ status[r] \in Nonterminal
    /\ status[r] = "publishing" => r \in recorded
    /\ status' = [status EXCEPT ![r] = Following(status[r])]
    /\ UNCHANGED <<head, reviews, recorded>>

GiveUp(r) ==
    /\ status[r] \in Nonterminal
    /\ \E s \in {"failed", "cancelled"} : status' = [status EXCEPT ![r] = s]
    /\ UNCHANGED <<head, reviews, recorded>>

\* The worker posts on its own knowledge of the run, so the row may have been
\* given up since: what is promised is that this is the run's only review.
Post(r) ==
    /\ status[r] \in {"publishing", "failed", "cancelled"}
    /\ reviews[r] = 0
    /\ reviews' = [reviews EXCEPT ![r] = 1]
    /\ UNCHANGED <<status, head, recorded>>

Record(r) ==
    /\ reviews[r] = 1
    /\ r \notin recorded
    /\ recorded' = recorded \cup {r}
    /\ UNCHANGED <<status, head, reviews>>

Next == \E r \in Runs :
            \/ \E h \in Heads : Accept(r, h)
            \/ Advance(r) \/ GiveUp(r) \/ Post(r) \/ Record(r)

Spec == Init /\ [][Next]_vars
=============================================================================
