---------------------------- MODULE Publication ----------------------------
(***************************************************************************)
(* Publishing the findings of the runs of one pull request                 *)
(* (app/application/publish_review.py): adopting the reviews of runs that  *)
(* failed after their POST, sparing what a thread of the bot already says, *)
(* the POST and its record.  Runs on different commits publish at once, and *)
(* a worker outlives a run that the sweep or a retarget has ended.  Only   *)
(* runs that reach publishing are here: the others leave no review.        *)
(***************************************************************************)
EXTENDS ThreadCoverage, FiniteSetsExt

CONSTANTS
    Reviews,    \* the runs, numbers from 1 in the order they publish
    Places,     \* what a finding or a thread is about
    Overlap,    \* how many publish at once, a bound
    Found,      \* severities a run may find at a place, 0 for no finding
    TroubleKinds, Troubles      \* what interferes and how often, a bound

ASSUME PublicationAssumption ==
    /\ Reviews \subseteq Nat /\ NoLine \notin Places
    /\ {Critical, Overlap, Troubles} \subseteq Nat /\ Found \subseteq 0..Critical

VARIABLES
    row,        \* status of each run and when it failed (last_progress_at)
    at,         \* where its worker stands in publish_review
    local,      \* what the worker holds: now, orphans, threads read, drafts, ids
    found,      \* the severity of its finding at each place, 0 for none
    posted, comments,           \* reviews on the pull request, their inline comments
    closed, outdated,           \* threads closed by a human, threads without a line
    recorded, inlineRow,        \* published_comments: reviews, and threads by id
    publishedAt, clock,
    troubles,                   \* how many interferences are left
    before, lost, hidden, blind    \* history, see below

pubVars == <<row, at, local, found, posted, comments, closed, outdated, recorded,
             inlineRow, publishedAt, clock, troubles, before, lost, hidden, blind>>

(***************************************************************************)
(* History.  before[r]: reviews on the pull request of runs that had failed *)
(* or were recorded when r looked for orphans.  lost: reviews whose look-up *)
(* failed, whose ids were not read, or that came after their run was over. *)
(* hidden: who cannot see which orphan, as an adoption under way has put   *)
(* the last publication after its failure.  blind: runs the host did not   *)
(* tell where the threads stand.                                           *)
(***************************************************************************)
Working == {"start", "adopting", "found", "syncing", "checking",
            "posting", "posted", "recorded", "failing"}
Threads == Reviews \X Places
Fresh == [now |-> 0, orphans |-> {}, threads |-> {}, drafts |-> {}, ids |-> FALSE]

PubInit ==
    /\ row = [r \in Reviews |-> [status |-> "waiting", failedAt |-> 0]]
    /\ at = [r \in Reviews |-> "idle"]
    /\ local = [r \in Reviews |-> Fresh]
    /\ found = [r \in Reviews |-> [p \in Places |-> 0]]
    /\ posted = {} /\ comments = [r \in Reviews |-> {}]
    /\ closed = {} /\ outdated = {}
    /\ recorded = {} /\ inlineRow = {}
    /\ publishedAt = [r \in Reviews |-> 0] /\ clock = 0 /\ troubles = Troubles
    /\ before = [r \in Reviews |-> {}] /\ lost = {} /\ hidden = {} /\ blind = {}

Move(r, a) == at' = [at EXCEPT ![r] = a]
Finish(r) == Move(r, "done") /\ local' = [local EXCEPT ![r] = Fresh]
Failing(r) ==
    /\ row' = [row EXCEPT ![r] = [status |-> "failed", failedAt |-> clock + 1]]
    /\ clock' = clock + 1
Trouble(kind) ==
    /\ kind \in TroubleKinds /\ troubles > 0
    /\ troubles' = troubles - 1

runs == <<row, clock, found>>
host == <<posted, comments, closed, outdated>>
records == <<recorded, inlineRow, publishedAt>>
history == <<before, lost, hidden, blind>>

\* The run has saved its findings and become publishing.
Begin(r) ==
    /\ row[r].status = "waiting"
    /\ \A q \in Reviews : q < r => row[q].status # "waiting"
    /\ Cardinality({q \in Reviews : at[q] \in Working \/ row[q].status = "publishing"}) < Overlap
    /\ row' = [row EXCEPT ![r].status = "publishing"]
    /\ \E f \in [Places -> Found] : found' = [found EXCEPT ![r] = f]
    /\ clock' = clock + 1
    /\ local' = [local EXCEPT ![r].now = clock + 1]
    /\ Move(r, "start")
    /\ UNCHANGED <<host, records, troubles, history>>

\* list_unpublished_failures: failed at publishing, without a record, and later
\* than the last record of the pull request.
Orphans == {q \in Reviews : row[q].status = "failed" /\ q \notin recorded
                /\ \A p \in recorded : row[q].failedAt > publishedAt[p]}

ReadOrphans(r) ==
    /\ at[r] = "start"
    /\ local' = [local EXCEPT ![r].orphans = Orphans]
    /\ before' = [before EXCEPT ![r] =
           {q \in posted : q \in recorded \/ row[q].status = "failed"}]
    /\ Move(r, "adopting")
    /\ UNCHANGED <<runs, host, records, troubles, lost, hidden, blind>>

NextOrphan(r) == Min(local[r].orphans)
Skip(r) == local' = [local EXCEPT ![r].orphans = @ \ {NextOrphan(r)}]

\* find_published_review: the review with the run's marker and its comments.
FindReview(r) ==
    /\ at[r] = "adopting" /\ local[r].orphans # {}
    /\ IF NextOrphan(r) \in posted THEN Move(r, "found") /\ UNCHANGED local
       ELSE Skip(r) /\ UNCHANGED at
    /\ UNCHANGED <<runs, host, records, troubles, history>>

\* Each look-up comes once for each run, so its failures need no bound.
FindFails(r) ==
    /\ at[r] = "adopting" /\ local[r].orphans # {}
    /\ "lookup" \in TroubleKinds /\ UNCHANGED troubles
    /\ Skip(r)
    /\ lost' = lost \cup {NextOrphan(r)}
    /\ UNCHANGED <<runs, at, host, records, before, hidden, blind>>

Store(q, places, now) ==
    /\ recorded' = recorded \cup {q}
    /\ inlineRow' = inlineRow \cup ({q} \X places)
    /\ publishedAt' = [publishedAt EXCEPT ![q] = now]

\* MUTANT of Adopt: the review is recorded without its comments.
AdoptReviewOnly(r) ==
    /\ at[r] = "found"
    /\ IF NextOrphan(r) \in recorded THEN UNCHANGED records
       ELSE Store(NextOrphan(r), {}, local[r].now)
    /\ Skip(r)
    /\ hidden' = hidden \cup ((Reviews \ {r}) \X (local[r].orphans \ {NextOrphan(r)}))
    /\ Move(r, "adopting")
    /\ UNCHANGED <<runs, host, troubles, before, lost, blind>>

\* The unique index on the provider's id lets one run take a review over; the
\* other rolls back and goes on.  The record hides the orphans that are still to come
\* from every other run: they are no longer later than the last publication.
Adopt(r) ==
    /\ at[r] = "found"
    /\ LET q == NextOrphan(r)
       IN IF q \in recorded THEN UNCHANGED records ELSE Store(q, comments[q], local[r].now)
    /\ Skip(r)
    /\ hidden' = hidden \cup ((Reviews \ {r}) \X (local[r].orphans \ {NextOrphan(r)}))
    /\ Move(r, "adopting")
    /\ UNCHANGED <<runs, host, troubles, before, lost, blind>>

\* MUTANT of ReadThreads: the threads are read while an orphan is still to adopt.
ReadThreadsEarly(r) ==
    /\ at[r] = "adopting"
    /\ local' = [local EXCEPT ![r].threads = inlineRow, ![r].orphans = {}]
    /\ Move(r, "syncing")
    /\ UNCHANGED <<runs, host, records, troubles, history>>

ReadThreads(r) ==
    /\ at[r] = "adopting" /\ local[r].orphans = {}
    /\ local' = [local EXCEPT ![r].threads = inlineRow]
    /\ Move(r, "syncing")
    /\ UNCHANGED <<runs, host, records, troubles, history>>

\* A thread as the host tells of it; the row says whose finding it is.
ThreadOf(t) == [anchor |-> t[2], line |-> IF t \in outdated THEN NoLine ELSE t[2],
                severity |-> found[t[1]][t[2]], resolved |-> t \in closed, byBot |-> FALSE]
FindingAt(r, p) == [anchor |-> p, line |-> p, severity |-> found[r][p]]
Drafts(r, threads) == {p \in Places : found[r][p] > 0 /\ ~Covered(FindingAt(r, p), threads)}

Drafted(r, threads) ==
    /\ local' = [local EXCEPT ![r].threads = {}, ![r].drafts = Drafts(r, threads)]
    /\ Move(r, "checking")
    /\ UNCHANGED <<runs, host, records, before, lost, hidden>>

\* _sync_threads_with_host, best effort: without an answer nothing is covered.
Sync(r) ==
    /\ at[r] = "syncing"
    /\ Drafted(r, {ThreadOf(t) : t \in local[r].threads})
    /\ UNCHANGED <<blind, troubles>>

SyncFails(r) ==
    /\ at[r] = "syncing" /\ local[r].threads # {}
    /\ Trouble("threads")
    /\ Drafted(r, {})
    /\ blind' = blind \cup {r}

CheckNotCancelled(r) ==
    /\ at[r] = "checking"
    /\ Move(r, IF row[r].status = "cancelled" THEN "failing" ELSE "posting")
    /\ UNCHANGED <<runs, local, host, records, troubles, history>>

\* The review appears; by RequestPromise at most once.
Appear(r) ==
    /\ posted' = posted \cup {r}
    /\ comments' = [comments EXCEPT ![r] = local[r].drafts]
    /\ UNCHANGED <<runs, closed, outdated, records, before, hidden, blind>>
Late(r) == IF row[r].status = "publishing" THEN {} ELSE {r}

\* publish_pull_request_review: the id of the review and of its comments.
Post(r) ==
    /\ at[r] = "posting"
    /\ Appear(r)
    /\ local' = [local EXCEPT ![r].ids = TRUE]
    /\ lost' = lost \cup Late(r)
    /\ Move(r, "posted")
    /\ UNCHANGED troubles

\* The list of comments cannot be read: the review is recorded without them.
PostWithoutIds(r) ==
    /\ at[r] = "posting" /\ local[r].drafts # {}
    /\ Trouble("ids")
    /\ Appear(r)
    /\ lost' = lost \cup {r}
    /\ Move(r, "posted")
    /\ UNCHANGED local

\* The answer is lost and the search for the review fails too.
PostUnanswered(r) ==
    /\ at[r] = "posting"
    /\ Trouble("answer")
    /\ \/ Appear(r) /\ lost' = lost \cup Late(r)
       \/ UNCHANGED <<runs, host, records, history>>
    /\ Move(r, "failing")
    /\ UNCHANGED local

\* _record_publication; somebody may have adopted the review of a late worker.
Record(r) ==
    /\ at[r] = "posted"
    /\ IF r \in recorded THEN Move(r, "failing") /\ UNCHANGED records
       ELSE /\ Store(r, IF local[r].ids THEN local[r].drafts ELSE {}, local[r].now)
            /\ Move(r, "recorded")
    /\ UNCHANGED <<runs, local, host, troubles, history>>

\* The transition is refused to a run that is over.
Complete(r) ==
    /\ at[r] = "recorded"
    /\ row' = IF row[r].status = "publishing" THEN [row EXCEPT ![r].status = "completed"] ELSE row
    /\ Finish(r)
    /\ UNCHANGED <<clock, found, host, records, troubles, history>>

\* _mark_failed after an error of any step.
Fail(r) ==
    /\ at[r] = "failing"
    /\ IF row[r].status = "publishing" THEN Failing(r) ELSE UNCHANGED <<row, clock>>
    /\ Finish(r)
    /\ UNCHANGED <<found, host, records, troubles, history>>

Crash(r) ==
    /\ at[r] \in Working
    /\ Trouble("crash")
    /\ Finish(r)
    /\ UNCHANGED <<runs, host, records, history>>

\* The sweep fails a run that shows no progress, its worker dead or only slow.
Sweep(r) ==
    /\ row[r].status = "publishing"
    /\ IF at[r] \in Working THEN Trouble("slow") ELSE UNCHANGED troubles
    /\ Failing(r)
    /\ UNCHANGED <<at, local, found, host, records, history>>

\* A retarget cancels the run.
Cancel(r) ==
    /\ row[r].status = "publishing"
    /\ Trouble("cancel")
    /\ row' = [row EXCEPT ![r].status = "cancelled"]
    /\ UNCHANGED <<at, local, clock, found, host, records, history>>

\* A human closes a thread; a push moves the code under one away.
CloseThread(t) ==
    /\ t[2] \in comments[t[1]] /\ t \notin closed
    /\ Trouble("close")
    /\ closed' = closed \cup {t}
    /\ UNCHANGED <<runs, at, local, posted, comments, outdated, records, history>>

Outdate(t) ==
    /\ t[2] \in comments[t[1]] /\ t \notin outdated
    /\ Trouble("outdate")
    /\ outdated' = outdated \cup {t}
    /\ UNCHANGED <<runs, at, local, posted, comments, closed, records, history>>

Publisher(r) ==
    \/ Begin(r) \/ ReadOrphans(r) \/ FindReview(r) \/ FindFails(r) \/ Adopt(r)
    \/ ReadThreads(r) \/ Sync(r) \/ SyncFails(r) \/ CheckNotCancelled(r)
    \/ Post(r) \/ PostWithoutIds(r) \/ PostUnanswered(r) \/ Record(r)
    \/ Complete(r) \/ Fail(r) \/ Crash(r) \/ Sweep(r) \/ Cancel(r)

PubNext ==
    \/ \E r \in Reviews : Publisher(r)
    \/ \E t \in Threads : CloseThread(t) \/ Outdate(t)

PubSpec == PubInit /\ [][PubNext]_pubVars

PubTypeOK ==
    /\ row \in [Reviews -> [status : {"waiting", "publishing", "completed", "failed", "cancelled"},
                            failedAt : 0..clock]]
    /\ at \in [Reviews -> Working \cup {"idle", "done"}]
    /\ local \in [Reviews -> [now : 0..clock, orphans : SUBSET Reviews, threads : SUBSET Threads,
                              drafts : SUBSET Places, ids : BOOLEAN]]
    /\ found \in [Reviews -> [Places -> 0..Critical]]
    /\ posted \subseteq Reviews /\ comments \in [Reviews -> SUBSET Places]
    /\ closed \subseteq Threads /\ outdated \subseteq Threads
    /\ recorded \subseteq Reviews /\ inlineRow \subseteq Threads
    /\ publishedAt \in [Reviews -> 0..clock] /\ clock \in Nat
    /\ troubles \in 0..Troubles
    /\ before \in [Reviews -> SUBSET Reviews] /\ lost \subseteq Reviews
    /\ hidden \subseteq Reviews \X Reviews /\ blind \subseteq Reviews

Owed(r) == {q \in before[r] \ lost : <<r, q>> \notin hidden}
Repeats(r, q) == \E p \in comments'[r] \cap comments[q] :
    <<q, p>> \notin outdated /\ found[q][p] >= found[r][p]

\* A review repeats no comment that stands on the pull request and is at least as
\* severe, be it of a run whose worker died after the POST, unless the host
\* refused to tell or an adoption under way hid it (publish_review, #222).
OrphanIsNotRepeated ==
    [][\A r \in posted' \ posted : \A q \in Owed(r) : r \notin blind => ~Repeats(r, q)]_pubVars

\* A run that completes leaves no review of an earlier run unknown to the
\* database: its findings count in the merge gate.
CompletedKnowsAll == \A r \in Reviews : row[r].status = "completed" =>
    \A q \in Owed(r) : q \in recorded /\ {q} \X comments[q] \subseteq inlineRow

\* The scenario of the specification without the excuse of an adoption under way:
\* what a failed run put on the pull request is not published again.
AdoptionSurvivesDeath ==
    [][\A r \in posted' \ posted : \A q \in before[r] \ lost :
          r \notin blind => ~Repeats(r, q)]_pubVars
=============================================================================
