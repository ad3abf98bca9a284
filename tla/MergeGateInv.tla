--------------------------- MODULE MergeGateInv ---------------------------
(***************************************************************************)
(* The inductive invariants of MergeGate: GateInv behind TypeOK and        *)
(* VerdictOfAReview, SettledInv behind GateSettled. MergeGateProofs proves *)
(* them inductive, the run gate_settles checks the second, which has the   *)
(* first as a conjunct.                                                    *)
(***************************************************************************)
EXTENDS MergeGate

IsVerdict(check) == check.title \in {"passed", "blocked"}

\* What a process p at s with local variables v relies on, when R are the runs
\* whose review is recorded: it knows the run it acts for, whatever verdict it
\* sends or computes is of a recorded review, and a worker that is past its
\* record has one.
Good(p, s, v, R) ==
    /\ s \in States /\ v \in Locals
    /\ s \in Settling => /\ v.task \in {"none", "claim", "publish", "retarget"}
                         /\ v.task = "retarget" => v.run \in Runs
    /\ s = "fetch" => v.task \in {"webhook", "manual"}
    /\ s = "enqueue" => v.run \in Runs
    /\ s = "restore" => v.old \in Branches
    /\ IsVerdict(v.check) => v.check.link \in R
    /\ s = "findings" => v.link \in R
    /\ p \in Runs /\ (s = "completing" \/ v.task = "publish") => p \in R

ProcessesGood == \A p \in Procs : Good(p, pc[p], loc[p], recorded)

CompletedRecorded == \A r \in Runs : status[r] = "completed" => r \in recorded

GateInv == TypeOK /\ ProcessesGood /\ CompletedRecorded /\ VerdictOfAReview

\* Runs are stored in their order, and only the latest one may be under way.
RowsInOrder == \A r \in Runs :
    /\ status[r] # "absent" => \A q \in 1..(r - 1) : status[q] # "absent"
    /\ status[r] \in Nonterminal => \A q \in Runs : status[q] # "absent" => q <= r

\* What row and records say of the stage a process is at (s, with v): before a worker
\* records its run it has no review; while it publishes, its row says so or is over. A pause
\* check that is sent or was sent says why.
Late == {"publishing"} \cup Terminal
Told(p, s, v, R, st) ==
    /\ p \in Runs /\ (s \in {"idle", "working", "publishing", "recording"} \/ v.task = "claim")
       => p \notin R
    /\ p \in Runs /\ (s \in {"publishing", "recording", "completing"} \/ v.task = "publish")
       => st[p] \in Late
    /\ s \in {"pausing", "reread"} => \E why \in Pauses : v.check = PauseCheck(why)
ProcessesTold == \A p \in Procs : Told(p, pc[p], loc[p], recorded, status)

\* A process that will bring the host up to date: its next look at the database cannot end
\* with a check that is not there.  What it believes to be there is the check of the host.
Knows(p) == loc[p].check \in {NoCheck, host}
StillSo(r, level) ==
    /\ r = InCharge /\ r # NoRun /\ level = repo.level
    /\ Pause(repo, r, Admitted) = "none" /\ ReviewThere(r)
Corrects(p) ==
    \/ pc[p] \in {"post", "decide", "sync", "refresh", "pausing"}
    \/ pc[p] = "read" /\ Knows(p)
    \/ /\ pc[p] = "findings" /\ Knows(p)
       /\ loc[p].check = NoCheck \/ StillSo(loc[p].link, loc[p].level)
    \/ pc[p] = "reread" /\ loc[p].check = host
    \/ /\ pc[p] = "block" /\ loc[p].run \in Runs
       /\ status[loc[p].run] = "failed" /\ Latest = loc[p].run

\* The host has the check the database calls for, or there is an excuse, or someone will
\* correct it.
HostKept == left = "none" => host = Wanted \/ \E p \in Procs : Corrects(p)

Kept == RowsInOrder /\ ProcessesTold /\ HostKept

\* The inductive invariant: whoever changes what the check depends on, or sends a check, looks
\* at the database after that (settle_merge_gate, publish_pause_check), or has an excuse.
SettledInv == GateInv /\ Kept
=============================================================================
