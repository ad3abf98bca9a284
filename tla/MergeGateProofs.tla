------------------------- MODULE MergeGateProofs -------------------------
(***************************************************************************)
(* Proofs about MergeGate, for any number of runs, hooks and attempts, any *)
(* levels, branches and settings: types, that a verdict on the commit is   *)
(* one of a review that is on the pull request, and that the gate ends as  *)
(* the database says.                                                      *)
(***************************************************************************)
EXTENDS MergeGateInv, WellFoundedInduction, TLAPS

USE DEF runVars

----------------------------------------------------------------------------
(* What the operators over the rows return. *)

\* A non-empty set of runs has a newest one.
LEMMA NewestIn ==
  ASSUME NEW S \in SUBSET Runs
  PROVE  /\ Newest(S) \in Runs \cup {NoRun}
         /\ Newest(S) # NoRun => Newest(S) \in S
  <1>1. CASE S = {}
    BY <1>1 DEF Newest
  <1>2. CASE S # {}
    <2> DEFINE T == {MaxRuns - q : q \in S}
               R == OpToRel(<, Nat)
    <2>1. S \subseteq Nat /\ \A q \in S : q <= MaxRuns
      BY GateAssumption DEF Runs
    <2>2. T \subseteq Nat /\ T # {}
      <3>1. \A q \in S : MaxRuns - q \in Nat
        BY <2>1, GateAssumption
      <3>2. T \subseteq Nat
        BY <3>1
      <3>3. PICK q \in S : TRUE
        BY <1>2
      <3>4. MaxRuns - q \in T
        BY <3>3
      <3>5. QED BY <3>2, <3>4
    <2>3. \E x \in T : \A y \in T : <<y, x>> \notin R
      <3>1. IsWellFoundedOn(R, Nat)
        BY NatLessThanWellFounded
      <3> HIDE DEF T, R
      <3>2. QED BY <2>2, <3>1, WFMin
    <2>4. PICK x \in T : \A y \in T : <<y, x>> \notin R
      BY <2>3
    <2>5. PICK m \in S : x = MaxRuns - m
      BY <2>4
    <2>6. \A q \in S : q <= m
      <3> SUFFICES ASSUME NEW q \in S PROVE q <= m
        OBVIOUS
      <3>1. MaxRuns - q \in T /\ MaxRuns - q \in Nat /\ x \in Nat
        BY <2>2
      <3>2. ~ (MaxRuns - q < x)
        BY <2>4, <3>1 DEF OpToRel
      <3>3. q \in Nat /\ m \in Nat /\ MaxRuns \in Nat
        BY <2>1, GateAssumption
      <3>4. QED BY <2>5, <3>2, <3>3
    <2>7. Newest(S) \in S
      BY <1>2, <2>6 DEF Newest
    <2>8. QED BY <2>7
  <1>3. QED BY <1>1, <1>2

LEMMA LatestIn ==
  /\ Latest \in Runs \cup {NoRun}
  /\ CompletedManual \in Runs \cup {NoRun}
  <1>1. Stored \in SUBSET Runs
    BY DEF Stored
  <1>2. {r \in Stored : trigger[r] = "manual" /\ status[r] = "completed"} \in SUBSET Runs
    BY <1>1
  <1>3. QED BY <1>1, <1>2, NewestIn DEF Latest, CompletedManual

LEMMA InChargeIn ==
  ASSUME NEW rp
  PROVE  InChargeUnder(rp) \in Runs \cup {NoRun}
  BY LatestIn DEF InChargeUnder

LEMMA PauseIn ==
  ASSUME NEW rp, rp.connected \in BOOLEAN, rp.auto \in BOOLEAN,
         NEW r, NEW admitted \in BOOLEAN
  PROVE  Pause(rp, r, admitted) \in Pauses \cup {"none"}
  BY DEF Pause, Pauses, ManualHolds

LEMMA PauseNow ==
  ASSUME repo \in Repos, NEW r, NEW admitted \in BOOLEAN
  PROVE  Pause(repo, r, admitted) \in Pauses \cup {"none"}
  <1>1. repo.connected \in BOOLEAN /\ repo.auto \in BOOLEAN
    BY GateAssumption
  <1>2. QED BY <1>1, PauseIn

LEMMA PauseGiven ==
  ASSUME repo \in Repos, NEW p, NEW r, NEW admitted \in BOOLEAN
  PROVE  Pause(Given(p), r, admitted) \in Pauses \cup {"none"}
  <1>1. Given(p).connected \in BOOLEAN /\ Given(p).auto \in BOOLEAN
    BY GateAssumption DEF Given
  <1>2. QED BY <1>1, PauseIn

\* The checks anyone may send are checks, and only Verdict makes a verdict.
LEMMA PauseCheckType ==
  ASSUME NEW why \in Pauses
  PROVE  PauseCheck(why) \in Checks /\ ~IsVerdict(PauseCheck(why))
  BY DEF PauseCheck, Checks, Titles, Pauses, IsVerdict

LEMMA NoVerdictType ==
  ASSUME NEW r \in Runs
  PROVE  NoVerdict(r) \in Checks /\ ~IsVerdict(NoVerdict(r))
  BY DEF NoVerdict, Checks, Titles, IsVerdict

LEMMA VerdictType ==
  ASSUME NEW r \in Runs \cup {NoRun}, NEW level \in Levels \cup {0}
  PROVE  Verdict(r, level) \in Checks /\ Verdict(r, level).link = r
  BY DEF Verdict, Checks, Titles

LEMMA IdleGood ==
  ASSUME NEW p, NEW s \in {"idle", "done"}, NEW R
  PROVE  Idle \in Locals /\ Good(p, s, Idle, R)
  <1>1. 0 \in 0..(Attempts - 1)
    BY GateAssumption
  <1>2. Idle \in Locals
    BY <1>1 DEF Idle, Locals, Tasks, NoCheck, Checks, Titles
  <1>3. QED
    BY <1>2 DEF Good, States, Settling, IsVerdict, Idle, NoCheck

----------------------------------------------------------------------------
(* Moves of one process. *)

\* The process p goes to s with v; the others lose nothing as long as no record
\* disappears.
LEMMA Moved ==
  ASSUME TypeOK, ProcessesGood, NEW p \in Procs, NEW s, NEW v,
         recorded \subseteq recorded',
         pc' = [pc EXCEPT ![p] = s], loc' = [loc EXCEPT ![p] = v],
         Good(p, s, v, recorded')
  PROVE  /\ pc' \in [Procs -> States] /\ loc' \in [Procs -> Locals]
         /\ ProcessesGood'
  <1>1. s \in States /\ v \in Locals
    BY DEF Good
  <1>2. pc' \in [Procs -> States] /\ loc' \in [Procs -> Locals]
    BY <1>1 DEF TypeOK
  <1>3. ASSUME NEW q \in Procs PROVE Good(q, pc'[q], loc'[q], recorded')
    <2>1. CASE q = p
      BY <2>1 DEF TypeOK
    <2>2. CASE q # p
      <3>1. pc'[q] = pc[q] /\ loc'[q] = loc[q]
        BY <2>2 DEF TypeOK
      <3>2. Good(q, pc[q], loc[q], recorded)
        BY DEF ProcessesGood
      <3>3. QED BY <3>1, <3>2 DEF Good
    <2>3. QED BY <2>1, <2>2
  <1>4. QED BY <1>2, <1>3 DEF ProcessesGood

LEMMA Stopped ==
  ASSUME TypeOK, ProcessesGood, NEW p \in Procs, recorded \subseteq recorded', Stop(p)
  PROVE  /\ pc' \in [Procs -> States] /\ loc' \in [Procs -> Locals]
         /\ ProcessesGood'
  <1> DEFINE s == IF p \in Runs THEN "done" ELSE "idle"
  <1>1. pc' = [pc EXCEPT ![p] = s] /\ loc' = [loc EXCEPT ![p] = Idle]
    BY DEF Stop, Goto
  <1>2. Good(p, s, Idle, recorded')
    BY IdleGood
  <1> HIDE DEF s
  <1>3. QED BY <1>1, <1>2, Moved

\* One who begins to settle the gate.
LEMMA Begun ==
  ASSUME TypeOK, ProcessesGood, NEW p \in Procs, recorded \subseteq recorded',
         NEW task \in {"none", "claim", "publish"},
         task = "publish" => p \in recorded',
         BeginSettle(p, task, NoRun)
  PROVE  /\ pc' \in [Procs -> States] /\ loc' \in [Procs -> Locals]
         /\ ProcessesGood'
  <1> DEFINE v == [Idle EXCEPT !.task = task, !.run = NoRun]
  <1>1. pc' = [pc EXCEPT ![p] = "read"] /\ loc' = [loc EXCEPT ![p] = v]
    BY DEF BeginSettle, Goto
  <1>2. Idle \in Locals
    BY IdleGood
  <1>3. v \in Locals /\ v.task = task /\ v.check = NoCheck
    BY <1>2 DEF Locals, Tasks, Idle
  <1>4. Good(p, "read", v, recorded')
    BY <1>3 DEF Good, States, Attending, Settling, IsVerdict, NoCheck
  <1> HIDE DEF v
  <1>5. QED BY <1>1, <1>4, Moved

\* What a process knows that is in a call of settle_merge_gate.
LEMMA SettlingKnows ==
  ASSUME TypeOK, ProcessesGood, NEW p \in Procs, pc[p] \in Settling
  PROVE  /\ loc[p] \in Locals
         /\ loc[p].task \in {"none", "claim", "publish", "retarget"}
         /\ loc[p].task = "retarget" => loc[p].run \in Runs
         /\ IsVerdict(loc[p].check) => loc[p].check.link \in recorded
         /\ p \in Runs /\ loc[p].task = "publish" => p \in recorded
  BY DEF ProcessesGood, Good

LEMMA Returned ==
  ASSUME TypeOK, ProcessesGood, NEW p \in Procs, pc[p] \in Settling,
         recorded \subseteq recorded', Return(p)
  PROVE  /\ pc' \in [Procs -> States] /\ loc' \in [Procs -> Locals]
         /\ ProcessesGood'
  <1> DEFINE v == IF loc[p].task = "retarget" THEN [Idle EXCEPT !.run = loc[p].run]
                  ELSE Idle
  <1>1. pc' = [pc EXCEPT ![p] = After(p)] /\ loc' = [loc EXCEPT ![p] = v]
    BY DEF Return, Goto
  <1>2. /\ loc[p].task \in {"none", "claim", "publish", "retarget"}
        /\ loc[p].task = "retarget" => loc[p].run \in Runs
        /\ p \in Runs /\ loc[p].task = "publish" => p \in recorded'
    BY SettlingKnows
  <1>3. Idle \in Locals
    BY IdleGood
  <1>4. /\ v \in Locals /\ v.task = "none" /\ v.check = NoCheck
        /\ loc[p].task = "retarget" => v.run \in Runs
    BY <1>2, <1>3 DEF Locals, Idle
  <1>5. /\ After(p) \in {"working", "completing", "enqueue", "idle", "done"}
        /\ After(p) = "completing" => loc[p].task = "publish"
        /\ After(p) = "enqueue" => loc[p].task = "retarget"
    BY <1>2 DEF After
  <1>6. Good(p, After(p), v, recorded')
    BY <1>2, <1>4, <1>5 DEF Good, States, Settling, IsVerdict, NoCheck
  <1> HIDE DEF v
  <1>7. QED BY <1>1, <1>6, Moved

LEMMA TryPosted ==
  ASSUME TypeOK, ProcessesGood, NEW p \in Procs, pc[p] \in Settling,
         NEW check \in Checks, IsVerdict(check) => check.link \in recorded,
         recorded' = recorded, TryPost(p, check)
  PROVE  /\ pc' \in [Procs -> States] /\ loc' \in [Procs -> Locals]
         /\ ProcessesGood'
  <1>1. CASE check = loc[p].check
    BY <1>1, Returned DEF TryPost
  <1>2. CASE check # loc[p].check
    <2> DEFINE v == [loc[p] EXCEPT !.check = check, !.link = NoRun, !.level = 0]
    <2>1. pc' = [pc EXCEPT ![p] = "post"] /\ loc' = [loc EXCEPT ![p] = v]
      BY <1>2 DEF TryPost, Goto, TypeOK
    <2>2. /\ loc[p] \in Locals
          /\ loc[p].task \in {"none", "claim", "publish", "retarget"}
          /\ loc[p].task = "retarget" => loc[p].run \in Runs
          /\ p \in Runs /\ loc[p].task = "publish" => p \in recorded
      BY SettlingKnows
    <2>3. /\ v \in Locals /\ v.check = check
          /\ v.task = loc[p].task /\ v.run = loc[p].run
      BY <2>2 DEF Locals
    <2>4. Good(p, "post", v, recorded')
      BY <2>2, <2>3 DEF Good, States, Attending, Settling
    <2> HIDE DEF v
    <2>5. QED BY <2>1, <2>4, Moved
  <1>3. QED BY <1>1, <1>2

----------------------------------------------------------------------------
(* The steps of settle_merge_gate keep the invariant. *)

LEMMA SettleReadKeeps ==
  ASSUME GateInv, NEW p \in Procs, SettleRead(p)
  PROVE  GateInv'
  <1> DEFINE r == InCharge
             why == Pause(repo, r, Admitted)
  <1> USE DEF GateInv
  <1>1. /\ pc[p] \in Settling /\ recorded' = recorded
        /\ r \in Runs \cup {NoRun}
    BY InChargeIn DEF SettleRead, Settling, InCharge
  <1>2. why \in Pauses \cup {"none"}
    <2>1. Admitted \in BOOLEAN /\ repo \in Repos
      BY DEF TypeOK, Admitted
    <2>2. QED BY <2>1, PauseNow
  <1>3. CASE r = NoRun /\ Return(p)
    BY <1>1, <1>3, Returned DEF SettleRead, TypeOK, CompletedRecorded, VerdictOfAReview
  <1>4. CASE why \in Pauses /\ TryPost(p, PauseCheck(why))
    <2>1. PauseCheck(why) \in Checks /\ ~IsVerdict(PauseCheck(why))
      BY <1>4, PauseCheckType
    <2> HIDE DEF why
    <2>2. /\ pc' \in [Procs -> States] /\ loc' \in [Procs -> Locals]
          /\ ProcessesGood'
      BY <1>1, <1>4, <2>1, TryPosted
    <2>3. QED BY <2>2 DEF SettleRead, TypeOK, CompletedRecorded, VerdictOfAReview
  <1>5. ASSUME r # NoRun, ReviewThere(r), Goto(p, "findings"),
               loc' = [loc EXCEPT ![p].link = r, ![p].level = repo.level]
        PROVE  GateInv'
    <2> DEFINE v == [loc[p] EXCEPT !.link = r, !.level = repo.level]
    <2>1. r \in recorded
      BY <1>1, <1>5 DEF ReviewThere, CompletedRecorded
    <2>2. repo.level \in Levels
      BY GateAssumption DEF TypeOK
    <2>3. /\ loc[p] \in Locals
          /\ loc[p].task \in {"none", "claim", "publish", "retarget"}
          /\ loc[p].task = "retarget" => loc[p].run \in Runs
          /\ IsVerdict(loc[p].check) => loc[p].check.link \in recorded
          /\ p \in Runs /\ loc[p].task = "publish" => p \in recorded
      BY <1>1, SettlingKnows
    <2> HIDE DEF r
    <2>4. /\ v \in Locals /\ v.link = r /\ v.check = loc[p].check
          /\ v.task = loc[p].task /\ v.run = loc[p].run
      BY <1>1, <2>2, <2>3 DEF Locals
    <2>5. Good(p, "findings", v, recorded')
      BY <1>1, <2>1, <2>3, <2>4 DEF Good, States, Attending, Settling
    <2>6. pc' = [pc EXCEPT ![p] = "findings"] /\ loc' = [loc EXCEPT ![p] = v]
      BY <1>5 DEF Goto, TypeOK
    <2> HIDE DEF v
    <2>7. /\ pc' \in [Procs -> States] /\ loc' \in [Procs -> Locals]
          /\ ProcessesGood'
      BY <1>1, <2>5, <2>6, Moved
    <2>8. QED BY <2>7 DEF SettleRead, TypeOK, CompletedRecorded, VerdictOfAReview
  <1>6. CASE r # NoRun /\ TryPost(p, NoVerdict(r))
    <2>1. NoVerdict(r) \in Checks /\ ~IsVerdict(NoVerdict(r))
      BY <1>1, <1>6, NoVerdictType
    <2> HIDE DEF r
    <2>2. /\ pc' \in [Procs -> States] /\ loc' \in [Procs -> Locals]
          /\ ProcessesGood'
      BY <1>1, <1>6, <2>1, TryPosted
    <2>3. QED BY <2>2 DEF SettleRead, TypeOK, CompletedRecorded, VerdictOfAReview
  <1>7. QED BY <1>2, <1>3, <1>4, <1>5, <1>6 DEF SettleRead

LEMMA SettleFindingsKeeps ==
  ASSUME GateInv, NEW p \in Procs, SettleFindings(p)
  PROVE  GateInv'
  <1> DEFINE check == Verdict(loc[p].link, loc[p].level)
  <1> USE DEF GateInv
  <1>1. pc[p] = "findings" /\ pc[p] \in Settling /\ recorded' = recorded
    BY DEF SettleFindings, Settling
  <1>2. /\ loc[p].link \in Runs \cup {NoRun} /\ loc[p].level \in Levels \cup {0}
        /\ loc[p].link \in recorded
    BY <1>1 DEF TypeOK, Locals, ProcessesGood, Good
  <1>3. check \in Checks /\ check.link \in recorded
    BY <1>2, VerdictType
  <1>4. TryPost(p, check)
    BY DEF SettleFindings
  <1> HIDE DEF check
  <1>5. /\ pc' \in [Procs -> States] /\ loc' \in [Procs -> Locals]
        /\ ProcessesGood'
    BY <1>1, <1>3, <1>4, TryPosted
  <1>6. QED BY <1>5 DEF SettleFindings, TypeOK, CompletedRecorded, VerdictOfAReview

LEMMA SettlePostKeeps ==
  ASSUME GateInv, NEW p \in Procs, SettlePost(p)
  PROVE  GateInv'
  <1> USE DEF GateInv
  <1>1. pc[p] = "post" /\ pc[p] \in Settling /\ recorded' = recorded
    BY DEF SettlePost, Settling
  <1>2. /\ loc[p] \in Locals /\ loc[p].check \in Checks
        /\ IsVerdict(loc[p].check) => loc[p].check.link \in recorded
    BY <1>1, SettlingKnows DEF Locals
  <1>3. Good(p, "read", loc[p], recorded')
    BY <1>1 DEF ProcessesGood, Good, States, Attending, Settling
  <1>4. pc' = [pc EXCEPT ![p] = "read"] /\ loc' = [loc EXCEPT ![p] = loc[p]]
    BY DEF SettlePost, Goto, TypeOK
  <1>5. /\ pc' \in [Procs -> States] /\ loc' \in [Procs -> Locals]
        /\ ProcessesGood'
    BY <1>1, <1>3, <1>4, Moved
  <1>6. host' \in Checks /\ VerdictOfAReview'
    BY <1>1, <1>2 DEF SettlePost, VerdictOfAReview, IsVerdict
  <1>7. QED BY <1>5, <1>6 DEF SettlePost, TypeOK, Excuses, CompletedRecorded

\* A disturbance is one of the budget.
LEMMA Disturbed ==
  ASSUME TypeOK, Disturb
  PROVE  budget' \in 0..Budget
  BY GateAssumption DEF TypeOK, Disturb

LEMMA SettleErrorKeeps ==
  ASSUME GateInv, NEW p \in Procs, SettleError(p)
  PROVE  GateInv'
  <1> USE DEF GateInv
  <1>1. pc[p] = "post" /\ pc[p] \in Settling /\ recorded' = recorded
    BY DEF SettleError, Settling
  <1>2. /\ loc[p] \in Locals /\ loc[p].check \in Checks
        /\ loc[p].task \in {"none", "claim", "publish", "retarget"}
        /\ loc[p].task = "retarget" => loc[p].run \in Runs
        /\ IsVerdict(loc[p].check) => loc[p].check.link \in recorded
        /\ p \in Runs /\ loc[p].task = "publish" => p \in recorded
    BY <1>1, SettlingKnows DEF Locals
  <1>3. host' \in Checks /\ VerdictOfAReview'
    BY <1>1, <1>2 DEF SettleError, TypeOK, VerdictOfAReview, IsVerdict
  <1>4. budget' \in 0..Budget
    BY Disturbed DEF SettleError
  <1>5. left' \in Excuses
    BY DEF SettleError, TypeOK, Excuses
  <1> DEFINE Going == /\ pc' \in [Procs -> States] /\ loc' \in [Procs -> Locals]
                      /\ ProcessesGood'
  <1>6. ASSUME loc[p].failures + 1 < AttemptsOf(p), Goto(p, "read"),
               loc' = [loc EXCEPT ![p].check = NoCheck, ![p].failures = @ + 1]
        PROVE  Going
    <2> DEFINE v == [loc[p] EXCEPT !.check = NoCheck, !.failures = @ + 1]
    <2>1. loc[p].failures + 1 \in 0..(Attempts - 1)
      BY <1>2, <1>6, GateAssumption DEF AttemptsOf, Locals
    <2>2. NoCheck \in Checks
      BY DEF NoCheck, Checks, Titles
    <2>3. /\ v \in Locals /\ v.check = NoCheck
          /\ v.task = loc[p].task /\ v.run = loc[p].run
      BY <1>2, <2>1, <2>2 DEF Locals
    <2>4. Good(p, "read", v, recorded')
      BY <1>1, <1>2, <2>3 DEF Good, States, Attending, Settling, IsVerdict, NoCheck
    <2>5. pc' = [pc EXCEPT ![p] = "read"] /\ loc' = [loc EXCEPT ![p] = v]
      BY <1>6 DEF Goto, TypeOK
    <2> HIDE DEF v
    <2>6. QED BY <1>1, <2>4, <2>5, Moved
  <1>7. ASSUME Goto(p, "compensate"),
               loc' = [loc EXCEPT ![p] =
                         [Idle EXCEPT !.run = loc[p].run, !.old = loc[p].old]]
        PROVE  Going
    <2> DEFINE v == [Idle EXCEPT !.run = loc[p].run, !.old = loc[p].old]
    <2>1. Idle \in Locals
      BY IdleGood
    <2>2. v \in Locals /\ v.task = "none" /\ v.check = NoCheck
      BY <1>2, <2>1 DEF Locals, Idle
    <2>3. Good(p, "compensate", v, recorded')
      BY <2>2 DEF Good, States, Settling, IsVerdict, NoCheck
    <2>4. pc' = [pc EXCEPT ![p] = "compensate"] /\ loc' = [loc EXCEPT ![p] = v]
      BY <1>7 DEF Goto
    <2> HIDE DEF v
    <2>5. QED BY <1>1, <2>3, <2>4, Moved
  <1>8. ASSUME Return(p) PROVE Going
    BY <1>1, <1>8, Returned
  <1>9. Going
    BY <1>6, <1>7, <1>8 DEF SettleError
  <1>10. QED
    BY <1>3, <1>4, <1>5, <1>9 DEF SettleError, TypeOK, CompletedRecorded

----------------------------------------------------------------------------
(* Moves outside settle_merge_gate. *)

Plain == States \ (Settling \cup {"fetch", "enqueue", "restore", "completing"})

LEMMA WentOn ==
  ASSUME TypeOK, ProcessesGood, NEW p \in Procs, NEW s \in Plain,
         recorded \subseteq recorded', Goto(p, s), UNCHANGED loc
  PROVE  /\ pc' \in [Procs -> States] /\ loc' \in [Procs -> Locals]
         /\ ProcessesGood'
  <1>1. pc' = [pc EXCEPT ![p] = s] /\ loc' = [loc EXCEPT ![p] = loc[p]]
    BY DEF Goto, TypeOK
  <1>2. Good(p, pc[p], loc[p], recorded)
    BY DEF ProcessesGood
  <1>3. Good(p, s, loc[p], recorded')
    BY <1>2 DEF Good, Plain, Settling
  <1>4. QED BY <1>1, <1>3, Moved

LEMMA SetOut ==
  ASSUME TypeOK, ProcessesGood, NEW p \in Procs, NEW s \in Plain, NEW v \in Locals,
         ~IsVerdict(v.check), v.task # "publish",
         recorded \subseteq recorded', Goto(p, s), loc' = [loc EXCEPT ![p] = v]
  PROVE  /\ pc' \in [Procs -> States] /\ loc' \in [Procs -> Locals]
         /\ ProcessesGood'
  <1>1. Good(p, s, v, recorded')
    BY DEF Good, Plain, Settling
  <1>2. pc' = [pc EXCEPT ![p] = s]
    BY DEF Goto
  <1>3. QED BY <1>1, <1>2, Moved

\* A run that ends without being completed.
LEMMA StatusSet ==
  ASSUME TypeOK, CompletedRecorded, NEW r,
         NEW s \in (Statuses \cup {"absent"}) \ {"completed"},
         recorded \subseteq recorded', status' = [status EXCEPT ![r] = s]
  PROVE  status' \in [Runs -> Statuses \cup {"absent"}] /\ CompletedRecorded'
  BY DEF TypeOK, CompletedRecorded

LEMMA EndsFailed ==
  ASSUME TypeOK, CompletedRecorded, NEW r, recorded \subseteq recorded',
         status' = [status EXCEPT ![r] = IF @ \in Nonterminal THEN "failed" ELSE @]
  PROVE  status' \in [Runs -> Statuses \cup {"absent"}] /\ CompletedRecorded'
  BY DEF TypeOK, CompletedRecorded, Statuses, Terminal

LEMMA FailsKeeps ==
  ASSUME TypeOK, ProcessesGood, CompletedRecorded, NEW r \in Runs,
         recorded' = recorded, Fails(r)
  PROVE  /\ pc' \in [Procs -> States] /\ loc' \in [Procs -> Locals]
         /\ ProcessesGood'
         /\ status' \in [Runs -> Statuses \cup {"absent"}] /\ CompletedRecorded'
  <1>1. r \in Procs
    BY DEF Procs
  <1>2. CASE Stop(r) /\ UNCHANGED status
    BY <1>1, <1>2, Stopped DEF TypeOK, CompletedRecorded
  <1>3. CASE /\ Goto(r, "block")
             /\ loc' = [loc EXCEPT ![r] = [Idle EXCEPT !.run = r]]
             /\ status' = [status EXCEPT ![r] = IF @ \in Nonterminal THEN "failed" ELSE @]
    <2> DEFINE v == [Idle EXCEPT !.run = r]
    <2>1. Idle \in Locals
      BY IdleGood
    <2>2. v \in Locals /\ v.check = NoCheck /\ v.task = "none"
      BY <2>1 DEF Locals, Idle
    <2>3. "block" \in Plain /\ ~IsVerdict(v.check) /\ v.task # "publish"
      BY <2>2 DEF Plain, States, Attending, Settling, IsVerdict, NoCheck
    <2>4. loc' = [loc EXCEPT ![r] = v]
      BY <1>3
    <2> HIDE DEF v
    <2>5. /\ pc' \in [Procs -> States] /\ loc' \in [Procs -> Locals]
          /\ ProcessesGood'
      BY <1>1, <1>3, <2>2, <2>3, <2>4, SetOut
    <2>6. QED BY <1>3, <2>5, EndsFailed
  <1>4. QED BY <1>2, <1>3 DEF Fails

----------------------------------------------------------------------------
(* The steps of a worker keep the invariant. *)

LEMMA ClaimKeeps ==
  ASSUME GateInv, NEW r \in Runs, Claim(r)
  PROVE  GateInv'
  <1> USE DEF GateInv
  <1>1. r \in Procs /\ recorded' = recorded
    BY DEF Procs, Claim
  <1>2. /\ pc' \in [Procs -> States] /\ loc' \in [Procs -> Locals]
        /\ ProcessesGood'
    BY <1>1, Begun, Stopped DEF Claim
  <1>3. "building_context" \in (Statuses \cup {"absent"}) \ {"completed"}
    BY DEF Statuses, Nonterminal
  <1>4. status' \in [Runs -> Statuses \cup {"absent"}] /\ CompletedRecorded'
    BY <1>1, <1>3, StatusSet DEF Claim, TypeOK, CompletedRecorded
  <1>5. QED BY <1>2, <1>4 DEF Claim, TypeOK, VerdictOfAReview

LEMMA StartPublishingKeeps ==
  ASSUME GateInv, NEW r \in Runs, StartPublishing(r)
  PROVE  GateInv'
  <1> USE DEF GateInv
  <1>1. r \in Procs /\ recorded' = recorded
    BY DEF Procs, StartPublishing
  <1>2. "publishing" \in (Statuses \cup {"absent"}) \ {"completed"}
    BY DEF Statuses, Nonterminal
  <1>3. "publishing" \in Plain
    BY DEF Plain, States, Attending, Settling
  <1>4. /\ pc' \in [Procs -> States] /\ loc' \in [Procs -> Locals]
        /\ ProcessesGood'
        /\ status' \in [Runs -> Statuses \cup {"absent"}] /\ CompletedRecorded'
    <2>1. CASE Goto(r, "publishing") /\ UNCHANGED loc
               /\ status' = [status EXCEPT ![r] = "publishing"]
      BY <1>1, <1>2, <1>3, <2>1, WentOn, StatusSet
    <2>2. CASE Fails(r)
      BY <1>1, <2>2, FailsKeeps
    <2>3. QED BY <2>1, <2>2 DEF StartPublishing
  <1>5. QED BY <1>4 DEF StartPublishing, TypeOK, VerdictOfAReview

LEMMA CheckNotCancelledKeeps ==
  ASSUME GateInv, NEW r \in Runs, CheckNotCancelled(r)
  PROVE  GateInv'
  <1> USE DEF GateInv
  <1>1. r \in Procs /\ recorded' = recorded
    BY DEF Procs, CheckNotCancelled
  <1>2. "recording" \in Plain
    BY DEF Plain, States, Attending, Settling
  <1>3. /\ pc' \in [Procs -> States] /\ loc' \in [Procs -> Locals]
        /\ ProcessesGood'
    BY <1>1, <1>2, WentOn, Stopped DEF CheckNotCancelled
  <1>4. QED
    BY <1>3 DEF CheckNotCancelled, TypeOK, CompletedRecorded, VerdictOfAReview

LEMMA RecordKeeps ==
  ASSUME GateInv, NEW r \in Runs, Record(r)
  PROVE  GateInv'
  <1> USE DEF GateInv
  <1>1. r \in Procs /\ recorded' = recorded \cup {r}
    BY DEF Procs, Record
  <1>2. /\ pc' \in [Procs -> States] /\ loc' \in [Procs -> Locals]
        /\ ProcessesGood'
    BY <1>1, Begun DEF Record
  <1>3. /\ finding' \in [Runs -> Levels \cup {0}]
        /\ thread' \in [Runs -> {"none", "open", "closed", "untracked"}]
    BY DEF Record, TypeOK
  <1>4. QED
    BY <1>1, <1>2, <1>3 DEF Record, TypeOK, CompletedRecorded, VerdictOfAReview

LEMMA CompleteKeeps ==
  ASSUME GateInv, NEW r \in Runs, Complete(r)
  PROVE  GateInv'
  <1> USE DEF GateInv
  <1>1. r \in Procs /\ recorded' = recorded
    BY DEF Procs, Complete
  <1>2. r \in recorded
    BY <1>1 DEF Complete, ProcessesGood, Good
  <1>3. /\ pc' \in [Procs -> States] /\ loc' \in [Procs -> Locals]
        /\ ProcessesGood'
        /\ status' \in [Runs -> Statuses \cup {"absent"}] /\ CompletedRecorded'
    <2>1. CASE Stop(r) /\ status' = [status EXCEPT ![r] = "completed"]
      <3>1. status' \in [Runs -> Statuses \cup {"absent"}] /\ CompletedRecorded'
        BY <1>1, <1>2, <2>1 DEF TypeOK, CompletedRecorded, Statuses, Terminal
      <3>2. QED BY <1>1, <2>1, <3>1, Stopped
    <2>2. CASE Fails(r)
      BY <1>1, <2>2, FailsKeeps
    <2>3. QED BY <2>1, <2>2 DEF Complete
  <1>4. QED BY <1>3 DEF Complete, TypeOK, VerdictOfAReview

LEMMA WorkerErrorKeeps ==
  ASSUME GateInv, NEW r \in Runs, WorkerError(r)
  PROVE  GateInv'
  <1> USE DEF GateInv
  <1>1. recorded' = recorded /\ Fails(r)
    BY DEF WorkerError
  <1>2. budget' \in 0..Budget
    BY Disturbed DEF WorkerError
  <1>3. QED BY <1>1, <1>2, FailsKeeps DEF WorkerError, TypeOK, VerdictOfAReview

----------------------------------------------------------------------------
(* The steps of the API and of the sweep keep the invariant. *)

LEMMA IdleWith ==
  ASSUME NEW task \in Tasks \ {"publish"}, NEW run \in Runs \cup {NoRun}
  PROVE  LET v == [Idle EXCEPT !.task = task, !.run = run] IN
         v \in Locals /\ ~IsVerdict(v.check) /\ v.task # "publish"
  BY IdleGood DEF Idle, Locals, IsVerdict, NoCheck

LEMMA ToPause ==
  ASSUME TypeOK, ProcessesGood, NEW p \in Procs, NEW why \in Pauses,
         recorded \subseteq recorded', Goto(p, "pausing"),
         loc' = [loc EXCEPT ![p] = [Idle EXCEPT !.check = PauseCheck(why)]]
  PROVE  /\ pc' \in [Procs -> States] /\ loc' \in [Procs -> Locals]
         /\ ProcessesGood'
  <1> DEFINE v == [Idle EXCEPT !.check = PauseCheck(why)]
  <1>1. PauseCheck(why) \in Checks /\ ~IsVerdict(PauseCheck(why))
    BY PauseCheckType
  <1>2. Idle \in Locals
    BY IdleGood
  <1>3. v \in Locals /\ ~IsVerdict(v.check) /\ v.task # "publish"
    BY <1>1, <1>2 DEF Locals, Idle
  <1>4. "pausing" \in Plain
    BY DEF Plain, States, Attending, Settling
  <1>5. loc' = [loc EXCEPT ![p] = v]
    OBVIOUS
  <1> HIDE DEF v
  <1>6. QED BY <1>3, <1>4, <1>5, SetOut

LEMMA SweepKeeps ==
  ASSUME GateInv, NEW p \in Procs, NEW r \in Runs, Sweep(p, r)
  PROVE  GateInv'
  <1> DEFINE v == [Idle EXCEPT !.run = r]
  <1> USE DEF GateInv
  <1>1. recorded' = recorded /\ loc' = [loc EXCEPT ![p] = v] /\ Goto(p, "block")
    BY DEF Sweep
  <1>2. Idle \in Locals
    BY IdleGood
  <1>3. v \in Locals /\ ~IsVerdict(v.check) /\ v.task # "publish"
    BY <1>2 DEF Locals, Idle, IsVerdict, NoCheck
  <1>4. "block" \in Plain
    BY DEF Plain, States, Attending, Settling
  <1> HIDE DEF v
  <1>5. /\ pc' \in [Procs -> States] /\ loc' \in [Procs -> Locals]
        /\ ProcessesGood'
    BY <1>1, <1>3, <1>4, SetOut
  <1>6. "failed" \in (Statuses \cup {"absent"}) \ {"completed"}
    BY DEF Statuses, Terminal
  <1>7. status' \in [Runs -> Statuses \cup {"absent"}] /\ CompletedRecorded'
    BY <1>1, <1>6, StatusSet DEF Sweep
  <1>8. budget' \in 0..Budget
    BY Disturbed DEF Sweep
  <1>9. QED BY <1>5, <1>7, <1>8 DEF Sweep, TypeOK, VerdictOfAReview

LEMMA BlockHeadKeeps ==
  ASSUME GateInv, NEW p \in Procs, BlockHead(p)
  PROVE  GateInv'
  <1> USE DEF GateInv
  <1>1. recorded' = recorded
    BY DEF BlockHead
  <1>2. /\ pc' \in [Procs -> States] /\ loc' \in [Procs -> Locals]
        /\ ProcessesGood'
    BY <1>1, Begun, Stopped DEF BlockHead
  <1>3. QED BY <1>2 DEF BlockHead, TypeOK, CompletedRecorded, VerdictOfAReview

LEMMA PrWebhookKeeps ==
  ASSUME GateInv, NEW p \in Procs, PrWebhook(p)
  PROVE  GateInv'
  <1> DEFINE why == Pause(repo, InCharge, TRUE)
             v == [Idle EXCEPT !.task = "webhook", !.filter = repo.filter]
  <1> USE DEF GateInv
  <1>1. recorded' = recorded
    BY DEF PrWebhook
  <1>2. why \in Pauses \cup {"none"}
    BY PauseNow DEF TypeOK
  <1>3. Idle \in Locals /\ repo.filter \in SUBSET Branches
    BY IdleGood, GateAssumption DEF TypeOK
  <1>4. v \in Locals /\ ~IsVerdict(v.check) /\ v.task = "webhook"
    BY <1>3 DEF Locals, Tasks, Idle, IsVerdict, NoCheck
  <1>5. Good(p, "fetch", v, recorded')
    BY <1>4 DEF Good, States, Settling
  <1>6. \/ /\ why # "none" /\ Goto(p, "pausing")
           /\ loc' = [loc EXCEPT ![p] = [Idle EXCEPT !.check = PauseCheck(why)]]
        \/ pc' = [pc EXCEPT ![p] = "fetch"] /\ loc' = [loc EXCEPT ![p] = v]
    BY DEF PrWebhook, Goto
  <1> HIDE DEF why, v
  <1>7. /\ pc' \in [Procs -> States] /\ loc' \in [Procs -> Locals]
        /\ ProcessesGood'
    BY <1>1, <1>2, <1>4, <1>5, <1>6, ToPause, Moved
  <1>8. QED BY <1>7 DEF PrWebhook, TypeOK, CompletedRecorded, VerdictOfAReview

LEMMA ManualRequestKeeps ==
  ASSUME GateInv, NEW p \in Procs, ManualRequest(p)
  PROVE  GateInv'
  <1> DEFINE v == [Idle EXCEPT !.task = "manual"]
  <1> USE DEF GateInv
  <1>1. /\ recorded' = recorded /\ loc' = [loc EXCEPT ![p] = v]
        /\ pc' = [pc EXCEPT ![p] = "fetch"]
    BY DEF ManualRequest, Goto
  <1>2. Idle \in Locals
    BY IdleGood
  <1>3. v \in Locals /\ ~IsVerdict(v.check) /\ v.task = "manual"
    BY <1>2 DEF Locals, Tasks, Idle, IsVerdict, NoCheck
  <1>4. Good(p, "fetch", v, recorded')
    BY <1>3 DEF Good, States, Settling
  <1> HIDE DEF v
  <1>5. /\ pc' \in [Procs -> States] /\ loc' \in [Procs -> Locals]
        /\ ProcessesGood'
    BY <1>1, <1>4, Moved
  <1>6. QED BY <1>5 DEF ManualRequest, TypeOK, CompletedRecorded, VerdictOfAReview

LEMMA DeclineKeeps ==
  ASSUME GateInv, NEW p \in Procs, Decline(p)
  PROVE  GateInv'
  BY Stopped DEF GateInv, Decline, TypeOK, CompletedRecorded, VerdictOfAReview

LEMMA SupersededKeeps ==
  ASSUME TypeOK, CompletedRecorded
  PROVE  /\ Superseded \in [Runs -> Statuses \cup {"absent"}]
         /\ \A r \in Runs : Superseded[r] = "completed" => r \in recorded
  BY DEF TypeOK, CompletedRecorded, Superseded, Statuses, Terminal

LEMMA SkipFilteredKeeps ==
  ASSUME GateInv, NEW p \in Procs, NEW b \in Branches, SkipFiltered(p, b)
  PROVE  GateInv'
  <1> DEFINE v == [loc[p] EXCEPT !.task = "pause"]
  <1> USE DEF GateInv
  <1>1. recorded' = recorded /\ pc[p] = "fetch" /\ pc' = [pc EXCEPT ![p] = "decide"]
    BY DEF SkipFiltered, Goto
  <1>2. loc' = [loc EXCEPT ![p] = v] /\ loc[p] \in Locals
    BY DEF SkipFiltered, TypeOK
  <1>3. v \in Locals /\ v.check = loc[p].check /\ v.task = "pause"
    BY <1>2 DEF Locals, Tasks
  <1>4. IsVerdict(v.check) => v.check.link \in recorded'
    BY <1>1, <1>3 DEF ProcessesGood, Good
  <1>5. Good(p, "decide", v, recorded')
    BY <1>3, <1>4 DEF Good, States, Attending, Settling
  <1> HIDE DEF v
  <1>6. /\ pc' \in [Procs -> States] /\ loc' \in [Procs -> Locals]
        /\ ProcessesGood'
    BY <1>1, <1>2, <1>5, Moved
  <1>7. status' \in [Runs -> Statuses \cup {"absent"}] /\ CompletedRecorded'
    BY <1>1, SupersededKeeps DEF SkipFiltered, TypeOK, CompletedRecorded
  <1>8. QED BY <1>6, <1>7 DEF SkipFiltered, TypeOK, VerdictOfAReview

\* What is left of the rows when a run is stored.
LEMMA StoreKeeps ==
  ASSUME TypeOK, NEW r \in Runs, NEW t \in {"webhook", "manual"},
         NEW s \in [Runs -> Statuses \cup {"absent"}],
         \A q \in Runs : s[q] = "completed" => q \in recorded,
         recorded' = recorded, Store(r, t, s)
  PROVE  /\ status' \in [Runs -> Statuses \cup {"absent"}]
         /\ trigger' \in [Runs -> {"webhook", "manual"}]
         /\ CompletedRecorded'
  BY DEF TypeOK, Store, CompletedRecorded, Statuses, Nonterminal

LEMMA LaunchKeeps ==
  ASSUME GateInv, NEW p \in Procs, NEW r \in Runs, NEW b \in Branches,
         Launch(p, r, b)
  PROVE  GateInv'
  <1> DEFINE v == [Idle EXCEPT !.run = r]
  <1> USE DEF GateInv
  <1>1. /\ recorded' = recorded /\ loc' = [loc EXCEPT ![p] = v]
        /\ pc' = [pc EXCEPT ![p] = "enqueue"]
    BY DEF Launch, Goto
  <1>2. Idle \in Locals
    BY IdleGood
  <1>3. v \in Locals /\ ~IsVerdict(v.check) /\ v.task = "none" /\ v.run = r
    BY <1>2 DEF Locals, Idle, IsVerdict, NoCheck
  <1>4. Good(p, "enqueue", v, recorded')
    BY <1>3 DEF Good, States, Settling
  <1> HIDE DEF v
  <1>5. /\ pc' \in [Procs -> States] /\ loc' \in [Procs -> Locals]
        /\ ProcessesGood'
    BY <1>1, <1>4, Moved
  <1>6. loc[p].task \in {"webhook", "manual"}
    BY DEF Launch, ProcessesGood, Good
  <1>7. /\ status' \in [Runs -> Statuses \cup {"absent"}]
        /\ trigger' \in [Runs -> {"webhook", "manual"}]
        /\ CompletedRecorded'
    BY <1>1, <1>6, StoreKeeps DEF Launch, TypeOK, CompletedRecorded
  <1>8. QED BY <1>5, <1>7 DEF Launch, TypeOK, Excuses, VerdictOfAReview

LEMMA RetargetKeeps ==
  ASSUME GateInv, NEW p \in Procs, NEW r \in Runs, NEW b \in Branches,
         Retarget(p, r, b)
  PROVE  GateInv'
  <1> DEFINE v == [Idle EXCEPT !.task = "retarget", !.run = r, !.old = branch]
  <1> USE DEF GateInv
  <1>1. /\ recorded' = recorded /\ loc' = [loc EXCEPT ![p] = v]
        /\ pc' = [pc EXCEPT ![p] = "read"]
    BY DEF Retarget, Goto
  <1>2. Idle \in Locals /\ branch \in Branches
    BY IdleGood DEF TypeOK
  <1>3. v \in Locals /\ ~IsVerdict(v.check) /\ v.task = "retarget" /\ v.run = r
    BY <1>2 DEF Locals, Tasks, Idle, IsVerdict, NoCheck
  <1>4. Good(p, "read", v, recorded')
    BY <1>3 DEF Good, States, Attending, Settling
  <1> HIDE DEF v
  <1>5. /\ pc' \in [Procs -> States] /\ loc' \in [Procs -> Locals]
        /\ ProcessesGood'
    BY <1>1, <1>4, Moved
  <1>6. /\ status' \in [Runs -> Statuses \cup {"absent"}]
        /\ trigger' \in [Runs -> {"webhook", "manual"}]
        /\ CompletedRecorded'
    BY <1>1, StoreKeeps, SupersededKeeps DEF Retarget
  <1>7. QED BY <1>5, <1>6 DEF Retarget, TypeOK, Excuses, VerdictOfAReview

LEMMA EnqueueKeeps ==
  ASSUME GateInv, NEW p \in Procs, Enqueue(p) \/ EnqueueError(p)
  PROVE  GateInv'
  <1> USE DEF GateInv
  <1>1. recorded' = recorded /\ pc[p] = "enqueue"
    BY DEF Enqueue, EnqueueError
  <1>2. loc[p].run \in Runs
    BY <1>1 DEF ProcessesGood, Good
  <1>3. queue' \subseteq Runs
    BY <1>2 DEF Enqueue, EnqueueError, TypeOK
  <1>4. CASE Enqueue(p)
    <2>1. /\ pc' \in [Procs -> States] /\ loc' \in [Procs -> Locals]
          /\ ProcessesGood'
      BY <1>1, <1>4, Stopped DEF Enqueue
    <2>2. QED
      BY <1>3, <1>4, <2>1 DEF Enqueue, TypeOK, CompletedRecorded, VerdictOfAReview
  <1>5. CASE EnqueueError(p)
    <2>1. "compensate" \in Plain
      BY DEF Plain, States, Settling
    <2>2. /\ pc' \in [Procs -> States] /\ loc' \in [Procs -> Locals]
          /\ ProcessesGood'
      BY <1>1, <1>5, <2>1, WentOn DEF EnqueueError
    <2>3. budget' \in 0..Budget
      BY <1>5, Disturbed DEF EnqueueError
    <2>4. QED
      BY <1>3, <1>5, <2>2, <2>3
      DEF EnqueueError, TypeOK, CompletedRecorded, VerdictOfAReview
  <1>6. QED BY <1>4, <1>5

LEMMA CompensateKeeps ==
  ASSUME GateInv, NEW p \in Procs, Compensate(p)
  PROVE  GateInv'
  <1> USE DEF GateInv
  <1>1. recorded' = recorded
    BY DEF Compensate
  <1>2. CASE BeginSettle(p, "none", NoRun)
    BY <1>1, <1>2, Begun, EndsFailed
    DEF Compensate, TypeOK, Excuses, VerdictOfAReview
  <1>3. CASE loc[p].old # NoBranch /\ Goto(p, "restore") /\ UNCHANGED loc
    <2>1. /\ pc' = [pc EXCEPT ![p] = "restore"]
          /\ loc' = [loc EXCEPT ![p] = loc[p]] /\ loc[p] \in Locals
      BY <1>3 DEF Goto, TypeOK
    <2>2. Good(p, pc[p], loc[p], recorded) /\ pc[p] = "compensate"
      BY DEF ProcessesGood, Compensate
    <2>3. loc[p].old \in Branches
      BY <1>3, <2>1 DEF Locals
    <2>4. Good(p, "restore", loc[p], recorded')
      BY <1>1, <2>2, <2>3 DEF Good, States, Settling
    <2>5. /\ pc' \in [Procs -> States] /\ loc' \in [Procs -> Locals]
          /\ ProcessesGood'
      BY <1>1, <2>1, <2>4, Moved
    <2>6. QED
      BY <1>1, <2>5, EndsFailed DEF Compensate, TypeOK, Excuses, VerdictOfAReview
  <1>4. QED BY <1>2, <1>3 DEF Compensate

LEMMA RestoreKeeps ==
  ASSUME GateInv, NEW p \in Procs, Restore(p)
  PROVE  GateInv'
  <1> USE DEF GateInv
  <1>1. recorded' = recorded /\ branch' \in Branches
    BY DEF Restore, ProcessesGood, Good
  <1>2. /\ pc' \in [Procs -> States] /\ loc' \in [Procs -> Locals]
        /\ ProcessesGood'
    BY <1>1, Stopped DEF Restore
  <1>3. QED
    BY <1>1, <1>2 DEF Restore, TypeOK, Excuses, CompletedRecorded, VerdictOfAReview

----------------------------------------------------------------------------
(* Thread events, pauses and the rest keep the invariant. *)

LEMMA ThreadWebhookKeeps ==
  ASSUME GateInv, NEW p \in Procs, NEW r \in Runs, ThreadWebhook(p, r)
  PROVE  GateInv'
  <1> DEFINE v == [Idle EXCEPT !.task = "thread"]
  <1> USE DEF GateInv
  <1>1. recorded' = recorded /\ loc' = [loc EXCEPT ![p] = v] /\ Goto(p, "decide")
    BY DEF ThreadWebhook
  <1>2. Idle \in Locals
    BY IdleGood
  <1>3. v \in Locals /\ ~IsVerdict(v.check) /\ v.task # "publish"
    BY <1>2 DEF Locals, Tasks, Idle, IsVerdict, NoCheck
  <1>4. "decide" \in Plain
    BY DEF Plain, States, Attending, Settling
  <1> HIDE DEF v
  <1>5. /\ pc' \in [Procs -> States] /\ loc' \in [Procs -> Locals]
        /\ ProcessesGood'
    BY <1>1, <1>3, <1>4, SetOut
  <1>6. thread' \in [Runs -> {"none", "open", "closed", "untracked"}]
    BY DEF ThreadWebhook, TypeOK
  <1>7. budget' \in 0..Budget
    BY Disturbed DEF ThreadWebhook
  <1>8. QED
    BY <1>5, <1>6, <1>7 DEF ThreadWebhook, TypeOK, CompletedRecorded, VerdictOfAReview

LEMMA DecideKeeps ==
  ASSUME GateInv, NEW p \in Procs, Decide(p)
  PROVE  GateInv'
  <1> DEFINE why == IF loc[p].task = "pause"
                    THEN Pause(Given(p), InChargeUnder(Given(p)), FALSE)
                    ELSE Pause(repo, InCharge, Admitted)
  <1> USE DEF GateInv
  <1>1. recorded' = recorded
    BY DEF Decide
  <1>2. why \in Pauses \cup {"none"}
    <2>1. Admitted \in BOOLEAN /\ repo \in Repos
      BY DEF TypeOK, Admitted
    <2>2. Pause(repo, InCharge, Admitted) \in Pauses \cup {"none"}
      BY <2>1, PauseNow
    <2>3. Pause(Given(p), InChargeUnder(Given(p)), FALSE) \in Pauses \cup {"none"}
      BY <2>1, PauseGiven
    <2>4. QED BY <2>2, <2>3
  <1>3. "sync" \in Plain
    BY DEF Plain, States, Attending, Settling
  <1>4. \/ /\ why # "none" /\ Goto(p, "pausing")
           /\ loc' = [loc EXCEPT ![p] = [Idle EXCEPT !.check = PauseCheck(why)]]
        \/ Goto(p, "sync") /\ UNCHANGED loc
        \/ Stop(p)
    BY DEF Decide
  <1> HIDE DEF why
  <1>5. /\ pc' \in [Procs -> States] /\ loc' \in [Procs -> Locals]
        /\ ProcessesGood'
    BY <1>1, <1>2, <1>3, <1>4, ToPause, WentOn, Stopped
  <1>6. left' \in Excuses
    BY DEF Decide, TypeOK, Excuses, Excuse
  <1>7. QED
    BY <1>5, <1>6 DEF Decide, TypeOK, CompletedRecorded, VerdictOfAReview

LEMMA SyncThreadsKeeps ==
  ASSUME GateInv, NEW p \in Procs, SyncThreads(p)
  PROVE  GateInv'
  <1> USE DEF GateInv
  <1>1. recorded' = recorded
    BY DEF SyncThreads
  <1>2. "refresh" \in Plain
    BY DEF Plain, States, Attending, Settling
  <1>3. /\ pc' \in [Procs -> States] /\ loc' \in [Procs -> Locals]
        /\ ProcessesGood'
    BY <1>1, <1>2, WentOn DEF SyncThreads
  <1>4. thread' \in [Runs -> {"none", "open", "closed", "untracked"}]
    BY DEF SyncThreads, TypeOK
  <1>5. QED
    BY <1>3, <1>4 DEF SyncThreads, TypeOK, CompletedRecorded, VerdictOfAReview

LEMMA RefreshKeeps ==
  ASSUME GateInv, NEW p \in Procs, Refresh(p)
  PROVE  GateInv'
  <1> USE DEF GateInv
  <1>1. recorded' = recorded
    BY DEF Refresh
  <1>2. /\ pc' \in [Procs -> States] /\ loc' \in [Procs -> Locals]
        /\ ProcessesGood'
    BY <1>1, Begun, Stopped DEF Refresh
  <1>3. left' \in Excuses
    BY DEF Refresh, TypeOK, Excuses, Excuse
  <1>4. QED
    BY <1>2, <1>3 DEF Refresh, TypeOK, CompletedRecorded, VerdictOfAReview

LEMMA PostPauseKeeps ==
  ASSUME GateInv, NEW p \in Procs, PostPause(p) \/ PostPauseError(p)
  PROVE  GateInv'
  <1> USE DEF GateInv
  <1>1. recorded' = recorded /\ Goto(p, "reread") /\ UNCHANGED loc
    BY DEF PostPause, PostPauseError
  <1>2. "reread" \in Plain
    BY DEF Plain, States, Attending, Settling
  <1>3. /\ pc' \in [Procs -> States] /\ loc' \in [Procs -> Locals]
        /\ ProcessesGood'
    BY <1>1, <1>2, WentOn
  <1>4. loc[p].check \in Checks /\ (IsVerdict(loc[p].check) => loc[p].check.link \in recorded)
    BY DEF TypeOK, Locals, ProcessesGood, Good
  <1>5. host' \in Checks /\ VerdictOfAReview'
    BY <1>1, <1>4 DEF PostPause, PostPauseError, TypeOK, VerdictOfAReview, IsVerdict
  <1>6. budget' \in 0..Budget
    BY Disturbed DEF PostPause, PostPauseError, TypeOK
  <1>7. QED
    BY <1>3, <1>5, <1>6 DEF PostPause, PostPauseError, TypeOK, Excuses, CompletedRecorded

LEMMA RereadPauseKeeps ==
  ASSUME GateInv, NEW p \in Procs, RereadPause(p)
  PROVE  GateInv'
  <1> USE DEF GateInv
  <1>1. recorded' = recorded
    BY DEF RereadPause
  <1>2. /\ pc' \in [Procs -> States] /\ loc' \in [Procs -> Locals]
        /\ ProcessesGood'
    BY <1>1, Begun, Stopped DEF RereadPause
  <1>3. left' \in Excuses
    BY DEF RereadPause, TypeOK, Excuses
  <1>4. QED
    BY <1>2, <1>3 DEF RereadPause, TypeOK, CompletedRecorded, VerdictOfAReview

LEMMA ChangeSettingsKeeps ==
  ASSUME GateInv, ChangeSettings
  PROVE  GateInv'
  BY Disturbed
  DEF GateInv, ChangeSettings, TypeOK, Excuses, ProcessesGood, CompletedRecorded,
      VerdictOfAReview

LEMMA DieKeeps ==
  ASSUME GateInv, NEW p \in Procs, Die(p)
  PROVE  GateInv'
  BY Disturbed, Stopped
  DEF GateInv, Die, TypeOK, Excuses, CompletedRecorded, VerdictOfAReview

----------------------------------------------------------------------------
(* The invariant. *)

LEMMA InitGateInv == Init => GateInv
  <1> SUFFICES ASSUME Init PROVE GateInv
    OBVIOUS
  <1>1. 0 \in 0..(Attempts - 1) /\ Budget \in 0..Budget
    BY GateAssumption
  <1>2. NoCheck \in Checks
    BY DEF NoCheck, Checks, Titles
  <1>3. ProcessesGood /\ Idle \in Locals
    BY IdleGood DEF Init, ProcessesGood
  <1>4. TypeOK
    BY <1>1, <1>2, <1>3 DEF Init, TypeOK, States, Excuses
  <1>5. CompletedRecorded /\ VerdictOfAReview
    BY DEF Init, CompletedRecorded, VerdictOfAReview, NoCheck
  <1>6. QED BY <1>3, <1>4, <1>5 DEF GateInv

LEMMA HookKeeps ==
  ASSUME GateInv, NEW p \in Procs, Hook(p)
  PROVE  GateInv'
  <1>1. CASE PrWebhook(p) \/ ManualRequest(p) \/ Decline(p)
    BY <1>1, PrWebhookKeeps, ManualRequestKeeps, DeclineKeeps
  <1>2. CASE \E b \in Branches : SkipFiltered(p, b)
    BY <1>2, SkipFilteredKeeps
  <1>3. CASE \E r \in Runs, b \in Branches : Launch(p, r, b) \/ Retarget(p, r, b)
    BY <1>3, LaunchKeeps, RetargetKeeps
  <1>4. CASE Enqueue(p) \/ EnqueueError(p) \/ Compensate(p) \/ Restore(p)
    BY <1>4, EnqueueKeeps, CompensateKeeps, RestoreKeeps
  <1>5. CASE \E r \in Runs : ThreadWebhook(p, r) \/ Sweep(p, r)
    BY <1>5, ThreadWebhookKeeps, SweepKeeps
  <1>6. CASE Decide(p) \/ SyncThreads(p) \/ Refresh(p)
    BY <1>6, DecideKeeps, SyncThreadsKeeps, RefreshKeeps
  <1>7. CASE PostPause(p) \/ PostPauseError(p) \/ RereadPause(p)
    BY <1>7, PostPauseKeeps, RereadPauseKeeps
  <1>8. QED BY <1>1, <1>2, <1>3, <1>4, <1>5, <1>6, <1>7 DEF Hook

LEMMA NextKeeps == GateInv /\ [Next]_vars => GateInv'
  <1> SUFFICES ASSUME GateInv, [Next]_vars PROVE GateInv'
    OBVIOUS
  <1>1. ASSUME NEW r \in Runs, Worker(r) PROVE GateInv'
    BY <1>1, ClaimKeeps, StartPublishingKeeps, CheckNotCancelledKeeps, RecordKeeps,
       CompleteKeeps, WorkerErrorKeeps DEF Worker
  <1>2. ASSUME NEW p \in Hooks, Hook(p) PROVE GateInv'
    BY <1>2, HookKeeps DEF Procs
  <1>3. ASSUME NEW p \in Procs, Settle(p) PROVE GateInv'
    BY <1>3, SettleReadKeeps, SettleFindingsKeeps, SettlePostKeeps, SettleErrorKeeps
    DEF Settle
  <1>4. ASSUME NEW p \in Procs, BlockHead(p) \/ Die(p) PROVE GateInv'
    BY <1>4, BlockHeadKeeps, DieKeeps
  <1>5. CASE UNCHANGED vars
    BY <1>5 DEF vars, GateInv, TypeOK, ProcessesGood, CompletedRecorded,
                VerdictOfAReview
  <1>6. QED BY <1>1, <1>2, <1>3, <1>4, <1>5, ChangeSettingsKeeps DEF Next

\* The inductive invariant holds: what every process relies on while it reads,
\* computes and sends checks (settle_merge_gate and its callers).
THEOREM GateInvariance == Spec => []GateInv
  <1>1. QED BY InitGateInv, NextKeeps, PTL DEF Spec

\* Every variable keeps its type; in particular settle_merge_gate never counts
\* more failures than its attempts.
THEOREM GateTyped == Spec => []TypeOK
  <1>1. GateInv => TypeOK
    BY DEF GateInv
  <1>2. QED BY <1>1, GateInvariance, PTL

\* A verdict on the commit is the verdict of a review that is on the pull
\* request, in whatever order the checks of all processes arrive.
THEOREM VerdictShown == Spec => []VerdictOfAReview
  <1>1. GateInv => VerdictOfAReview
    BY DEF GateInv
  <1>2. QED BY <1>1, GateInvariance, PTL

----------------------------------------------------------------------------
(* The host follows the database: rows and their order. *)

LEMMA NewestIs ==
  ASSUME NEW S \in SUBSET Runs, NEW r \in S, \A q \in S : q <= r
  PROVE  Newest(S) = r
  <1>1. Newest(S) \in S /\ \A q \in S : q <= Newest(S)
    <2>1. S # {} /\ \E m \in S : \A q \in S : q <= m
      OBVIOUS
    <2>2. QED BY <2>1 DEF Newest
  <1>2. r \in Nat /\ Newest(S) \in Nat
    <2>1. S \subseteq Runs /\ Runs \subseteq Nat
      BY GateAssumption DEF Runs
    <2>2. QED BY <1>1, <2>1
  <1>3. r <= Newest(S) /\ Newest(S) <= r
    BY <1>1
  <1>4. QED BY <1>2, <1>3

\* A run under way is the latest one, and the one in charge.
LEMMA ActiveIsLatest ==
  ASSUME TypeOK, RowsInOrder, NEW r \in Runs, status[r] \in Nonterminal
  PROVE  Latest = r /\ r # NoRun /\ r \in Stored
  <1>1. r \in Stored /\ \A q \in Stored : q <= r
    BY DEF RowsInOrder, Stored, Nonterminal
  <1>2. Stored \in SUBSET Runs
    BY DEF Stored
  <1>3. r # NoRun
    BY GateAssumption DEF Runs, NoRun
  <1>4. QED BY <1>1, <1>2, <1>3, NewestIs DEF Latest

LEMMA ActiveIsInCharge ==
  ASSUME TypeOK, RowsInOrder, NEW r \in Runs, status[r] \in Nonterminal, NEW rp
  PROVE  InChargeUnder(rp) = r
  <1>1. Latest = r /\ status[r] \notin {"failed", "cancelled"}
    BY ActiveIsLatest DEF Nonterminal
  <1>2. QED BY <1>1 DEF InChargeUnder

\* Rows that only move on leave the order alone.
LEMMA RowsKept ==
  ASSUME TypeOK, RowsInOrder,
         \A r \in Runs : status'[r] = "absent" <=> status[r] = "absent",
         \A r \in Runs : status'[r] \in Nonterminal => status[r] \in Nonterminal
  PROVE  RowsInOrder'
  BY GateAssumption DEF RowsInOrder, Runs

\* Everyone but p stays where it was.
Others(p) == \A q \in Procs : q # p => pc'[q] = pc[q] /\ loc'[q] = loc[q]

LEMMA OnlyOneMoves ==
  ASSUME TypeOK, NEW p \in Procs, NEW s, NEW v,
         pc' = [pc EXCEPT ![p] = s], loc' = [loc EXCEPT ![p] = v]
  PROVE  Others(p) /\ pc'[p] = s /\ loc'[p] = v
  BY DEF Others, TypeOK

\* Rows that publish or are over stay so.
StayLate == \A r \in Runs : status[r] \in Late => status'[r] \in Late

LEMMA ToldMoved ==
  ASSUME ProcessesTold, NEW p \in Procs, Others(p), StayLate,
         \A q \in Runs : q # p /\ q \in recorded' => q \in recorded,
         Told(p, pc'[p], loc'[p], recorded', status')
  PROVE  ProcessesTold'
  <1>1. ASSUME NEW q \in Procs PROVE Told(q, pc'[q], loc'[q], recorded', status')
    <2>1. CASE q = p
      BY <2>1
    <2>2. CASE q # p
      <3>1. Told(q, pc[q], loc[q], recorded, status)
        BY DEF ProcessesTold
      <3>2. pc'[q] = pc[q] /\ loc'[q] = loc[q]
        BY <2>2 DEF Others
      <3>3. QED BY <2>2, <3>1, <3>2 DEF Told, StayLate
    <2>3. QED BY <2>1, <2>2
  <1>2. QED BY <1>1 DEF ProcessesTold

\* Stages of which rows and records need not say anything.
Untold == States \ {"idle", "working", "publishing", "recording", "completing", "pausing", "reread"}

LEMMA QuietlyTold ==
  ASSUME NEW p, NEW s \in Untold, NEW v, v.task \notin {"claim", "publish"}, NEW R, NEW st
  PROVE  Told(p, s, v, R, st)
  BY DEF Told, Untold

----------------------------------------------------------------------------
(* What the moves of a process tell. *)

LEMMA StopTells ==
  ASSUME TypeOK, ProcessesTold, NEW p \in Procs, Stop(p), StayLate, recorded' = recorded
  PROVE  Others(p) /\ ProcessesTold'
  <1> DEFINE s == IF p \in Runs THEN "done" ELSE "idle"
  <1>1. pc' = [pc EXCEPT ![p] = s] /\ loc' = [loc EXCEPT ![p] = Idle]
    BY DEF Stop, Goto
  <1>2. Told(p, s, Idle, recorded', status')
    BY DEF Told, Idle
  <1> HIDE DEF s
  <1>3. Others(p) /\ pc'[p] = s /\ loc'[p] = Idle
    BY <1>1, OnlyOneMoves
  <1>4. QED BY <1>2, <1>3, ToldMoved

LEMMA BeginTells ==
  ASSUME TypeOK, ProcessesTold, NEW p \in Procs, NEW task \in Tasks, BeginSettle(p, task, NoRun),
         StayLate, \A q \in Runs : q # p /\ q \in recorded' => q \in recorded,
         p \in Runs /\ task = "claim" => p \notin recorded',
         p \in Runs /\ task = "publish" => status'[p] \in Late
  PROVE  Others(p) /\ ProcessesTold' /\ pc'[p] = "read" /\ loc'[p].check = NoCheck
  <1> DEFINE v == [Idle EXCEPT !.task = task, !.run = NoRun]
  <1>1. pc' = [pc EXCEPT ![p] = "read"] /\ loc' = [loc EXCEPT ![p] = v]
    BY DEF BeginSettle, Goto
  <1>2. v.task = task /\ v.check = NoCheck
    BY DEF Idle
  <1>3. Told(p, "read", v, recorded', status')
    BY <1>2 DEF Told
  <1> HIDE DEF v
  <1>4. Others(p) /\ pc'[p] = "read" /\ loc'[p] = v
    BY <1>1, OnlyOneMoves
  <1>5. QED BY <1>2, <1>3, <1>4, ToldMoved

LEMMA SettlingTold ==
  ASSUME ProcessesTold, NEW p \in Procs
  PROVE  /\ p \in Runs /\ loc[p].task = "claim" => p \notin recorded
         /\ p \in Runs /\ loc[p].task = "publish" => status[p] \in Late
  BY DEF ProcessesTold, Told

LEMMA ReturnTells ==
  ASSUME TypeOK, ProcessesGood, ProcessesTold, NEW p \in Procs, pc[p] \in Settling, Return(p),
         status' = status, recorded' = recorded
  PROVE  Others(p) /\ ProcessesTold'
  <1> DEFINE s == After(p)
             v == IF loc[p].task = "retarget" THEN [Idle EXCEPT !.run = loc[p].run] ELSE Idle
  <1>1. pc' = [pc EXCEPT ![p] = s] /\ loc' = [loc EXCEPT ![p] = v]
    BY DEF Return, Goto
  <1>2. loc[p].task \in {"none", "claim", "publish", "retarget"}
    BY SettlingKnows
  <1>3. /\ s \in {"working", "completing", "enqueue", "idle", "done"}
        /\ s = "working" => loc[p].task = "claim"
        /\ s = "completing" => loc[p].task = "publish"
        /\ s = "idle" => p \notin Runs
    BY <1>2 DEF After
  <1>4. v.task = "none"
    BY DEF Idle
  <1> HIDE DEF s, v
  <1>5. Told(p, s, v, recorded', status')
    BY <1>3, <1>4, SettlingTold DEF Told
  <1>6. Others(p) /\ pc'[p] = s /\ loc'[p] = v
    BY <1>1, OnlyOneMoves
  <1>7. QED BY <1>5, <1>6, ToldMoved DEF StayLate

\* A move that keeps the task of one who settles the gate.
LEMMA SettlingTells ==
  ASSUME TypeOK, ProcessesTold, NEW p \in Procs, NEW s \in Settling, NEW v,
         v.task = loc[p].task, pc' = [pc EXCEPT ![p] = s], loc' = [loc EXCEPT ![p] = v],
         status' = status, recorded' = recorded
  PROVE  Others(p) /\ ProcessesTold' /\ pc'[p] = s /\ loc'[p] = v
  <1>1. Others(p) /\ pc'[p] = s /\ loc'[p] = v
    BY OnlyOneMoves
  <1>2. Told(p, s, v, recorded', status')
    BY SettlingTold DEF Told, Settling
  <1>3. QED BY <1>1, <1>2, ToldMoved DEF StayLate

LEMMA TryPostTells ==
  ASSUME TypeOK, ProcessesGood, ProcessesTold, NEW p \in Procs, pc[p] \in Settling, NEW check,
         TryPost(p, check), status' = status, recorded' = recorded
  PROVE  Others(p) /\ ProcessesTold' /\ (check = loc[p].check \/ pc'[p] = "post")
  <1>1. CASE check = loc[p].check
    BY <1>1, ReturnTells DEF TryPost
  <1>2. CASE check # loc[p].check
    <2> DEFINE v == [loc[p] EXCEPT !.check = check, !.link = NoRun, !.level = 0]
    <2>1. pc' = [pc EXCEPT ![p] = "post"] /\ loc' = [loc EXCEPT ![p] = v]
      BY <1>2 DEF TryPost, Goto, TypeOK
    <2>2. v.task = loc[p].task
      BY DEF TypeOK, Locals
    <2>3. "post" \in Settling
      BY DEF Settling
    <2> HIDE DEF v
    <2>4. QED BY <2>1, <2>2, <2>3, SettlingTells
  <1>3. QED BY <1>1, <1>2

\* A move to a stage of which nothing need be told.
LEMMA QuietTells ==
  ASSUME TypeOK, ProcessesTold, NEW p \in Procs, NEW s \in Untold, NEW v,
         v.task \notin {"claim", "publish"}, StayLate, recorded' = recorded,
         pc' = [pc EXCEPT ![p] = s], loc' = [loc EXCEPT ![p] = v]
  PROVE  Others(p) /\ ProcessesTold' /\ pc'[p] = s /\ loc'[p] = v
  <1>1. Others(p) /\ pc'[p] = s /\ loc'[p] = v
    BY OnlyOneMoves
  <1>2. Told(p, s, v, recorded', status')
    BY QuietlyTold
  <1>3. QED BY <1>1, <1>2, ToldMoved

\* One who keeps its variables.
LEMMA WentOnTells ==
  ASSUME TypeOK, ProcessesTold, NEW p \in Procs, NEW s \in Untold, Goto(p, s), UNCHANGED loc,
         StayLate, recorded' = recorded
  PROVE  Others(p) /\ ProcessesTold' /\ pc'[p] = s /\ loc'[p] = loc[p]
  <1>1. pc' = [pc EXCEPT ![p] = s] /\ loc' = [loc EXCEPT ![p] = loc[p]]
    BY DEF Goto, TypeOK
  <1>2. Others(p) /\ pc'[p] = s /\ loc'[p] = loc[p]
    BY <1>1, OnlyOneMoves
  <1>3. Told(p, s, loc[p], recorded', status')
    BY SettlingTold DEF Told, Untold, StayLate
  <1>4. QED BY <1>2, <1>3, ToldMoved

LEMMA PauseTells ==
  ASSUME TypeOK, ProcessesTold, NEW p \in Procs, NEW why \in Pauses, Goto(p, "pausing"),
         loc' = [loc EXCEPT ![p] = [Idle EXCEPT !.check = PauseCheck(why)]],
         status' = status, recorded' = recorded
  PROVE  Others(p) /\ ProcessesTold' /\ pc'[p] = "pausing"
  <1> DEFINE v == [Idle EXCEPT !.check = PauseCheck(why)]
  <1>1. pc' = [pc EXCEPT ![p] = "pausing"] /\ loc' = [loc EXCEPT ![p] = v]
    BY DEF Goto
  <1>2. v.task = "none" /\ v.check = PauseCheck(why)
    BY DEF Idle
  <1> HIDE DEF v
  <1>3. Others(p) /\ pc'[p] = "pausing" /\ loc'[p] = v
    BY <1>1, OnlyOneMoves
  <1>4. Told(p, "pausing", v, recorded', status')
    BY <1>2 DEF Told
  <1>5. QED BY <1>3, <1>4, ToldMoved DEF StayLate

----------------------------------------------------------------------------
(* What a step that changes no row leaves as it was, and why the host follows. *)

Rows == <<status, trigger, finding, thread, recorded, repo, branch>>

LEMMA SameRows ==
  ASSUME UNCHANGED Rows
  PROVE  /\ Latest' = Latest /\ InCharge' = InCharge
         /\ \A r, level : StillSo(r, level)' <=> StillSo(r, level)
         /\ host' = host => Wanted' = Wanted
  <1>1. Stored' = Stored
    BY DEF Rows, Stored
  <1>2. Latest' = Latest
    BY <1>1 DEF Latest
  <1>3. CompletedManual' = CompletedManual
    BY <1>1 DEF Rows, CompletedManual
  <1>4. \A rp, r, admitted : Pause(rp, r, admitted)' = Pause(rp, r, admitted)
    BY DEF Rows, Pause, ManualHolds
  <1>5. InCharge' = InCharge
    BY <1>2, <1>3 DEF Rows, InCharge, InChargeUnder, Pause, ManualHolds
  <1>6. QED
    BY <1>2, <1>5 DEF Rows, StillSo, Wanted, Pause, ManualHolds, ReviewThere, Admitted, Verdict,
       NoVerdict, OpenFindings
LEMMA ActorCorrects ==
  ASSUME NEW p \in Procs, Corrects(p)'
  PROVE  HostKept'
  BY DEF HostKept, Procs, Runs

LEMMA Excused ==
  ASSUME left' # "none"
  PROVE  HostKept'
  BY DEF HostKept

\* What the others need of a step.
Followed ==
  /\ Latest' = Latest /\ host' = host /\ left' = left
  /\ \A r \in Runs : status[r] = "failed" => status'[r] = "failed"
  /\ \A r, level : StillSo(r, level) => StillSo(r, level)'
  /\ host = Wanted => host' = Wanted'

LEMMA OthersCorrect ==
  ASSUME Followed, NEW p \in Procs, Others(p), NEW q \in Procs, q # p, Corrects(q)
  PROVE  Corrects(q)'
  <1>1. pc'[q] = pc[q] /\ loc'[q] = loc[q]
    BY DEF Others
  <1>2. Knows(q)' <=> Knows(q)
    BY <1>1 DEF Followed, Knows
  <1>3. StillSo(loc[q].link, loc[q].level) => StillSo(loc[q].link, loc[q].level)'
    <2>1. PICK x, l : x = loc[q].link /\ l = loc[q].level
      OBVIOUS
    <2>2. loc'[q].link = x /\ loc'[q].level = l
      BY <1>1, <2>1
    <2>3. StillSo(x, l) => StillSo(x, l)'
      BY DEF Followed
    <2>4. QED BY <2>1, <2>2, <2>3 DEF StillSo
  <1>4. QED BY <1>1, <1>2, <1>3 DEF Followed, Corrects

\* A step that changes nothing the others need: if its process was one to correct the
\* host, it still is, or there is nothing to correct.
LEMMA Undisturbed ==
  ASSUME HostKept, NEW p \in Procs, Others(p), Followed,
         left = "none" /\ Corrects(p) => Corrects(p)' \/ host = Wanted
  PROVE  HostKept'
  <1>1. CASE left # "none"
    BY <1>1, Excused DEF Followed
  <1>2. CASE host = Wanted
    BY <1>2 DEF HostKept, Followed
  <1>3. ASSUME left = "none", host # Wanted, NEW q \in Procs, Corrects(q) PROVE HostKept'
    <2>1. CASE q = p
      BY <1>3, <2>1, ActorCorrects
    <2>2. CASE q # p
      BY <1>3, <2>2, OthersCorrect, ActorCorrects
    <2>3. QED BY <2>1, <2>2
  <1>4. QED BY <1>1, <1>2, <1>3 DEF HostKept

LEMMA SameRowsFollowed ==
  ASSUME UNCHANGED <<Rows, host, left>>
  PROVE  Followed
  BY SameRows DEF Followed, Rows

----------------------------------------------------------------------------
(* The steps of settle_merge_gate keep the host up to date. *)

LEMMA WantedWhenPaused ==
  ASSUME NEW why \in Pauses, Pause(repo, InCharge, Admitted) = why, InCharge # NoRun
  PROVE  Wanted = PauseCheck(why)
  BY DEF Wanted, Pauses

LEMMA WantedWhenNot ==
  ASSUME NEW r, r = InCharge, r # NoRun, Pause(repo, r, Admitted) = "none", ~ReviewThere(r)
  PROVE  Wanted = NoVerdict(r)
  BY DEF Wanted

LEMMA WantedWhenReviewed ==
  ASSUME NEW r, NEW level, StillSo(r, level)
  PROVE  Wanted = Verdict(r, level)
  BY DEF Wanted, StillSo

LEMMA SettleReadSettles ==
  ASSUME SettledInv, NEW p \in Procs, SettleRead(p)
  PROVE  Kept'
  <1> DEFINE why == Pause(repo, InCharge, Admitted)
  <1> USE DEF SettledInv, Kept, GateInv
  <1>1. /\ pc[p] = "read" /\ pc[p] \in Settling /\ UNCHANGED <<Rows, host, left>>
        /\ status' = status /\ recorded' = recorded
    BY DEF SettleRead, Settling, Rows
  <1>2. Followed /\ RowsInOrder'
    BY <1>1, SameRowsFollowed, RowsKept
  <1>3. why \in Pauses \cup {"none"}
    <2>1. Admitted \in BOOLEAN /\ repo \in Repos
      BY DEF TypeOK, Admitted
    <2>2. QED BY <2>1, PauseNow
  <1>4. CASE InCharge = NoRun /\ Return(p)
    <2>1. Others(p) /\ ProcessesTold'
      BY <1>1, <1>4, ReturnTells
    <2>2. host = Wanted
      BY <1>4 DEF Wanted
    <2>3. QED BY <1>2, <2>1, <2>2, Undisturbed
  <1>5. ASSUME NEW check, check # NoCheck, check = Wanted, TryPost(p, check)
        PROVE  Kept'
    <2>1. Others(p) /\ ProcessesTold' /\ (check = loc[p].check \/ pc'[p] = "post")
      BY <1>1, <1>5, TryPostTells
    <2>2. Corrects(p) => host = Wanted \/ Corrects(p)'
      BY <1>1, <1>5, <2>1 DEF Corrects, Knows
    <2>3. QED BY <1>2, <2>1, <2>2, Undisturbed
  <1>6. CASE InCharge # NoRun /\ why # "none" /\ TryPost(p, PauseCheck(why))
    <2>1. PauseCheck(why) = Wanted
      BY <1>3, <1>6, WantedWhenPaused
    <2>2. PauseCheck(why) # NoCheck
      BY <1>6 DEF PauseCheck, NoCheck
    <2> HIDE DEF why
    <2>3. QED BY <1>5, <1>6, <2>1, <2>2
  <1>7. CASE InCharge # NoRun /\ why = "none" /\ ~ReviewThere(InCharge) /\ TryPost(p, NoVerdict(InCharge))
    <2>1. NoVerdict(InCharge) = Wanted
      BY <1>7, WantedWhenNot
    <2>2. NoVerdict(InCharge) # NoCheck
      BY DEF NoVerdict, NoCheck
    <2>3. QED BY <1>5, <1>7, <2>1, <2>2
  <1>8. ASSUME InCharge # NoRun, why = "none", ReviewThere(InCharge), Goto(p, "findings"),
               loc' = [loc EXCEPT ![p].link = InCharge, ![p].level = repo.level]
        PROVE  Kept'
    <2> DEFINE v == [loc[p] EXCEPT !.link = InCharge, !.level = repo.level]
    <2>1. pc' = [pc EXCEPT ![p] = "findings"] /\ loc' = [loc EXCEPT ![p] = v]
      BY <1>8 DEF Goto, TypeOK
    <2>2. v.task = loc[p].task /\ v.check = loc[p].check /\ v.link = InCharge /\ v.level = repo.level
      <3>1. loc[p] \in Locals
        BY DEF TypeOK
      <3>2. QED BY <3>1 DEF Locals
    <2>3. StillSo(InCharge, repo.level)
      BY <1>8 DEF StillSo
    <2> HIDE DEF v
    <2>4. Others(p) /\ ProcessesTold' /\ pc'[p] = "findings" /\ loc'[p] = v
      <3>1. "findings" \in Settling
        BY DEF Settling
      <3>2. QED BY <1>1, <2>1, <2>2, <3>1, SettlingTells
    <2>5. Corrects(p) => Corrects(p)'
      <3>1. PICK r, l : r = InCharge /\ l = repo.level
        OBVIOUS
      <3>2. StillSo(r, l)'
        BY <2>3, <3>1, <1>2 DEF Followed
      <3>3. loc'[p].link = r /\ loc'[p].level = l /\ loc'[p].check = loc[p].check
        BY <2>2, <2>4, <3>1
      <3>4. StillSo(loc[p].link, loc[p].level)'
        BY <3>2, <3>3 DEF StillSo
      <3>5. Knows(p) => Knows(p)'
        BY <1>1, <3>3 DEF Knows
      <3>6. QED BY <1>1, <2>4, <3>4, <3>5 DEF Corrects
    <2>6. QED BY <1>2, <2>4, <2>5, Undisturbed
  <1>9. QED BY <1>4, <1>6, <1>7, <1>8 DEF SettleRead

LEMMA SettleFindingsSettles ==
  ASSUME SettledInv, NEW p \in Procs, SettleFindings(p)
  PROVE  Kept'
  <1> DEFINE check == Verdict(loc[p].link, loc[p].level)
  <1> USE DEF SettledInv, Kept, GateInv
  <1>1. /\ pc[p] = "findings" /\ pc[p] \in Settling /\ UNCHANGED <<Rows, host, left>>
        /\ status' = status /\ recorded' = recorded /\ TryPost(p, check)
    BY DEF SettleFindings, Settling, Rows
  <1>2. Followed /\ RowsInOrder'
    BY <1>1, SameRowsFollowed, RowsKept
  <1>3. check # NoCheck /\ (StillSo(loc[p].link, loc[p].level) => check = Wanted)
    BY WantedWhenReviewed DEF Verdict, NoCheck
  <1> HIDE DEF check
  <1>4. Others(p) /\ ProcessesTold' /\ (check = loc[p].check \/ pc'[p] = "post")
    BY <1>1, TryPostTells
  <1>5. Corrects(p) => host = Wanted \/ Corrects(p)'
    BY <1>1, <1>3, <1>4 DEF Corrects, Knows
  <1>6. QED BY <1>2, <1>4, <1>5, Undisturbed

LEMMA SettlePostSettles ==
  ASSUME SettledInv, NEW p \in Procs, SettlePost(p)
  PROVE  Kept'
  <1> USE DEF SettledInv, Kept, GateInv
  <1>1. /\ status' = status /\ recorded' = recorded /\ host' = loc[p].check
        /\ pc' = [pc EXCEPT ![p] = "read"] /\ loc' = [loc EXCEPT ![p] = loc[p]]
    BY DEF SettlePost, Goto, TypeOK
  <1>2. Others(p) /\ ProcessesTold' /\ pc'[p] = "read" /\ loc'[p] = loc[p]
    <2>1. "read" \in Settling
      BY DEF Settling
    <2>2. QED BY <1>1, <2>1, SettlingTells
  <1>3. Corrects(p)'
    BY <1>1, <1>2 DEF Corrects, Knows
  <1>4. QED BY <1>1, <1>2, <1>3, RowsKept, ActorCorrects

LEMMA SettleErrorSettles ==
  ASSUME SettledInv, NEW p \in Procs, SettleError(p)
  PROVE  Kept'
  <1> USE DEF SettledInv, Kept, GateInv
  <1>1. pc[p] \in Settling /\ status' = status /\ recorded' = recorded /\ RowsInOrder'
    BY RowsKept DEF SettleError, Settling
  <1>2. ASSUME Goto(p, "read"), loc' = [loc EXCEPT ![p].check = NoCheck, ![p].failures = @ + 1]
        PROVE  Kept'
    <2> DEFINE v == [loc[p] EXCEPT !.check = NoCheck, !.failures = @ + 1]
    <2>1. pc' = [pc EXCEPT ![p] = "read"] /\ loc' = [loc EXCEPT ![p] = v]
      BY <1>2 DEF Goto, TypeOK
    <2>2. v.task = loc[p].task /\ v.check = NoCheck
      <3>1. loc[p] \in Locals
        BY DEF TypeOK
      <3>2. QED BY <3>1 DEF Locals
    <2> HIDE DEF v
    <2>3. Others(p) /\ ProcessesTold' /\ pc'[p] = "read" /\ loc'[p] = v
      <3>1. "read" \in Settling
        BY DEF Settling
      <3>2. QED BY <1>1, <2>1, <2>2, <3>1, SettlingTells
    <2>4. Corrects(p)'
      BY <2>2, <2>3 DEF Corrects, Knows
    <2>5. QED BY <1>1, <2>3, <2>4, ActorCorrects
  <1>3. ASSUME left' = "lag", Return(p) PROVE Kept'
    <2>1. ProcessesTold'
      BY <1>1, <1>3, ReturnTells
    <2>2. QED BY <1>1, <1>3, <2>1, Excused
  <1>4. ASSUME left' = "lag", Goto(p, "compensate"),
               loc' = [loc EXCEPT ![p] = [Idle EXCEPT !.run = loc[p].run, !.old = loc[p].old]]
        PROVE  Kept'
    <2> DEFINE v == [Idle EXCEPT !.run = loc[p].run, !.old = loc[p].old]
    <2>1. pc' = [pc EXCEPT ![p] = "compensate"] /\ loc' = [loc EXCEPT ![p] = v]
      BY <1>4 DEF Goto
    <2>2. v.task = "none"
      BY DEF Idle
    <2>3. "compensate" \in Untold /\ StayLate
      BY <1>1 DEF Untold, States, StayLate
    <2> HIDE DEF v
    <2>4. ProcessesTold'
      BY <1>1, <2>1, <2>2, <2>3, QuietTells
    <2>5. QED BY <1>1, <1>4, <2>4, Excused
  <1>5. QED BY <1>2, <1>3, <1>4 DEF SettleError

----------------------------------------------------------------------------
(* The steps of a worker and of the sweep keep the host up to date. *)

\* A run is failed under the eyes of one who goes to block the head.
LEMMA FailedBlocks ==
  ASSUME SettledInv, NEW p \in Procs, NEW r \in Runs, status[r] \in Nonterminal,
         status' = [status EXCEPT ![r] = "failed"], recorded' = recorded, Goto(p, "block"),
         loc' = [loc EXCEPT ![p] = [Idle EXCEPT !.run = r]]
  PROVE  Kept'
  <1> DEFINE v == [Idle EXCEPT !.run = r]
  <1> USE DEF SettledInv, Kept, GateInv
  <1>1. pc' = [pc EXCEPT ![p] = "block"] /\ loc' = [loc EXCEPT ![p] = v]
    BY DEF Goto
  <1>2. v.task = "none" /\ v.run = r
    BY DEF Idle
  <1>3. "block" \in Untold /\ StayLate
    BY DEF Untold, States, Attending, StayLate, TypeOK, Late, Terminal
  <1> HIDE DEF v
  <1>4. ProcessesTold' /\ pc'[p] = "block" /\ loc'[p] = v
    BY <1>1, <1>2, <1>3, QuietTells
  <1>5. RowsInOrder'
    BY RowsKept DEF TypeOK, Nonterminal
  <1>6. status'[r] = "failed" /\ Latest' = r
    <2>1. status'[r] = "failed" /\ Stored' = Stored
      BY DEF TypeOK, Stored, Nonterminal
    <2>2. QED BY <2>1, ActiveIsLatest DEF Latest
  <1>7. Corrects(p)'
    BY <1>2, <1>4, <1>6 DEF Corrects
  <1>8. QED BY <1>4, <1>5, <1>7, ActorCorrects

LEMMA FailsSettles ==
  ASSUME SettledInv, NEW r \in Runs, Fails(r), pc[r] \in {"working", "publishing", "recording", "completing"},
         UNCHANGED <<trigger, finding, thread, recorded, repo, branch, host, left>>
  PROVE  Kept'
  <1> USE DEF SettledInv, Kept, GateInv
  <1>1. r \in Procs /\ ~Corrects(r)
    BY DEF Procs, Corrects
  <1>2. CASE Stop(r) /\ UNCHANGED status
    <2>1. Followed /\ RowsInOrder' /\ StayLate
      BY <1>2, SameRowsFollowed, RowsKept DEF Rows, StayLate
    <2>2. Others(r) /\ ProcessesTold'
      BY <1>1, <1>2, <2>1, StopTells
    <2>3. QED BY <1>1, <2>1, <2>2, Undisturbed
  <1>3. ASSUME Goto(r, "block"), loc' = [loc EXCEPT ![r] = [Idle EXCEPT !.run = r]],
               status' = [status EXCEPT ![r] = IF @ \in Nonterminal THEN "failed" ELSE @]
        PROVE  Kept'
    <2>1. CASE status[r] \in Nonterminal
      BY <1>1, <1>3, <2>1, FailedBlocks
    <2>2. CASE status[r] \notin Nonterminal
      <3> DEFINE v == [Idle EXCEPT !.run = r]
      <3>1. status' = status
        BY <1>3, <2>2 DEF TypeOK
      <3>2. Followed /\ RowsInOrder' /\ StayLate
        BY <3>1, SameRowsFollowed, RowsKept DEF Rows, StayLate
      <3>3. v.task = "none" /\ "block" \in Untold
        BY DEF Idle, Untold, States, Attending
      <3>4. pc' = [pc EXCEPT ![r] = "block"] /\ loc' = [loc EXCEPT ![r] = v]
        BY <1>3 DEF Goto
      <3> HIDE DEF v
      <3>5. Others(r) /\ ProcessesTold'
        BY <1>1, <3>2, <3>3, <3>4, QuietTells
      <3>6. QED BY <1>1, <3>2, <3>5, Undisturbed
    <2>3. QED BY <2>1, <2>2
  <1>4. QED BY <1>2, <1>3 DEF Fails

LEMMA ClaimSettles ==
  ASSUME SettledInv, NEW r \in Runs, Claim(r)
  PROVE  Kept'
  <1> USE DEF SettledInv, Kept, GateInv
  <1>1. r \in Procs /\ recorded' = recorded /\ pc[r] = "idle" /\ r \notin recorded
    BY DEF Procs, Claim, ProcessesTold, Told
  <1>2. CASE status[r] = "queued" /\ status' = [status EXCEPT ![r] = "building_context"]
             /\ BeginSettle(r, "claim", NoRun)
    <2>1. StayLate /\ "claim" \in Tasks
      BY <1>2 DEF StayLate, Late, Terminal, TypeOK, Tasks
    <2>2. RowsInOrder'
      BY <1>2, RowsKept DEF TypeOK, Nonterminal
    <2>3. ProcessesTold' /\ pc'[r] = "read" /\ loc'[r].check = NoCheck
      BY <1>1, <1>2, <2>1, BeginTells
    <2>4. Corrects(r)'
      BY <2>3 DEF Corrects, Knows
    <2>5. QED BY <1>1, <2>2, <2>3, <2>4, ActorCorrects
  <1>3. CASE Stop(r) /\ UNCHANGED status
    <2>1. Followed /\ RowsInOrder' /\ StayLate /\ ~Corrects(r)
      BY <1>1, <1>3, SameRowsFollowed, RowsKept DEF Claim, Rows, StayLate, Corrects
    <2>2. Others(r) /\ ProcessesTold'
      BY <1>1, <1>3, <2>1, StopTells
    <2>3. QED BY <1>1, <2>1, <2>2, Undisturbed
  <1>4. QED BY <1>2, <1>3 DEF Claim

\* A run that goes from one stage to the next, in publication or not, changes nothing that
\* the check says.
LEMMA StageFollowed ==
  ASSUME SettledInv, NEW r \in Runs, status[r] \in Nonterminal, NEW t \in {"publishing", "completed"},
         status' = [status EXCEPT ![r] = t],
         UNCHANGED <<trigger, finding, thread, recorded, repo, branch, host, left>>,
         t = "publishing" => r \notin recorded,
         t = "completed" => status[r] = "publishing" /\ r \in recorded
  PROVE  Followed
  <1> USE DEF SettledInv, Kept, GateInv
  <1>1. /\ status'[r] = t /\ Stored' = Stored
        /\ \A q \in Runs : q # r => status'[q] = status[q]
    BY DEF TypeOK, Stored, Nonterminal
  <1>2. Latest = r /\ Latest' = r /\ r # NoRun
    BY <1>1, ActiveIsLatest DEF Latest
  <1>3. InCharge = r /\ InCharge' = r
    <2>1. status'[r] \notin {"failed", "cancelled"}
      BY <1>1
    <2>2. InCharge' = r
      BY <1>2, <2>1 DEF InCharge, InChargeUnder
    <2>3. QED BY <2>2, ActiveIsInCharge DEF InCharge
  <1>4. Pause(repo, r, Admitted)' = Pause(repo, r, Admitted)
    <2>1. ManualHolds(r)' <=> ManualHolds(r)
      BY <1>1 DEF ManualHolds, Nonterminal
    <2>2. QED BY <2>1 DEF Pause, Admitted
  <1>5. ReviewThere(r)' <=> ReviewThere(r)
    BY <1>1 DEF ReviewThere, Nonterminal
  <1>6. \A q, level : StillSo(q, level) => StillSo(q, level)'
    BY <1>3, <1>4, <1>5 DEF StillSo
  <1>7. ~ReviewThere(r) => NoVerdict(r)' = NoVerdict(r)
    BY <1>1 DEF NoVerdict, ReviewThere, Nonterminal
  <1>8. \A level : Verdict(r, level)' = Verdict(r, level)
    BY DEF Verdict, OpenFindings
  <1>9. Wanted' = Wanted
    BY <1>2, <1>3, <1>4, <1>5, <1>7, <1>8 DEF Wanted
  <1>10. \A q \in Runs : status[q] = "failed" => status'[q] = "failed"
    BY <1>1 DEF Nonterminal
  <1>11. QED BY <1>2, <1>6, <1>9, <1>10 DEF Followed

LEMMA StartPublishingSettles ==
  ASSUME SettledInv, NEW r \in Runs, StartPublishing(r)
  PROVE  Kept'
  <1> USE DEF SettledInv, Kept, GateInv
  <1>1. r \in Procs /\ pc[r] = "working" /\ r \notin recorded /\ ~Corrects(r) /\ recorded' = recorded
    BY DEF Procs, StartPublishing, ProcessesTold, Told, Corrects
  <1>2. ASSUME status[r] \in Nonterminal, Goto(r, "publishing"),
               status' = [status EXCEPT ![r] = "publishing"], UNCHANGED loc
        PROVE  Kept'
    <2>1. Followed
      BY <1>1, <1>2, StageFollowed DEF StartPublishing
    <2>2. StayLate /\ status'[r] = "publishing"
      BY <1>2 DEF StayLate, Late, TypeOK
    <2>3. RowsInOrder'
      BY <1>2, RowsKept DEF TypeOK, Nonterminal
    <2>4. Others(r) /\ pc'[r] = "publishing" /\ loc'[r] = loc[r]
      <3>1. pc' = [pc EXCEPT ![r] = "publishing"] /\ loc' = [loc EXCEPT ![r] = loc[r]]
        BY <1>2 DEF Goto, TypeOK
      <3>2. QED BY <1>1, <3>1, OnlyOneMoves
    <2>5. Told(r, pc'[r], loc'[r], recorded', status')
      BY <1>1, <2>2, <2>4 DEF Told, Late
    <2>6. ProcessesTold'
      BY <1>1, <2>2, <2>4, <2>5, ToldMoved
    <2>7. QED BY <1>1, <2>1, <2>3, <2>4, <2>6, Undisturbed
  <1>3. CASE Fails(r)
    BY <1>1, <1>3, FailsSettles DEF StartPublishing
  <1>4. QED BY <1>2, <1>3 DEF StartPublishing

LEMMA CheckNotCancelledSettles ==
  ASSUME SettledInv, NEW r \in Runs, CheckNotCancelled(r)
  PROVE  Kept'
  <1> USE DEF SettledInv, Kept, GateInv
  <1>1. r \in Procs /\ pc[r] = "publishing" /\ ~Corrects(r) /\ recorded' = recorded
    BY DEF Procs, CheckNotCancelled, Corrects
  <1>2. Followed /\ RowsInOrder' /\ StayLate /\ status' = status
    BY SameRowsFollowed, RowsKept DEF CheckNotCancelled, Rows, StayLate
  <1>3. CASE Stop(r)
    <2>1. Others(r) /\ ProcessesTold'
      BY <1>1, <1>2, <1>3, StopTells
    <2>2. QED BY <1>1, <1>2, <2>1, Undisturbed
  <1>4. CASE Goto(r, "recording") /\ UNCHANGED loc
    <2>1. pc' = [pc EXCEPT ![r] = "recording"] /\ loc' = [loc EXCEPT ![r] = loc[r]]
      BY <1>4 DEF Goto, TypeOK
    <2>2. Others(r) /\ pc'[r] = "recording" /\ loc'[r] = loc[r]
      BY <1>1, <2>1, OnlyOneMoves
    <2>3. Told(r, pc'[r], loc'[r], recorded', status')
      BY <1>1, <1>2, <2>2 DEF ProcessesTold, Told
    <2>4. ProcessesTold'
      BY <1>1, <1>2, <2>2, <2>3, ToldMoved
    <2>5. QED BY <1>1, <1>2, <2>2, <2>4, Undisturbed
  <1>5. QED BY <1>3, <1>4 DEF CheckNotCancelled

LEMMA RecordSettles ==
  ASSUME SettledInv, NEW r \in Runs, Record(r)
  PROVE  Kept'
  <1> USE DEF SettledInv, Kept, GateInv
  <1>1. /\ r \in Procs /\ pc[r] = "recording" /\ recorded' = recorded \cup {r} /\ status' = status
        /\ BeginSettle(r, "publish", NoRun) /\ "publish" \in Tasks
    BY DEF Procs, Record, Tasks
  <1>2. RowsInOrder' /\ StayLate
    BY <1>1, RowsKept DEF StayLate
  <1>3. status'[r] \in Late
    BY <1>1 DEF ProcessesTold, Told
  <1>4. ProcessesTold' /\ pc'[r] = "read" /\ loc'[r].check = NoCheck
    BY <1>1, <1>2, <1>3, BeginTells
  <1>5. Corrects(r)'
    BY <1>4 DEF Corrects, Knows
  <1>6. QED BY <1>1, <1>2, <1>4, <1>5, ActorCorrects

LEMMA CompleteSettles ==
  ASSUME SettledInv, NEW r \in Runs, Complete(r)
  PROVE  Kept'
  <1> USE DEF SettledInv, Kept, GateInv
  <1>1. r \in Procs /\ pc[r] = "completing" /\ ~Corrects(r) /\ recorded' = recorded
    BY DEF Procs, Complete, Corrects
  <1>2. r \in recorded /\ status[r] \in Late
    BY <1>1 DEF ProcessesGood, Good, ProcessesTold, Told
  <1>3. ASSUME status[r] \in Nonterminal, Stop(r), status' = [status EXCEPT ![r] = "completed"]
        PROVE  Kept'
    <2>1. status[r] = "publishing"
      BY <1>2, <1>3 DEF Late, Terminal, Nonterminal
    <2>2. Followed
      BY <1>2, <1>3, <2>1, StageFollowed DEF Complete
    <2>3. StayLate
      BY <1>3 DEF StayLate, Late, Terminal, TypeOK
    <2>4. RowsInOrder'
      BY <1>3, RowsKept DEF TypeOK, Nonterminal
    <2>5. Others(r) /\ ProcessesTold'
      BY <1>1, <1>3, <2>3, StopTells
    <2>6. QED BY <1>1, <2>2, <2>4, <2>5, Undisturbed
  <1>4. CASE Fails(r)
    BY <1>1, <1>4, FailsSettles DEF Complete
  <1>5. QED BY <1>3, <1>4 DEF Complete

LEMMA WorkerErrorSettles ==
  ASSUME SettledInv, NEW r \in Runs, WorkerError(r)
  PROVE  Kept'
  BY FailsSettles DEF WorkerError

LEMMA SweepSettles ==
  ASSUME SettledInv, NEW p \in Procs, NEW r \in Runs, Sweep(p, r)
  PROVE  Kept'
  BY FailedBlocks DEF Sweep

LEMMA BlockHeadSettles ==
  ASSUME SettledInv, NEW p \in Procs, BlockHead(p)
  PROVE  Kept'
  <1> USE DEF SettledInv, Kept, GateInv
  <1>1. pc[p] = "block" /\ status' = status /\ recorded' = recorded
    BY DEF BlockHead
  <1>2. Followed /\ RowsInOrder' /\ StayLate
    BY SameRowsFollowed, RowsKept DEF BlockHead, Rows, StayLate
  <1>3. CASE BeginSettle(p, "none", NoRun)
    <2>1. ProcessesTold' /\ pc'[p] = "read" /\ loc'[p].check = NoCheck
      BY <1>1, <1>2, <1>3, BeginTells DEF Tasks
    <2>2. Corrects(p)'
      BY <2>1 DEF Corrects, Knows
    <2>3. QED BY <1>2, <2>1, <2>2, ActorCorrects
  <1>4. CASE ~(status[loc[p].run] = "failed" /\ Latest = loc[p].run) /\ Stop(p)
    <2>1. Others(p) /\ ProcessesTold' /\ ~Corrects(p)
      BY <1>1, <1>2, <1>4, StopTells DEF Corrects
    <2>2. QED BY <1>2, <2>1, Undisturbed
  <1>5. QED BY <1>3, <1>4 DEF BlockHead

----------------------------------------------------------------------------
(* The steps of the API keep the host up to date. *)

LEMMA PauseIsSent ==
  ASSUME SettledInv, NEW p \in Procs, NEW why \in Pauses, Goto(p, "pausing"),
         loc' = [loc EXCEPT ![p] = [Idle EXCEPT !.check = PauseCheck(why)]],
         status' = status, recorded' = recorded
  PROVE  Kept'
  <1> USE DEF SettledInv, Kept, GateInv
  <1>1. ProcessesTold' /\ pc'[p] = "pausing"
    BY PauseTells
  <1>2. Corrects(p)'
    BY <1>1 DEF Corrects
  <1>3. QED BY <1>1, <1>2, RowsKept, ActorCorrects

\* A step of one who has not to do with the check and changes no row.
LEMMA Bystands ==
  ASSUME SettledInv, NEW p \in Procs, NEW s \in Untold, NEW v, v.task \notin {"claim", "publish"},
         pc' = [pc EXCEPT ![p] = s], loc' = [loc EXCEPT ![p] = v],
         UNCHANGED <<Rows, host, left>>, ~Corrects(p)
  PROVE  Kept'
  <1> USE DEF SettledInv, Kept, GateInv
  <1>1. status' = status /\ recorded' = recorded
    BY DEF Rows
  <1>2. Followed /\ RowsInOrder' /\ StayLate
    BY <1>1, SameRowsFollowed, RowsKept DEF StayLate
  <1>3. Others(p) /\ ProcessesTold'
    BY <1>1, <1>2, QuietTells
  <1>4. QED BY <1>2, <1>3, Undisturbed

LEMMA StopBystands ==
  ASSUME SettledInv, NEW p \in Procs, Stop(p), UNCHANGED <<Rows, host, left>>, ~Corrects(p)
  PROVE  Kept'
  <1> USE DEF SettledInv, Kept, GateInv
  <1>1. status' = status /\ recorded' = recorded
    BY DEF Rows
  <1>2. Followed /\ RowsInOrder' /\ StayLate
    BY <1>1, SameRowsFollowed, RowsKept DEF StayLate
  <1>3. Others(p) /\ ProcessesTold'
    BY <1>1, <1>2, StopTells
  <1>4. QED BY <1>2, <1>3, Undisturbed

\* One who gives up with an excuse.
LEMMA StopExcused ==
  ASSUME SettledInv, NEW p \in Procs, Stop(p), status' = status, recorded' = recorded, left' # "none"
  PROVE  Kept'
  <1> USE DEF SettledInv, Kept, GateInv
  <1>1. ProcessesTold' /\ RowsInOrder'
    BY StopTells, RowsKept DEF StayLate
  <1>2. QED BY <1>1, Excused

\* One who begins to settle the gate.
LEMMA BeginSettles ==
  ASSUME SettledInv, NEW p \in Procs, BeginSettle(p, "none", NoRun), StayLate, recorded' = recorded,
         RowsInOrder'
  PROVE  Kept'
  <1> USE DEF SettledInv, Kept, GateInv
  <1>1. ProcessesTold' /\ pc'[p] = "read" /\ loc'[p].check = NoCheck
    BY BeginTells DEF Tasks
  <1>2. Corrects(p)'
    BY <1>1 DEF Corrects, Knows
  <1>3. QED BY <1>1, <1>2, ActorCorrects

LEMMA PrWebhookSettles ==
  ASSUME SettledInv, NEW p \in Procs, PrWebhook(p)
  PROVE  Kept'
  <1> DEFINE why == Pause(repo, InCharge, TRUE)
             v == [Idle EXCEPT !.task = "webhook", !.filter = repo.filter]
  <1>1. status' = status /\ recorded' = recorded /\ UNCHANGED <<Rows, host, left>> /\ ~Corrects(p)
    BY DEF PrWebhook, Rows, Corrects
  <1>2. why \in Pauses \cup {"none"}
    BY PauseNow DEF SettledInv, GateInv, TypeOK
  <1>3. v.task \notin {"claim", "publish"} /\ "fetch" \in Untold
    BY DEF Idle, Untold, States
  <1>4. \/ /\ why # "none" /\ Goto(p, "pausing")
           /\ loc' = [loc EXCEPT ![p] = [Idle EXCEPT !.check = PauseCheck(why)]]
        \/ pc' = [pc EXCEPT ![p] = "fetch"] /\ loc' = [loc EXCEPT ![p] = v]
    BY DEF PrWebhook, Goto
  <1> HIDE DEF why, v
  <1>5. QED BY <1>1, <1>2, <1>3, <1>4, PauseIsSent, Bystands

LEMMA ManualRequestSettles ==
  ASSUME SettledInv, NEW p \in Procs, ManualRequest(p)
  PROVE  Kept'
  <1> DEFINE v == [Idle EXCEPT !.task = "manual"]
  <1>1. UNCHANGED <<Rows, host, left>> /\ ~Corrects(p)
    BY DEF ManualRequest, Rows, Corrects
  <1>2. v.task \notin {"claim", "publish"} /\ "fetch" \in Untold
    BY DEF Idle, Untold, States
  <1>3. pc' = [pc EXCEPT ![p] = "fetch"] /\ loc' = [loc EXCEPT ![p] = v]
    BY DEF ManualRequest, Goto
  <1> HIDE DEF v
  <1>4. QED BY <1>1, <1>2, <1>3, Bystands

LEMMA DeclineSettles ==
  ASSUME SettledInv, NEW p \in Procs, Decline(p)
  PROVE  Kept'
  <1>1. UNCHANGED <<Rows, host, left>> /\ ~Corrects(p) /\ Stop(p)
    BY DEF Decline, Rows, Corrects
  <1>2. QED BY <1>1, StopBystands

LEMMA SupersededFollows ==
  ASSUME SettledInv
  PROVE  /\ \A r \in Runs : Superseded[r] = "absent" <=> status[r] = "absent"
         /\ \A r \in Runs : Superseded[r] \notin Nonterminal
         /\ \A r \in Runs : status[r] \in Late => Superseded[r] \in Late
  BY DEF Superseded, Active, Stored, Nonterminal, Late, Terminal

LEMMA SkipFilteredSettles ==
  ASSUME SettledInv, NEW p \in Procs, NEW b \in Branches, SkipFiltered(p, b)
  PROVE  Kept'
  <1> DEFINE v == [loc[p] EXCEPT !.task = "pause"]
  <1> USE DEF SettledInv, Kept, GateInv
  <1>1. /\ recorded' = recorded /\ pc' = [pc EXCEPT ![p] = "decide"] /\ loc' = [loc EXCEPT ![p] = v]
        /\ status' \in {status, Superseded}
    BY DEF SkipFiltered, Goto, TypeOK
  <1>2. v.task = "pause" /\ "decide" \in Untold
    BY DEF TypeOK, Locals, Untold, States, Attending
  <1>3. StayLate /\ RowsInOrder'
    BY <1>1, SupersededFollows, RowsKept DEF StayLate
  <1> HIDE DEF v
  <1>4. ProcessesTold' /\ pc'[p] = "decide"
    BY <1>1, <1>2, <1>3, QuietTells
  <1>5. Corrects(p)'
    BY <1>4 DEF Corrects
  <1>6. QED BY <1>3, <1>4, <1>5, ActorCorrects

\* A run is stored after all others, when none is under way.
LEMMA StoreInOrder ==
  ASSUME SettledInv, NEW r \in Runs, NEW t, NEW s, Store(r, t, s),
         s \in [Runs -> Statuses \cup {"absent"}],
         \A q \in Runs : s[q] = "absent" <=> status[q] = "absent",
         \A q \in Runs : s[q] \notin Nonterminal,
         \A q \in Runs : status[q] \in Late => s[q] \in Late
  PROVE  StayLate /\ RowsInOrder'
  <1> USE DEF SettledInv, Kept, GateInv
  <1>1. /\ status[r] = "absent" /\ status'[r] = "queued"
        /\ \A q \in Runs : q # r => status'[q] = s[q]
        /\ \A q \in 1..(r - 1) : status[q] # "absent"
    BY DEF Store, Stored
  <1>2. StayLate
    BY <1>1 DEF StayLate, Late, Terminal
  <1>3. ASSUME NEW q \in Runs, status'[q] # "absent"
        PROVE  q <= r /\ \A x \in 1..(q - 1) : status'[x] # "absent"
    <2>1. Runs \subseteq Nat /\ q \in Nat /\ r \in Nat /\ 1 <= q /\ 1 <= r
      BY GateAssumption DEF Runs
    <2>2. \A x \in 1..(q - 1) : x \in Runs
      BY GateAssumption DEF Runs
    <2>3. CASE q = r
      BY <1>1, <2>1, <2>2, <2>3
    <2>4. CASE q # r
      <3>1. status[q] # "absent"
        BY <1>1, <1>3, <2>4
      <3>2. \A x \in 1..(q - 1) : status[x] # "absent"
        BY <3>1 DEF RowsInOrder
      <3>3. q <= r
        <4>1. ~(r \in 1..(q - 1))
          BY <1>1, <3>2
        <4>2. QED BY <2>1, <4>1
      <3>4. \A x \in 1..(q - 1) : x # r
        BY <2>1, <3>3
      <3>5. QED BY <1>1, <2>2, <3>2, <3>3, <3>4
    <2>5. QED BY <2>3, <2>4
  <1>4. \A q \in Runs : status'[q] \in Nonterminal => q = r
    BY <1>1
  <1>5. QED BY <1>2, <1>3, <1>4 DEF RowsInOrder, Nonterminal

LEMMA LaunchSettles ==
  ASSUME SettledInv, NEW p \in Procs, NEW r \in Runs, NEW b \in Branches, Launch(p, r, b)
  PROVE  Kept'
  <1> DEFINE v == [Idle EXCEPT !.run = r]
  <1> USE DEF SettledInv, Kept, GateInv
  <1>1. /\ recorded' = recorded /\ pc' = [pc EXCEPT ![p] = "enqueue"] /\ loc' = [loc EXCEPT ![p] = v]
        /\ left' = "lag"
    BY DEF Launch, Goto
  <1>2. StayLate /\ RowsInOrder'
    <2>1. \A q \in Runs : status[q] \notin Nonterminal
      BY DEF Launch, Active, Stored, Nonterminal
    <2>2. Store(r, loc[p].task, status) /\ status \in [Runs -> Statuses \cup {"absent"}]
      BY DEF Launch, TypeOK
    <2>3. QED BY <2>1, <2>2, StoreInOrder
  <1>3. v.task = "none" /\ "enqueue" \in Untold
    BY DEF Idle, Untold, States
  <1> HIDE DEF v
  <1>4. ProcessesTold'
    BY <1>1, <1>2, <1>3, QuietTells
  <1>5. QED BY <1>1, <1>2, <1>4, Excused

LEMMA RetargetSettles ==
  ASSUME SettledInv, NEW p \in Procs, NEW r \in Runs, NEW b \in Branches, Retarget(p, r, b)
  PROVE  Kept'
  <1> DEFINE v == [Idle EXCEPT !.task = "retarget", !.run = r, !.old = branch]
  <1> USE DEF SettledInv, Kept, GateInv
  <1>1. /\ recorded' = recorded /\ pc' = [pc EXCEPT ![p] = "read"] /\ loc' = [loc EXCEPT ![p] = v]
        /\ left' = "lag" /\ Store(r, "webhook", Superseded)
    BY DEF Retarget, Goto
  <1>2. StayLate /\ RowsInOrder'
    BY <1>1, SupersededFollows, SupersededKeeps, StoreInOrder
  <1>3. v.task = "retarget" /\ "read" \in Untold
    BY DEF Idle, Untold, States, Attending, Settling
  <1> HIDE DEF v
  <1>4. ProcessesTold'
    BY <1>1, <1>2, <1>3, QuietTells
  <1>5. QED BY <1>1, <1>2, <1>4, Excused

LEMMA EnqueueSettles ==
  ASSUME SettledInv, NEW p \in Procs, Enqueue(p)
  PROVE  Kept'
  <1>1. UNCHANGED <<Rows, host, left>> /\ ~Corrects(p) /\ Stop(p)
    BY DEF Enqueue, Rows, Corrects
  <1>2. QED BY <1>1, StopBystands

LEMMA EnqueueErrorSettles ==
  ASSUME SettledInv, NEW p \in Procs, EnqueueError(p)
  PROVE  Kept'
  <1> USE DEF SettledInv, Kept, GateInv
  <1>1. /\ UNCHANGED <<Rows, host, left>> /\ ~Corrects(p) /\ Goto(p, "compensate") /\ UNCHANGED loc
        /\ status' = status /\ recorded' = recorded
    BY DEF EnqueueError, Rows, Corrects
  <1>2. Followed /\ RowsInOrder' /\ StayLate
    BY <1>1, SameRowsFollowed, RowsKept DEF StayLate
  <1>3. Others(p) /\ ProcessesTold'
    <2>1. "compensate" \in Untold
      BY DEF Untold, States
    <2>2. QED BY <1>1, <1>2, <2>1, WentOnTells
  <1>4. QED BY <1>1, <1>2, <1>3, Undisturbed

LEMMA CompensateSettles ==
  ASSUME SettledInv, NEW p \in Procs, Compensate(p)
  PROVE  Kept'
  <1> USE DEF SettledInv, Kept, GateInv
  <1>1. recorded' = recorded /\ StayLate /\ RowsInOrder'
    <2>1. \A q \in Runs : status'[q] = status[q] \/ (status[q] \in Nonterminal /\ status'[q] = "failed")
      BY DEF Compensate, TypeOK
    <2>2. QED BY <2>1, RowsKept DEF Compensate, StayLate, Late, Terminal, Nonterminal
  <1>2. CASE BeginSettle(p, "none", NoRun)
    BY <1>1, <1>2, BeginSettles
  <1>3. CASE Goto(p, "restore") /\ UNCHANGED loc /\ left' = "lag"
    <2>1. "restore" \in Untold
      BY DEF Untold, States
    <2>2. ProcessesTold'
      BY <1>1, <1>3, <2>1, WentOnTells
    <2>3. QED BY <1>1, <1>3, <2>2, Excused
  <1>4. QED BY <1>2, <1>3 DEF Compensate

LEMMA RestoreSettles ==
  ASSUME SettledInv, NEW p \in Procs, Restore(p)
  PROVE  Kept'
  BY StopExcused DEF Restore

LEMMA DieSettles ==
  ASSUME SettledInv, NEW p \in Procs, Die(p)
  PROVE  Kept'
  BY StopExcused DEF Die

----------------------------------------------------------------------------
(* Thread events, pauses and settings. *)

LEMMA ThreadWebhookSettles ==
  ASSUME SettledInv, NEW p \in Procs, NEW r \in Runs, ThreadWebhook(p, r)
  PROVE  Kept'
  <1> DEFINE v == [Idle EXCEPT !.task = "thread"]
  <1> USE DEF SettledInv, Kept, GateInv
  <1>1. /\ status' = status /\ recorded' = recorded
        /\ pc' = [pc EXCEPT ![p] = "decide"] /\ loc' = [loc EXCEPT ![p] = v]
    BY DEF ThreadWebhook, Goto
  <1>2. v.task = "thread" /\ "decide" \in Untold
    BY DEF Idle, Untold, States, Attending
  <1>3. StayLate /\ RowsInOrder'
    BY <1>1, RowsKept DEF StayLate
  <1> HIDE DEF v
  <1>4. ProcessesTold' /\ pc'[p] = "decide"
    BY <1>1, <1>2, <1>3, QuietTells
  <1>5. Corrects(p)'
    BY <1>4 DEF Corrects
  <1>6. QED BY <1>3, <1>4, <1>5, ActorCorrects

LEMMA ThreadGoesOn ==
  ASSUME SettledInv, NEW p \in Procs, NEW s \in {"sync", "refresh"}, Goto(p, s), UNCHANGED loc,
         status' = status, recorded' = recorded
  PROVE  Kept'
  <1> USE DEF SettledInv, Kept, GateInv
  <1>1. s \in Untold /\ StayLate /\ RowsInOrder'
    BY RowsKept DEF StayLate, Untold, States, Attending
  <1>2. ProcessesTold' /\ pc'[p] = s
    BY <1>1, WentOnTells
  <1>3. Corrects(p)'
    BY <1>2 DEF Corrects
  <1>4. QED BY <1>1, <1>2, <1>3, ActorCorrects

LEMMA DecideSettles ==
  ASSUME SettledInv, NEW p \in Procs, Decide(p)
  PROVE  Kept'
  <1> DEFINE why == IF loc[p].task = "pause"
                    THEN Pause(Given(p), InChargeUnder(Given(p)), FALSE)
                    ELSE Pause(repo, InCharge, Admitted)
  <1>1. status' = status /\ recorded' = recorded
    BY DEF Decide
  <1>2. why \in Pauses \cup {"none"}
    <2>1. Admitted \in BOOLEAN /\ repo \in Repos
      BY DEF SettledInv, GateInv, TypeOK, Admitted
    <2>2. Pause(repo, InCharge, Admitted) \in Pauses \cup {"none"}
      BY <2>1, PauseNow
    <2>3. Pause(Given(p), InChargeUnder(Given(p)), FALSE) \in Pauses \cup {"none"}
      BY <2>1, PauseGiven
    <2>4. QED BY <2>2, <2>3
  <1>3. \/ /\ why # "none" /\ Goto(p, "pausing")
           /\ loc' = [loc EXCEPT ![p] = [Idle EXCEPT !.check = PauseCheck(why)]]
        \/ Goto(p, "sync") /\ UNCHANGED loc
        \/ Stop(p) /\ left' # "none"
    BY DEF Decide, Excuse
  <1> HIDE DEF why
  <1>4. QED BY <1>1, <1>2, <1>3, PauseIsSent, ThreadGoesOn, StopExcused

LEMMA SyncThreadsSettles ==
  ASSUME SettledInv, NEW p \in Procs, SyncThreads(p)
  PROVE  Kept'
  BY ThreadGoesOn DEF SyncThreads

LEMMA RefreshSettles ==
  ASSUME SettledInv, NEW p \in Procs, Refresh(p)
  PROVE  Kept'
  <1>1. status' = status /\ recorded' = recorded /\ StayLate /\ RowsInOrder'
    BY RowsKept DEF Refresh, StayLate, SettledInv, Kept, GateInv
  <1>2. BeginSettle(p, "none", NoRun) \/ (Stop(p) /\ left' # "none")
    BY DEF Refresh, Excuse
  <1>3. QED BY <1>1, <1>2, BeginSettles, StopExcused

LEMMA PostPauseSettles ==
  ASSUME SettledInv, NEW p \in Procs, PostPause(p) \/ PostPauseError(p)
  PROVE  Kept'
  <1> USE DEF SettledInv, Kept, GateInv
  <1>1. /\ status' = status /\ recorded' = recorded /\ pc[p] = "pausing"
        /\ pc' = [pc EXCEPT ![p] = "reread"] /\ loc' = [loc EXCEPT ![p] = loc[p]]
    BY DEF PostPause, PostPauseError, Goto, TypeOK
  <1>2. StayLate /\ RowsInOrder'
    BY <1>1, RowsKept DEF StayLate
  <1>3. Others(p) /\ pc'[p] = "reread" /\ loc'[p] = loc[p]
    BY <1>1, OnlyOneMoves
  <1>4. Told(p, pc'[p], loc'[p], recorded', status')
    BY <1>1, <1>3 DEF ProcessesTold, Told
  <1>5. ProcessesTold'
    BY <1>1, <1>2, <1>3, <1>4, ToldMoved
  <1>6. CASE PostPause(p)
    <2>1. Corrects(p)'
      BY <1>3, <1>6 DEF PostPause, Corrects
    <2>2. QED BY <1>2, <1>5, <2>1, ActorCorrects
  <1>7. CASE PostPauseError(p)
    BY <1>2, <1>5, <1>7, Excused DEF PostPauseError
  <1>8. QED BY <1>6, <1>7

LEMMA RereadPauseSettles ==
  ASSUME SettledInv, NEW p \in Procs, RereadPause(p)
  PROVE  Kept'
  <1> DEFINE why == Pause(repo, InCharge, Admitted)
  <1> USE DEF SettledInv, Kept, GateInv
  <1>1. pc[p] = "reread" /\ status' = status /\ recorded' = recorded
    BY DEF RereadPause
  <1>2. StayLate /\ RowsInOrder'
    BY <1>1, RowsKept DEF StayLate
  <1>3. CASE BeginSettle(p, "none", NoRun)
    BY <1>1, <1>2, <1>3, BeginSettles
  <1>4. CASE Stop(p) /\ left' = "lag"
    BY <1>1, <1>4, StopExcused
  <1>5. CASE Stop(p) /\ left' = left /\ PauseCheck(why) = loc[p].check
    <2>1. PICK told \in Pauses : loc[p].check = PauseCheck(told)
      BY <1>1 DEF ProcessesTold, Told
    <2>2. why = told
      BY <1>5, <2>1 DEF PauseCheck
    <2>3. loc[p].check = Wanted \/ host = Wanted
      <3>1. CASE InCharge = NoRun
        BY <3>1 DEF Wanted
      <3>2. CASE InCharge # NoRun
        BY <2>1, <2>2, <3>2, WantedWhenPaused
      <3>3. QED BY <3>1, <3>2
    <2>4. Corrects(p) => host = Wanted
      BY <1>1, <2>3 DEF Corrects
    <2>5. Followed
      BY <1>5, SameRowsFollowed DEF RereadPause, Rows
    <2>6. Others(p) /\ ProcessesTold'
      BY <1>1, <1>2, <1>5, StopTells
    <2>7. QED BY <1>2, <2>4, <2>5, <2>6, Undisturbed
  <1>6. QED BY <1>3, <1>4, <1>5 DEF RereadPause

LEMMA ChangeSettingsSettles ==
  ASSUME SettledInv, ChangeSettings
  PROVE  Kept'
  <1> USE DEF SettledInv, Kept, GateInv
  <1>1. RowsInOrder'
    BY RowsKept DEF ChangeSettings
  <1>2. ProcessesTold'
    BY DEF ChangeSettings, ProcessesTold, Told
  <1>3. QED BY <1>1, <1>2, Excused DEF ChangeSettings

LEMMA IdlySettled ==
  ASSUME SettledInv, UNCHANGED vars
  PROVE  Kept'
  <1> USE DEF SettledInv, Kept, GateInv
  <1>1. UNCHANGED <<Rows, host, left, pc, loc, status, recorded>>
    BY DEF vars, Rows
  <1>2. RowsInOrder' /\ ProcessesTold'
    BY <1>1, RowsKept DEF ProcessesTold, Told
  <1>3. Followed
    BY <1>1, SameRowsFollowed
  <1>4. CASE Procs = {}
    BY <1>2, <1>3, <1>4 DEF HostKept, Followed
  <1>5. ASSUME NEW p \in Procs PROVE Kept'
    <2>1. Others(p)
      BY <1>1 DEF Others
    <2>2. Corrects(p) => Corrects(p)'
      <3>1. PICK x, l : x = loc[p].link /\ l = loc[p].level
        OBVIOUS
      <3>2. StillSo(x, l) => StillSo(x, l)'
        BY <1>3 DEF Followed
      <3>3. StillSo(loc[p].link, loc[p].level) => StillSo(loc[p].link, loc[p].level)'
        BY <1>1, <3>1, <3>2 DEF StillSo
      <3>4. QED BY <1>1, <1>3, <3>3 DEF Corrects, Knows, Followed
    <2>3. QED BY <1>2, <1>3, <2>1, <2>2, Undisturbed
  <1>6. QED BY <1>4, <1>5

----------------------------------------------------------------------------
(* The gate is settled. *)

LEMMA InitSettled == Init => SettledInv
  <1> SUFFICES ASSUME Init PROVE Kept
    BY InitGateInv DEF SettledInv
  <1>1. RowsInOrder
    BY DEF Init, RowsInOrder, Nonterminal
  <1>2. ProcessesTold
    BY DEF Init, ProcessesTold, Told, Idle
  <1>3. InCharge = NoRun
    <2>1. Stored = {}
      BY DEF Init, Stored
    <2>2. Latest = NoRun
      BY <2>1 DEF Latest, Newest
    <2>3. QED BY <2>2 DEF InCharge, InChargeUnder
  <1>4. host = Wanted
    BY <1>3 DEF Wanted
  <1>5. QED BY <1>1, <1>2, <1>4 DEF Kept, HostKept

LEMMA HookSettles ==
  ASSUME SettledInv, NEW p \in Procs, Hook(p)
  PROVE  Kept'
  <1>1. CASE PrWebhook(p) \/ ManualRequest(p) \/ Decline(p)
    BY <1>1, PrWebhookSettles, ManualRequestSettles, DeclineSettles
  <1>2. CASE \E b \in Branches : SkipFiltered(p, b)
    BY <1>2, SkipFilteredSettles
  <1>3. CASE \E r \in Runs, b \in Branches : Launch(p, r, b) \/ Retarget(p, r, b)
    BY <1>3, LaunchSettles, RetargetSettles
  <1>4. CASE Enqueue(p) \/ EnqueueError(p) \/ Compensate(p) \/ Restore(p)
    BY <1>4, EnqueueSettles, EnqueueErrorSettles, CompensateSettles, RestoreSettles
  <1>5. CASE \E r \in Runs : ThreadWebhook(p, r) \/ Sweep(p, r)
    BY <1>5, ThreadWebhookSettles, SweepSettles
  <1>6. CASE Decide(p) \/ SyncThreads(p) \/ Refresh(p)
    BY <1>6, DecideSettles, SyncThreadsSettles, RefreshSettles
  <1>7. CASE PostPause(p) \/ PostPauseError(p) \/ RereadPause(p)
    BY <1>7, PostPauseSettles, RereadPauseSettles
  <1>8. QED BY <1>1, <1>2, <1>3, <1>4, <1>5, <1>6, <1>7 DEF Hook

LEMMA NextSettles == SettledInv /\ [Next]_vars => SettledInv'
  <1> SUFFICES ASSUME SettledInv, [Next]_vars PROVE Kept'
    BY NextKeeps DEF SettledInv
  <1>1. ASSUME NEW r \in Runs, Worker(r) PROVE Kept'
    BY <1>1, ClaimSettles, StartPublishingSettles, CheckNotCancelledSettles, RecordSettles,
       CompleteSettles, WorkerErrorSettles DEF Worker
  <1>2. ASSUME NEW p \in Hooks, Hook(p) PROVE Kept'
    BY <1>2, HookSettles DEF Procs
  <1>3. ASSUME NEW p \in Procs, Settle(p) PROVE Kept'
    BY <1>3, SettleReadSettles, SettleFindingsSettles, SettlePostSettles, SettleErrorSettles DEF Settle
  <1>4. ASSUME NEW p \in Procs, BlockHead(p) \/ Die(p) PROVE Kept'
    BY <1>4, BlockHeadSettles, DieSettles
  <1>5. QED
    BY <1>1, <1>2, <1>3, <1>4, ChangeSettingsSettles, IdlySettled DEF Next

\* The inductive invariant of the settled gate: what is not on the host yet has somebody
\* on the way to it, who looks again after every check that was sent (settle_merge_gate).
THEOREM SettledInvariance == Spec => []SettledInv
  <1>1. QED BY InitSettled, NextSettles, PTL DEF Spec

\* When nobody is going to look at the gate any more and there is no excuse, the commit
\* carries the check the database calls for, however the POSTs of workers, the sweep,
\* retargets and thread events overtook one another (settle_merge_gate and its callers).
THEOREM GateIsSettled == Spec => []GateSettled
  <1>1. SettledInv => GateSettled
    <2> SUFFICES ASSUME SettledInv, Unattended, left = "none" PROVE host = Wanted
      BY DEF GateSettled
    <2>1. \A p \in Procs : ~Corrects(p)
      BY DEF Unattended, Attending, Settling, Corrects
    <2>2. QED BY <2>1 DEF SettledInv, Kept, HostKept
  <1>2. QED BY <1>1, InitSettled, NextSettles, PTL DEF Spec
============================================================================
