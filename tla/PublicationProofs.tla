------------------------- MODULE PublicationProofs -------------------------
(***************************************************************************)
(* For any number of runs, places and interferences: a run that completes  *)
(* knows every review it owes, and its review repeats none of their        *)
(* comments. At the end the parts of the worker are put side by side.      *)
(***************************************************************************)
EXTENDS MCWorker, WorkerProofs, WellFoundedInduction, TLAPS

\* Runs that are still to look for orphans, and those that have adopted all they found.
Unread == {"idle", "start"}
Adopting == {"adopting", "found"}
Adopted(r) == at[r] \in {"syncing", "checking", "posting", "posted", "recorded"}
              \/ row[r].status = "completed"

\* How the worker, the row and the review of a run go together.
Staged(r) ==
    /\ row[r].status = "waiting" <=> at[r] = "idle"
    /\ row[r].status = "completed" => at[r] = "done"
    /\ r \in posted => at[r] \in {"posted", "recorded", "failing", "done"}
    /\ at[r] = "posted" => r \in posted
    /\ at[r] = "posted" => IF local[r].ids THEN comments[r] = local[r].drafts ELSE r \in lost
    /\ at[r] = "found" => local[r].orphans # {} /\ NextOrphan(r) \in posted
    /\ r \in recorded => r \in posted
    /\ before[r] \subseteq posted

\* A review is recorded with its comments unless they were lost.
Complete_(q) == q \in recorded \ lost => {q} \X comments[q] \subseteq inlineRow

\* What a run owes it has still to adopt, or it is recorded.
Settled(r) ==
    /\ at[r] \in Adopting => Owed(r) \subseteq recorded \cup local[r].orphans
    /\ Adopted(r) => Owed(r) \subseteq recorded

\* A review of a failed run that nobody has recorded.
Stray == {q \in posted \ (recorded \cup lost) : row[q].status = "failed"}

\* A run that began after a failure has seen it; a record as late as a failure
\* hides its review from everyone who is still to look.
Seen(r) == at[r] \in Working \ Unread =>
    \A q \in Stray : row[q].failedAt <= local[r].now => q \in before[r]
HiddenFromAll(q) == \A r \in Reviews : at[r] \in Unread => <<r, q>> \in hidden
Hiding ==
    /\ \A q \in Stray : (\E p \in recorded : publishedAt[p] >= row[q].failedAt) => HiddenFromAll(q)
    /\ \A r \in Reviews, q \in Reviews : <<r, q>> \in hidden => HiddenFromAll(q)

\* The threads of what a run owes are among those it has read, and none of its drafts
\* repeats them.
Spoken(r) == r \notin blind =>
    /\ at[r] = "syncing" => \A q \in Owed(r) : {q} \X comments[q] \subseteq local[r].threads
    /\ at[r] \in {"checking", "posting"} =>
          \A q \in Owed(r) : \A p \in local[r].drafts \cap comments[q] :
              <<q, p>> \in outdated \/ found[q][p] < found[r][p]

PubInv ==
    /\ PubTypeOK
    /\ \A r \in Reviews : Staged(r) /\ Complete_(r) /\ Settled(r) /\ Seen(r) /\ Spoken(r)
    /\ Hiding
\* ---- lemmas ----------------------------------------------------------------

\* The next orphan is one of them.
LEMMA NextIsOrphan ==
  ASSUME NEW S \in SUBSET Reviews, S # {}
  PROVE  Min(S) \in S
<1> DEFINE R == OpToRel(<, Nat)
<1>1. S \subseteq Nat
  BY PublicationAssumption
<1>2. \E x \in S : \A y \in S : <<y, x>> \notin R
  <2>1. IsWellFoundedOn(R, Nat)
    BY NatLessThanWellFounded
  <2> HIDE DEF R
  <2>. QED  BY <1>1, <2>1, WFMin
<1>3. PICK x \in S : \A y \in S : <<y, x>> \notin R
  BY <1>2
<1>4. ASSUME NEW y \in S PROVE x =< y
  <2>1. x \in Nat /\ y \in Nat
    BY <1>1
  <2>2. ~ (y < x)
    BY <1>3, <2>1 DEF OpToRel
  <2>. QED  BY <2>1, <2>2
<1>5. \E m \in S : \A y \in S : m =< y
  BY <1>4
<1>. QED  BY <1>5 DEF Min

Rows == [status : {"waiting", "publishing", "completed", "failed", "cancelled"}, failedAt : 0..clock]
Locals == [now : 0..clock, orphans : SUBSET Reviews, threads : SUBSET Threads,
           drafts : SUBSET Places, ids : BOOLEAN]

\* Time only passes, so that what has its type keeps it.
LEMMA LaterTypes ==
  ASSUME PubTypeOK, clock' \in Nat, clock <= clock'
  PROVE  /\ row \in [Reviews -> Rows'] /\ local \in [Reviews -> Locals']
         /\ publishedAt \in [Reviews -> 0..clock'] /\ clock \in 0..clock' /\ clock' \in 0..clock'
<1>1. 0..clock \subseteq 0..clock' /\ clock \in 0..clock' /\ clock' \in 0..clock'
  BY DEF PubTypeOK
<1>2. Rows \subseteq Rows'
  BY <1>1 DEF Rows
<1>3. Locals \subseteq Locals'
  BY <1>1 DEF Locals
<1>4. row \in [Reviews -> Rows] /\ local \in [Reviews -> Locals]
  BY DEF PubTypeOK, Rows, Locals
<1>. QED  BY <1>1, <1>2, <1>3, <1>4 DEF PubTypeOK

LEMMA BeginTypes ==
  ASSUME PubTypeOK, NEW r \in Reviews, Begin(r)
  PROVE  PubTypeOK'
<1>1. clock' = clock + 1 /\ clock' \in Nat /\ clock <= clock'
  BY DEF Begin, PubTypeOK
<1>2. /\ row' = [row EXCEPT ![r].status = "publishing"]
      /\ local' = [local EXCEPT ![r].now = clock'] /\ at' = [at EXCEPT ![r] = "start"]
      /\ \E f \in [Places -> Found] : found' = [found EXCEPT ![r] = f]
      /\ UNCHANGED <<host, records, troubles, history>>
  BY DEF Begin, Move
<1>3. row' \in [Reviews -> Rows']
  BY <1>1, <1>2, LaterTypes DEF Rows
<1>4. local' \in [Reviews -> Locals']
  BY <1>1, <1>2, LaterTypes DEF Locals
<1>5. found' \in [Reviews -> [Places -> 0..Critical]]
  <2>1. PICK f \in [Places -> Found] : found' = [found EXCEPT ![r] = f]
    BY <1>2
  <2>2. f \in [Places -> 0..Critical]
    BY PublicationAssumption
  <2>. QED  BY <2>1, <2>2 DEF PubTypeOK
<1>6. at' \in [Reviews -> Working \cup {"idle", "done"}]
  BY <1>2 DEF PubTypeOK, Working
<1>7. publishedAt' \in [Reviews -> 0..clock'] /\ troubles' \in 0..Troubles
  BY <1>1, <1>2, LaterTypes DEF records, PubTypeOK
<1>8. /\ posted' \subseteq Reviews /\ comments' \in [Reviews -> SUBSET Places]
      /\ closed' \subseteq Threads /\ outdated' \subseteq Threads
      /\ recorded' \subseteq Reviews /\ inlineRow' \subseteq Threads
  BY <1>2 DEF host, records, PubTypeOK
<1>9. /\ before' \in [Reviews -> SUBSET Reviews] /\ lost' \subseteq Reviews
      /\ hidden' \subseteq Reviews \X Reviews /\ blind' \subseteq Reviews
  BY <1>2 DEF history, PubTypeOK
<1>. QED  BY <1>1, <1>3, <1>4, <1>5, <1>6, <1>7, <1>8, <1>9 DEF PubTypeOK, Rows, Locals


\* A step that takes no time: what a worker holds, and the rest.
LEMMA QuietTypes ==
  ASSUME PubTypeOK, NEW r \in Reviews, UNCHANGED <<clock, found>>,
         at' \in [Reviews -> Working \cup {"idle", "done"}],
         row' \in [Reviews -> Rows], local' \in [Reviews -> Locals],
         posted' \subseteq Reviews, comments' \in [Reviews -> SUBSET Places],
         UNCHANGED records \/ \E q \in Reviews, D \in SUBSET Places, n \in 0..clock : Store(q, D, n),
         before' \in [Reviews -> SUBSET Reviews], lost' \subseteq Reviews,
         hidden' \subseteq Reviews \X Reviews, blind' \subseteq Reviews,
         UNCHANGED <<closed, outdated>>, UNCHANGED troubles \/ \E k \in TroubleKinds : Trouble(k)
  PROVE  PubTypeOK'
<1>1. troubles' \in 0..Troubles
  BY PublicationAssumption DEF PubTypeOK, Trouble
<1>2. publishedAt' \in [Reviews -> 0..clock] /\ recorded' \subseteq Reviews /\ inlineRow' \subseteq Threads
  <2>1. CASE UNCHANGED records
    BY <2>1 DEF PubTypeOK, records
  <2>2. ASSUME NEW q \in Reviews, NEW D \in SUBSET Places, NEW n \in 0..clock, Store(q, D, n)
        PROVE  publishedAt' \in [Reviews -> 0..clock] /\ recorded' \subseteq Reviews
               /\ inlineRow' \subseteq Threads
    <3>1. {q} \X D \subseteq Threads
      BY DEF Threads
    <3>. QED  BY <2>2, <3>1 DEF PubTypeOK, Store
  <2>. QED  BY <2>1, <2>2
<1>. QED  BY <1>1, <1>2 DEF PubTypeOK, Rows, Locals



\* A step of one run, with what it may do to the others: reviews, records and excuses
\* only come, and a run that fails does so later than everything before.
Grows ==
    /\ posted \subseteq posted' /\ recorded \subseteq recorded' /\ lost \subseteq lost'
    /\ hidden \subseteq hidden' /\ inlineRow \subseteq inlineRow' /\ blind \subseteq blind'
    /\ outdated \subseteq outdated'
    /\ \A q \in posted : comments'[q] = comments[q] /\ found'[q] = found[q]
Spares(r) == \A x \in Reviews \ {r} :
    /\ at'[x] = at[x] /\ local'[x] = local[x] /\ row'[x] = row[x] /\ before'[x] = before[x]
    /\ found'[x] = found[x] /\ comments'[x] = comments[x]
    /\ x \in posted' => x \in posted
StrayLate == \A q \in Stray' :
    (q \in Stray /\ row'[q].failedAt = row[q].failedAt) \/ row'[q].failedAt > clock
RecordsAreWhole == \A q \in recorded' \ recorded :
    q \in posted' /\ (q \notin lost' => {q} \X comments'[q] \subseteq inlineRow')

LEMMA OwedLess ==
  ASSUME Grows, NEW x \in Reviews, before'[x] = before[x]
  PROVE  Owed(x)' \subseteq Owed(x)
BY DEF Grows, Owed

LEMMA PubFrame ==
  ASSUME PubInv, NEW r \in Reviews, PubTypeOK', Grows, Spares(r), StrayLate, RecordsAreWhole,
         Staged(r)', Settled(r)', Seen(r)', Spoken(r)', Hiding'
  PROVE  PubInv'
<1>1. ASSUME NEW x \in Reviews \ {r} PROVE Staged(x)'
  <2>1. Staged(x)
    BY DEF PubInv
  <2>2. NextOrphan(x)' = NextOrphan(x)
    BY DEF Spares, NextOrphan
  <2>3. x \in recorded' => x \in posted'
    BY <2>1 DEF RecordsAreWhole, Grows, Staged
  <2>. QED  BY <2>1, <2>2, <2>3 DEF Staged, Spares, Grows
<1>2. ASSUME NEW x \in Reviews PROVE Complete_(x)'
  <2>1. CASE x \in recorded
    <3>1. x \in posted /\ Complete_(x)
      BY <2>1 DEF PubInv, Staged
    <3>. QED  BY <2>1, <3>1 DEF Complete_, Grows
  <2>2. CASE x \notin recorded
    BY <2>2 DEF Complete_, RecordsAreWhole
  <2>. QED  BY <2>1, <2>2
<1>3. ASSUME NEW x \in Reviews \ {r} PROVE Settled(x)'
  <2>1. Settled(x) /\ Owed(x)' \subseteq Owed(x)
    BY OwedLess DEF PubInv, Spares
  <2>. QED  BY <2>1 DEF Settled, Spares, Grows, Adopted
<1>4. ASSUME NEW x \in Reviews \ {r} PROVE Seen(x)'
  <2>1. Seen(x) /\ local[x].now <= clock /\ local[x].now \in Nat /\ clock \in Nat
    BY DEF PubInv, PubTypeOK
  <2>2. ASSUME at[x] \in Working \ Unread, NEW q \in Stray', row'[q].failedAt <= local[x].now
        PROVE  q \in before[x]
    <3>1. row'[q].failedAt \in Nat
      BY DEF PubTypeOK, Stray
    <3>2. q \in Stray /\ row'[q].failedAt = row[q].failedAt
      BY <2>1, <2>2, <3>1 DEF StrayLate
    <3>. QED  BY <2>1, <2>2, <3>2 DEF Seen
  <2>. QED  BY <2>2 DEF Seen, Spares
<1>5. ASSUME NEW x \in Reviews \ {r} PROVE Spoken(x)'
  <2>1. Spoken(x) /\ Owed(x)' \subseteq Owed(x) /\ before[x] \subseteq posted /\ Owed(x) \subseteq before[x]
    BY OwedLess DEF PubInv, Staged, Spares, Owed
  <2>. QED  BY <2>1 DEF Spoken, Spares, Grows
<1>. QED  BY <1>1, <1>2, <1>3, <1>4, <1>5 DEF PubInv

\* A step that records and hides nothing.
LEMMA HidingKept ==
  ASSUME PubInv, PubTypeOK', UNCHANGED <<recorded, publishedAt, hidden>>, StrayLate,
         \A x \in Reviews : at'[x] \in Unread => at[x] \in Unread
  PROVE  Hiding'
<1>1. \A q : HiddenFromAll(q) => HiddenFromAll(q)'
  BY DEF HiddenFromAll
<1>2. ASSUME NEW q \in Stray', NEW p \in recorded, publishedAt[p] >= row'[q].failedAt
      PROVE  HiddenFromAll(q)
  <2>1. publishedAt[p] \in 0..clock /\ clock \in Nat /\ row'[q].failedAt \in Nat
    BY DEF PubInv, PubTypeOK, Stray
  <2>2. q \in Stray /\ row'[q].failedAt = row[q].failedAt
    BY <1>2, <2>1 DEF StrayLate
  <2>. QED  BY <1>2, <2>2 DEF PubInv, Hiding
<1>. QED  BY <1>1, <1>2 DEF PubInv, Hiding

\* ---- the steps -------------------------------------------------------------

LEMMA BeginInv ==
  ASSUME PubInv, NEW r \in Reviews, Begin(r)
  PROVE  PubInv'
<1>1. PubTypeOK' /\ PubTypeOK
  BY BeginTypes DEF PubInv
<1>2. /\ row[r].status = "waiting" /\ at[r] = "idle" /\ r \notin posted
  BY DEF Begin, PubInv, Staged
<1>3. /\ at' = [at EXCEPT ![r] = "start"] /\ row' = [row EXCEPT ![r].status = "publishing"]
      /\ local' = [local EXCEPT ![r].now = clock + 1]
      /\ \E f \in [Places -> Found] : found' = [found EXCEPT ![r] = f]
      /\ UNCHANGED <<posted, comments, closed, outdated, recorded, inlineRow, publishedAt, before,
                     lost, hidden, blind>>
  BY DEF Begin, Move, host, records, history
<1>4. at'[r] = "start" /\ row'[r].status = "publishing"
  BY <1>1, <1>3 DEF PubTypeOK
<1>5. Grows /\ Spares(r)
  BY <1>1, <1>2, <1>3 DEF Grows, Spares, PubTypeOK
<1>6. StrayLate
  BY <1>1, <1>3, <1>4 DEF StrayLate, Stray, PubTypeOK
<1>7. RecordsAreWhole
  BY <1>3 DEF RecordsAreWhole
<1>8. Staged(r)'
  BY <1>2, <1>3, <1>4 DEF PubInv, Staged
<1>9. Settled(r)' /\ Seen(r)' /\ Spoken(r)'
  BY <1>4 DEF Settled, Seen, Spoken, Adopting, Adopted, Unread
<1>10. Hiding'
  <2>1. \A x \in Reviews : at'[x] \in Unread => at[x] \in Unread
    BY <1>1, <1>2, <1>3 DEF Unread, PubTypeOK
  <2>. QED  BY <1>1, <1>3, <1>6, <2>1, HidingKept
<1>. QED  BY <1>1, <1>5, <1>6, <1>7, <1>8, <1>9, <1>10, PubFrame

LEMMA ReadOrphansInv ==
  ASSUME PubInv, NEW r \in Reviews, ReadOrphans(r)
  PROVE  PubInv'
<1>1. /\ at[r] = "start" /\ at' = [at EXCEPT ![r] = "adopting"]
      /\ local' = [local EXCEPT ![r].orphans = Orphans]
      /\ before' = [before EXCEPT ![r] = {q \in posted : q \in recorded \/ row[q].status = "failed"}]
      /\ UNCHANGED <<row, clock, found, posted, comments, closed, outdated, recorded, inlineRow,
                     publishedAt, troubles, lost, hidden, blind>>
  BY DEF ReadOrphans, Move, runs, host, records
<1>2. PubTypeOK /\ Orphans \in SUBSET Reviews
  BY DEF PubInv, Orphans
<1>3. PubTypeOK'
  <2>1. at' \in [Reviews -> Working \cup {"idle", "done"}]
    BY <1>1, <1>2 DEF PubTypeOK, Working
  <2>2. local' \in [Reviews -> Locals] /\ row' \in [Reviews -> Rows]
    <3>1. local \in [Reviews -> Locals] /\ row \in [Reviews -> Rows] /\ row' = row
      BY <1>1, <1>2 DEF PubTypeOK, Locals, Rows
    <3>2. [local[r] EXCEPT !.orphans = Orphans] \in Locals
      BY <1>2, <3>1 DEF Locals
    <3>. QED  BY <1>1, <3>1, <3>2
  <2>3. before' \in [Reviews -> SUBSET Reviews]
    BY <1>1, <1>2 DEF PubTypeOK
  <2>. QED  BY <1>1, <1>2, <2>1, <2>2, <2>3, QuietTypes DEF records, PubTypeOK
<1>4. /\ at'[r] = "adopting" /\ local'[r].orphans = Orphans
      /\ before'[r] = {q \in posted : q \in recorded \/ row[q].status = "failed"}
      /\ r \notin posted /\ row[r].status # "waiting" /\ row[r].status # "completed"
  <2>1. Staged(r)
    BY DEF PubInv
  <2>. QED  BY <1>1, <1>2, <2>1 DEF PubTypeOK, Staged
<1>5. Grows /\ StrayLate /\ RecordsAreWhole
  BY <1>1 DEF Grows, StrayLate, Stray, RecordsAreWhole
<1>6. Spares(r)
  BY <1>1 DEF Spares
<1>7. Staged(r)'
  BY <1>1, <1>4 DEF PubInv, Staged
<1>8. Settled(r)'
  <2>1. ASSUME NEW q \in posted \ (lost \cup recorded), row[q].status = "failed", <<r, q>> \notin hidden
        PROVE  q \in Orphans
    <3>1. q \in Stray /\ q \in Reviews
      BY <1>2, <2>1 DEF Stray, PubTypeOK
    <3>2. ~ \E p \in recorded : publishedAt[p] >= row[q].failedAt
      BY <1>1, <2>1, <3>1 DEF PubInv, Hiding, HiddenFromAll, Unread
    <3>3. \A p \in recorded : publishedAt[p] \in Nat /\ row[q].failedAt \in Nat
      BY <1>2, <3>1 DEF PubTypeOK
    <3>. QED  BY <2>1, <3>1, <3>2, <3>3 DEF Orphans
  <2>2. Owed(r)' = {q \in posted \ lost : (q \in recorded \/ row[q].status = "failed") /\ <<r, q>> \notin hidden}
    BY <1>1, <1>4 DEF Owed
  <2>. QED  BY <1>1, <1>4, <2>1, <2>2 DEF Settled, Adopting, Adopted
<1>9. Seen(r)'
  BY <1>1, <1>4 DEF Seen, Stray
<1>10. Spoken(r)'
  BY <1>4 DEF Spoken
<1>11. Hiding'
  <2>1. \A x \in Reviews : at'[x] \in Unread => at[x] \in Unread
    BY <1>1, <1>2 DEF Unread, PubTypeOK
  <2>. QED  BY <1>1, <1>3, <1>5, <2>1, HidingKept
<1>. QED  BY <1>3, <1>5, <1>6, <1>7, <1>8, <1>9, <1>10, <1>11, PubFrame

\* A worker goes on and touches nothing that others see.
LEMMA Moves ==
  ASSUME PubInv, NEW r \in Reviews, NEW a \in (Working \cup {"done"}) \ Unread, NEW l \in Locals,
         at' = [at EXCEPT ![r] = a], local' = [local EXCEPT ![r] = l],
         UNCHANGED <<row, clock, found, host, records, before, hidden>>,
         UNCHANGED troubles \/ \E k \in TroubleKinds : Trouble(k),
         lost \subseteq lost', lost' \subseteq Reviews, blind \subseteq blind', blind' \subseteq Reviews,
         at[r] \in Working, a # "done" => at[r] \notin Unread /\ l.now = local[r].now,
         Staged(r)', Settled(r)', Spoken(r)'
  PROVE  PubInv'
<1>1. PubTypeOK /\ local \in [Reviews -> Locals] /\ row \in [Reviews -> Rows]
  BY DEF PubInv, PubTypeOK, Locals, Rows
<1>2. /\ at' \in [Reviews -> Working \cup {"idle", "done"}] /\ local' \in [Reviews -> Locals]
      /\ at'[r] = a /\ local'[r] = l
      /\ \A x \in Reviews \ {r} : at'[x] = at[x] /\ local'[x] = local[x]
  BY <1>1 DEF PubTypeOK
<1>3. PubTypeOK'
  <2>1. /\ posted' \subseteq Reviews /\ comments' \in [Reviews -> SUBSET Places]
        /\ before' \in [Reviews -> SUBSET Reviews] /\ hidden' \subseteq Reviews \X Reviews
        /\ UNCHANGED <<closed, outdated, row, clock, found>> /\ UNCHANGED records
    BY <1>1 DEF PubTypeOK, host
  <2>. QED  BY <1>1, <1>2, <2>1, QuietTypes
<1>4. Stray' \subseteq Stray
  BY DEF Stray, host, records
<1>5. Grows /\ RecordsAreWhole
  BY DEF Grows, RecordsAreWhole, host, records
<1>6. StrayLate
  BY <1>4 DEF StrayLate
<1>7. Spares(r)
  BY <1>2 DEF Spares, host
<1>8. Seen(r)'
  <2>1. CASE a = "done"
    BY <1>2, <2>1 DEF Seen, Working
  <2>2. CASE a # "done"
    <3>1. Seen(r) /\ at[r] \in Working \ Unread /\ l.now = local[r].now
      BY <2>2 DEF PubInv
    <3>. QED  BY <1>2, <1>4, <3>1 DEF Seen
  <2>. QED  BY <2>1, <2>2
<1>9. Hiding'
  <2>1. \A x \in Reviews : at'[x] \in Unread => at[x] \in Unread
    BY <1>2
  <2>. QED  BY <1>3, <1>6, <2>1, HidingKept DEF records
<1>. QED  BY <1>3, <1>5, <1>6, <1>7, <1>8, <1>9, PubFrame

LEMMA FindReviewInv ==
  ASSUME PubInv, NEW r \in Reviews, FindReview(r) \/ FindFails(r)
  PROVE  PubInv'
<1> DEFINE q == NextOrphan(r)
           l == [local[r] EXCEPT !.orphans = @ \ {q}]
<1>1. /\ at[r] = "adopting" /\ local[r].orphans # {} /\ local[r] \in Locals
      /\ UNCHANGED <<row, clock, found, host, records, before, hidden, blind, troubles>>
  BY DEF FindReview, FindFails, runs, history, PubInv, PubTypeOK, Locals
<1>2. q \in local[r].orphans /\ local[r].orphans \subseteq Reviews /\ l \in Locals
      /\ l.now = local[r].now /\ l.orphans = local[r].orphans \ {q}
  BY <1>1, NextIsOrphan DEF Locals, NextOrphan
<1>3. PubTypeOK /\ Staged(r) /\ Settled(r) /\ "adopting" \notin Unread /\ "found" \notin Unread
      /\ {"adopting", "found"} \subseteq Working
  BY DEF PubInv, Unread, Working
<1>4. CASE q \in posted /\ Move(r, "found") /\ UNCHANGED <<local, lost>>
  <2>1. at' = [at EXCEPT ![r] = "found"] /\ local' = [local EXCEPT ![r] = local[r]] /\ at'[r] = "found"
        /\ local'[r] = local[r] /\ before'[r] = before[r]
    BY <1>1, <1>3, <1>4 DEF Move, PubTypeOK
  <2>2. Staged(r)'
    BY <1>1, <1>3, <1>4, <2>1 DEF Staged, NextOrphan, host, records
  <2>3. Settled(r)'
    BY <1>1, <1>3, <1>4, <2>1 DEF Settled, Adopting, Adopted, Owed, records, Staged
  <2>4. Spoken(r)'
    BY <2>1 DEF Spoken
  <2>. QED  BY <1>1, <1>3, <1>4, <2>1, <2>2, <2>3, <2>4, Moves DEF PubTypeOK
<1>5. CASE Skip(r) /\ UNCHANGED at /\ lost \subseteq lost' /\ lost' \subseteq Reviews
           /\ (q \in posted => q \in lost')
  <2>1. at' = [at EXCEPT ![r] = "adopting"] /\ local' = [local EXCEPT ![r] = l] /\ at'[r] = "adopting"
        /\ local'[r] = l /\ before'[r] = before[r]
    BY <1>1, <1>3, <1>5 DEF Skip, PubTypeOK
  <2>2. Staged(r)'
    BY <1>1, <1>3, <2>1 DEF Staged, host, records
  <2>3. Settled(r)'
    <3>1. Owed(r)' \subseteq Owed(r) /\ q \notin Owed(r)'
      BY <1>1, <1>3, <1>5, <2>1 DEF Owed, Staged
    <3>. QED  BY <1>1, <1>2, <1>3, <2>1, <3>1 DEF Settled, Adopting, Adopted, records, Staged
  <2>4. Spoken(r)'
    BY <2>1 DEF Spoken
  <2> HIDE DEF l, q
  <2>5. /\ "adopting" \in (Working \cup {"done"}) \ Unread /\ blind \subseteq blind' /\ blind' \subseteq Reviews
        /\ lost \subseteq lost' /\ lost' \subseteq Reviews /\ at[r] \in Working /\ UNCHANGED troubles
        /\ l \in Locals /\ l.now = local[r].now /\ at[r] \notin Unread
    BY <1>1, <1>2, <1>3, <1>5 DEF PubTypeOK
  <2>6. at' = [at EXCEPT ![r] = "adopting"] /\ local' = [local EXCEPT ![r] = l]
        /\ UNCHANGED <<row, clock, found, host, records, before, hidden>>
    BY <1>1, <2>1
  <2>. QED  BY <2>2, <2>3, <2>4, <2>5, <2>6, Moves
<1>6. (FindReview(r) /\ q \in posted) \/ (FindReview(r) /\ q \notin posted) \/ FindFails(r)
  OBVIOUS
<1>7. CASE FindReview(r) /\ q \in posted
  BY <1>4, <1>7 DEF FindReview, history
<1>8. CASE FindReview(r) /\ q \notin posted
  BY <1>3, <1>5, <1>8 DEF FindReview, history, PubTypeOK
<1>9. CASE FindFails(r)
  <2>1. lost' = lost \cup {q} /\ Skip(r) /\ UNCHANGED at
    BY <1>9 DEF FindFails
  <2>. QED  BY <1>2, <1>3, <1>5, <2>1 DEF PubTypeOK
<1>. QED  BY <1>6, <1>7, <1>8, <1>9

LEMMA ReadThreadsInv ==
  ASSUME PubInv, NEW r \in Reviews, ReadThreads(r)
  PROVE  PubInv'
<1> DEFINE l == [local[r] EXCEPT !.threads = inlineRow]
<1>1. /\ at[r] = "adopting" /\ local[r].orphans = {} /\ local[r] \in Locals
      /\ UNCHANGED <<row, clock, found, host, records, troubles, before, lost, hidden, blind>>
  BY DEF ReadThreads, runs, history, PubInv, PubTypeOK, Locals
<1>2. PubTypeOK /\ Staged(r) /\ Settled(r) /\ {"adopting", "syncing"} \subseteq Working \ Unread
  BY DEF PubInv, Unread, Working
<1>3. l \in Locals /\ l.now = local[r].now /\ l.threads = inlineRow
  BY <1>1, <1>2 DEF Locals, PubTypeOK
<1>4. /\ at' = [at EXCEPT ![r] = "syncing"] /\ local' = [local EXCEPT ![r] = l]
      /\ at'[r] = "syncing" /\ local'[r] = l /\ Owed(r)' = Owed(r)
  BY <1>1, <1>2 DEF ReadThreads, Move, PubTypeOK, Owed
<1>5. Staged(r)'
  BY <1>1, <1>2, <1>4 DEF Staged, host, records
<1>6. Owed(r) \subseteq recorded
  BY <1>1, <1>2 DEF Settled, Adopting
<1>7. Settled(r)'
  BY <1>1, <1>4, <1>6 DEF Settled, Adopting, records
<1>8. Spoken(r)'
  <2>1. ASSUME NEW q \in Owed(r) PROVE {q} \X comments[q] \subseteq inlineRow
    <3>1. q \in recorded \ lost /\ q \in Reviews
      BY <1>2, <1>6 DEF Owed, PubTypeOK
    <3>. QED  BY <3>1 DEF PubInv, Complete_
  <2>. QED  BY <1>1, <1>3, <1>4, <2>1 DEF Spoken, host
<1> HIDE DEF l
<1>. QED  BY <1>1, <1>2, <1>3, <1>4, <1>5, <1>7, <1>8, Moves DEF PubTypeOK

\* What is not covered by the threads read repeats none that has its line and severity.
LEMMA DraftsRepeatNothing ==
  ASSUME PubTypeOK, NEW r \in Reviews, NEW T \in SUBSET Threads, NEW t \in T,
         t[2] \in Drafts(r, {ThreadOf(u) : u \in T}), t \notin outdated
  PROVE  found[t[1]][t[2]] < found[r][t[2]]
<1> DEFINE f == FindingAt(r, t[2])
           S == {ThreadOf(u) : u \in T}
<1>1. t[1] \in Reviews /\ t[2] \in Places /\ ThreadOf(t) \in S
  BY DEF Threads
<1>2. found[t[1]][t[2]] \in 0..Critical /\ found[r][t[2]] \in 0..Critical /\ Critical \in Nat
  BY <1>1, PublicationAssumption DEF PubTypeOK
<1>3. ThreadOf(t) \in SamePlace(f, S)
  BY <1>1, PublicationAssumption DEF ThreadOf, FindingAt, SamePlace
<1>4. ThreadOf(t) \notin OpenCover(f, S) /\ ThreadOf(t) \notin ClosedCover(f, S)
  BY DEF Drafts, Covered
<1>5. /\ ThreadOf(t).severity = found[t[1]][t[2]] /\ f.severity = found[r][t[2]]
      /\ ThreadOf(t).resolved = (t \in closed) /\ ThreadOf(t).byBot = FALSE
  BY DEF ThreadOf, FindingAt
<1> HIDE DEF f, S
<1>6. ASSUME t \in closed PROVE EscalatedToCritical(f, ThreadOf(t))
  BY <1>3, <1>4, <1>5, <1>6 DEF ClosedCover
<1>7. ASSUME t \notin closed PROVE ~ (ThreadOf(t).severity >= f.severity)
  BY <1>3, <1>4, <1>5, <1>7 DEF OpenCover
<1>8. CASE t \in closed
  BY <1>2, <1>5, <1>6, <1>8 DEF EscalatedToCritical
<1>9. CASE t \notin closed
  BY <1>2, <1>5, <1>7, <1>9
<1>. QED  BY <1>8, <1>9

LEMMA SyncInv ==
  ASSUME PubInv, NEW r \in Reviews, Sync(r) \/ SyncFails(r)
  PROVE  PubInv'
<1>1. /\ at[r] = "syncing" /\ local[r] \in Locals
      /\ UNCHANGED <<row, clock, found, host, records, before, lost, hidden>>
  BY DEF Sync, SyncFails, Drafted, runs, PubInv, PubTypeOK, Locals
<1>2. PubTypeOK /\ Staged(r) /\ Settled(r) /\ Spoken(r) /\ {"syncing", "checking"} \subseteq Working \ Unread
  BY DEF PubInv, Unread, Working
<1>3. PICK T : /\ Drafted(r, T)
               /\ \/ T = {ThreadOf(t) : t \in local[r].threads} /\ UNCHANGED <<blind, troubles>>
                  \/ Trouble("threads") /\ blind' = blind \cup {r}
  BY DEF Sync, SyncFails
<1> DEFINE l == [local[r] EXCEPT !.threads = {}, !.drafts = Drafts(r, T)]
<1>4. Drafts(r, T) \subseteq Places
  BY DEF Drafts
<1>5. l \in Locals /\ l.now = local[r].now /\ l.drafts = Drafts(r, T)
  BY <1>1, <1>4 DEF Locals
<1>6. /\ at' = [at EXCEPT ![r] = "checking"] /\ local' = [local EXCEPT ![r] = l]
      /\ at'[r] = "checking" /\ local'[r] = l /\ Owed(r)' = Owed(r)
  BY <1>1, <1>2, <1>3 DEF Drafted, Move, PubTypeOK, Owed
<1>7. Staged(r)'
  BY <1>1, <1>2, <1>6 DEF Staged, host, records
<1>8. Settled(r)'
  BY <1>1, <1>2, <1>6 DEF Settled, Adopting, Adopted, records
<1>9. Spoken(r)'
  <2>1. SUFFICES ASSUME r \notin blind',
                        NEW q \in Owed(r), NEW p \in Drafts(r, T) \cap comments[q], <<q, p>> \notin outdated
                 PROVE  found[q][p] < found[r][p]
    BY <1>1, <1>5, <1>6 DEF Spoken, host
  <2>2. r \notin blind /\ T = {ThreadOf(t) : t \in local[r].threads}
    BY <1>3, <2>1
  <2>3. <<q, p>> \in local[r].threads /\ local[r].threads \in SUBSET Threads
    BY <1>1, <1>2, <2>1, <2>2 DEF Spoken, Locals
  <2>. QED  BY <1>2, <2>1, <2>2, <2>3, DraftsRepeatNothing
<1>10. blind \subseteq blind' /\ blind' \subseteq Reviews
  BY <1>2, <1>3 DEF PubTypeOK
<1>11. UNCHANGED troubles \/ \E k \in TroubleKinds : Trouble(k)
  BY <1>3 DEF Trouble
<1> HIDE DEF l
<1>. QED  BY <1>1, <1>2, <1>5, <1>6, <1>7, <1>8, <1>9, <1>10, <1>11, Moves DEF PubTypeOK

LEMMA CheckInv ==
  ASSUME PubInv, NEW r \in Reviews, CheckNotCancelled(r)
  PROVE  PubInv'
<1>1. /\ at[r] = "checking" /\ local[r] \in Locals /\ UNCHANGED <<local, troubles>>
      /\ UNCHANGED <<row, clock, found, host, records, before, lost, hidden, blind>>
  BY DEF CheckNotCancelled, runs, history, PubInv, PubTypeOK, Locals
<1>2. /\ PubTypeOK /\ Staged(r) /\ Settled(r) /\ Spoken(r)
      /\ {"checking", "failing", "posting"} \subseteq Working \ Unread
  BY DEF PubInv, Unread, Working
<1>3. PICK a \in {"failing", "posting"} : at' = [at EXCEPT ![r] = a]
  BY DEF CheckNotCancelled, Move
<1>4. at'[r] = a /\ local' = [local EXCEPT ![r] = local[r]] /\ Owed(r)' = Owed(r)
  BY <1>1, <1>2, <1>3 DEF PubTypeOK, Owed
<1>5. Staged(r)'
  BY <1>1, <1>2, <1>4 DEF Staged, host, records
<1>6. Settled(r)'
  BY <1>1, <1>2, <1>4 DEF Settled, Adopting, Adopted, records
<1>7. Spoken(r)'
  BY <1>1, <1>2, <1>4 DEF Spoken, host
<1>. QED  BY <1>1, <1>2, <1>3, <1>4, <1>5, <1>6, <1>7, Moves DEF PubTypeOK

\* A step that records or hides: what it leaves stray and is owed, it hides from all.
LEMMA HidingGrows ==
  ASSUME PubInv, NEW r \in Reviews, at[r] \in Working \ Unread, Stray' \subseteq Stray, row' = row,
         \A x \in Reviews : at'[x] \in Unread => at[x] \in Unread, hidden \subseteq hidden',
         UNCHANGED records \/ \E q \in Reviews, D \in SUBSET Places : Store(q, D, local[r].now),
         \A q \in Stray' \cap Owed(r) : HiddenFromAll(q)',
         \A x \in Reviews, q \in Reviews : <<x, q>> \in hidden' \ hidden => HiddenFromAll(q)'
  PROVE  Hiding'
<1>1. \A q : HiddenFromAll(q) => HiddenFromAll(q)'
  BY DEF HiddenFromAll
<1>2. ASSUME NEW x \in Reviews, NEW q \in Reviews, <<x, q>> \in hidden' PROVE HiddenFromAll(q)'
  BY <1>1, <1>2 DEF PubInv, Hiding
<1>3. ASSUME NEW q \in Stray', NEW p \in recorded', publishedAt'[p] >= row[q].failedAt
      PROVE  HiddenFromAll(q)'
  <2>1. q \in Stray /\ q \in Reviews /\ PubTypeOK
    BY DEF PubInv, PubTypeOK, Stray
  <2>2. CASE p \in recorded /\ publishedAt'[p] = publishedAt[p]
    BY <1>1, <1>3, <2>1, <2>2 DEF PubInv, Hiding
  <2>3. CASE publishedAt'[p] = local[r].now
    <3>1. row[q].failedAt <= local[r].now
      BY <1>3, <2>1, <2>3 DEF PubTypeOK
    <3>2. q \in before[r] /\ q \notin lost
      BY <2>1, <3>1 DEF PubInv, Seen, Stray
    <3>3. q \in Owed(r) \/ <<r, q>> \in hidden
      BY <3>2 DEF Owed
    <3>. QED  BY <1>2, <2>1, <3>3
  <2>. QED  BY <1>3, <2>1, <2>2, <2>3 DEF records, Store, PubTypeOK
<1>. QED  BY <1>2, <1>3 DEF Hiding

LEMMA AdoptInv ==
  ASSUME PubInv, NEW r \in Reviews, Adopt(r)
  PROVE  PubInv'
<1> DEFINE q == NextOrphan(r)
           l == [local[r] EXCEPT !.orphans = @ \ {q}]
<1>1. /\ at[r] = "found" /\ local[r] \in Locals /\ local' = [local EXCEPT ![r] = l]
      /\ at' = [at EXCEPT ![r] = "adopting"]
      /\ hidden' = hidden \cup ((Reviews \ {r}) \X (local[r].orphans \ {q}))
      /\ UNCHANGED <<row, clock, found, host, troubles, before, lost, blind>>
  BY DEF Adopt, Skip, Move, runs, PubInv, PubTypeOK, Locals
<1>2. /\ PubTypeOK /\ Staged(r) /\ Settled(r) /\ Seen(r)
      /\ {"adopting", "found"} \subseteq Working \ Unread
  BY DEF PubInv, Unread, Working
<1>3. /\ q \in local[r].orphans /\ q \in posted /\ q \in Reviews /\ local[r].orphans \subseteq Reviews
      /\ l \in Locals /\ l.now = local[r].now /\ l.orphans = local[r].orphans \ {q}
  BY <1>1, <1>2, NextIsOrphan DEF Locals, NextOrphan, Staged
<1>4. (q \in recorded /\ UNCHANGED records) \/ (q \notin recorded /\ Store(q, comments[q], local[r].now))
  BY DEF Adopt
<1>5. /\ recorded' = recorded \cup {q} /\ inlineRow \subseteq inlineRow'
      /\ q \notin recorded => {q} \X comments[q] \subseteq inlineRow'
  BY <1>4 DEF records, Store
<1>6. /\ at'[r] = "adopting" /\ local'[r] = l
      /\ \A x \in Reviews \ {r} : at'[x] = at[x] /\ local'[x] = local[x]
  BY <1>1, <1>2 DEF PubTypeOK
<1>7. PubTypeOK'
  <2>1. at' \in [Reviews -> Working \cup {"idle", "done"}]
    BY <1>1, <1>2 DEF PubTypeOK
  <2>2. local' \in [Reviews -> Locals] /\ row' \in [Reviews -> Rows]
    <3>1. local \in [Reviews -> Locals] /\ row \in [Reviews -> Rows]
      BY <1>2 DEF PubTypeOK, Locals, Rows
    <3>. QED  BY <1>1, <1>3, <3>1
  <2>3. hidden' \subseteq Reviews \X Reviews /\ UNCHANGED <<closed, outdated>>
    BY <1>1, <1>2, <1>3 DEF PubTypeOK, host
  <2>4. posted' \subseteq Reviews /\ comments' \in [Reviews -> SUBSET Places]
    BY <1>1, <1>2 DEF PubTypeOK, host
  <2>5. UNCHANGED records \/ \E p \in Reviews, D \in SUBSET Places, n \in 0..clock : Store(p, D, n)
    <3>1. comments[q] \in SUBSET Places /\ local[r].now \in 0..clock
      BY <1>2, <1>3 DEF PubTypeOK
    <3>. QED  BY <1>3, <1>4, <3>1
  <2>6. /\ before' \in [Reviews -> SUBSET Reviews] /\ lost' \subseteq Reviews /\ blind' \subseteq Reviews
    BY <1>1, <1>2 DEF PubTypeOK
  <2> HIDE DEF l, q
  <2>. QED  BY <1>1, <1>2, <2>1, <2>2, <2>3, <2>4, <2>5, <2>6, QuietTypes
<1> HIDE DEF l, q
<1>8. Stray' \subseteq Stray \ {q}
  BY <1>1, <1>5 DEF Stray, host
<1>9. Grows /\ StrayLate /\ Spares(r) /\ RecordsAreWhole
  <2>1. Grows
    BY <1>1, <1>5 DEF Grows, host
  <2>2. StrayLate
    BY <1>1, <1>8 DEF StrayLate
  <2>3. Spares(r)
    BY <1>1, <1>6 DEF Spares, host
  <2>4. RecordsAreWhole
    BY <1>1, <1>3, <1>5 DEF RecordsAreWhole, host
  <2>. QED  BY <2>1, <2>2, <2>3, <2>4
<1>10. Staged(r)'
  BY <1>1, <1>2, <1>3, <1>5, <1>6 DEF Staged, host
<1>11. Owed(r)' \subseteq Owed(r)
  BY <1>1, <1>9, OwedLess
<1>12. Settled(r)'
  BY <1>1, <1>2, <1>3, <1>5, <1>6, <1>11 DEF Settled, Adopting, Adopted, Staged
<1>13. Seen(r)' /\ Spoken(r)'
  BY <1>1, <1>2, <1>3, <1>6, <1>8 DEF Seen, Spoken
<1>14. Hiding'
  <2>1. \A x \in Reviews : at'[x] \in Unread => at[x] \in Unread /\ x # r
    BY <1>2, <1>6
  <2>2. \A p \in local[r].orphans \ {q} : HiddenFromAll(p)'
    BY <1>1, <2>1 DEF HiddenFromAll
  <2>3. Owed(r) \subseteq recorded \cup local[r].orphans
    BY <1>1, <1>2 DEF Settled, Adopting
  <2>4. \A p \in Stray' \cap Owed(r) : HiddenFromAll(p)'
    BY <1>8, <2>2, <2>3 DEF Stray
  <2>5. UNCHANGED records \/ \E p \in Reviews, D \in SUBSET Places : Store(p, D, local[r].now)
    BY <1>2, <1>3, <1>4 DEF PubTypeOK
  <2>6. \A x \in Reviews, p \in Reviews : <<x, p>> \in hidden' \ hidden => HiddenFromAll(p)'
    BY <1>1, <2>2
  <2>. QED  BY <1>1, <1>2, <1>8, <2>1, <2>4, <2>5, <2>6, HidingGrows
<1>. QED  BY <1>7, <1>9, <1>10, <1>12, <1>13, <1>14, PubFrame

\* The review appears, late or in time; without the ids it counts as lost.
LEMMA Appears ==
  ASSUME PubInv, NEW r \in Reviews, NEW a \in {"posted", "failing"}, NEW l \in Locals,
         at[r] = "posting", Appear(r), at' = [at EXCEPT ![r] = a], local' = [local EXCEPT ![r] = l],
         l.now = local[r].now, l.drafts = local[r].drafts, l.ids \/ a = "failing" \/ r \in lost',
         lost \cup Late(r) \subseteq lost', lost' \subseteq Reviews,
         UNCHANGED troubles \/ \E k \in TroubleKinds : Trouble(k)
  PROVE  PubInv'
<1>1. /\ PubTypeOK /\ Staged(r) /\ Settled(r) /\ Seen(r) /\ a \in Working \ Unread
      /\ {"posting"} \subseteq Working \ Unread
  BY DEF PubInv, Unread, Working
<1>2. /\ posted' = posted \cup {r} /\ comments' = [comments EXCEPT ![r] = local[r].drafts]
      /\ r \notin posted /\ r \notin recorded
      /\ UNCHANGED <<row, clock, found, closed, outdated, recorded, inlineRow, publishedAt,
                     before, hidden, blind>>
  BY <1>1 DEF Appear, Staged, runs, records
<1>3. /\ at'[r] = a /\ local'[r] = l /\ comments'[r] = local[r].drafts
      /\ \A x \in Reviews \ {r} : at'[x] = at[x] /\ local'[x] = local[x] /\ comments'[x] = comments[x]
  BY <1>1, <1>2 DEF PubTypeOK
<1>4. PubTypeOK'
  <2>1. at' \in [Reviews -> Working \cup {"idle", "done"}]
    BY <1>1 DEF PubTypeOK
  <2>2. local' \in [Reviews -> Locals] /\ row' \in [Reviews -> Rows]
    <3>1. local \in [Reviews -> Locals] /\ row \in [Reviews -> Rows]
      BY <1>1 DEF PubTypeOK, Locals, Rows
    <3>. QED  BY <1>2, <3>1
  <2>3. posted' \subseteq Reviews /\ comments' \in [Reviews -> SUBSET Places]
    <3>1. local[r].drafts \subseteq Places
      BY <1>1 DEF PubTypeOK
    <3>. QED  BY <1>1, <1>2, <3>1 DEF PubTypeOK
  <2>4. /\ before' \in [Reviews -> SUBSET Reviews] /\ hidden' \subseteq Reviews \X Reviews
        /\ blind' \subseteq Reviews /\ UNCHANGED records
    BY <1>1, <1>2 DEF PubTypeOK, records
  <2>. QED  BY <1>1, <1>2, <2>1, <2>2, <2>3, <2>4, QuietTypes
<1>5. Stray' \subseteq Stray
  <2>1. row[r].status = "failed" => r \in lost'
    BY DEF Late
  <2>. QED  BY <1>2, <2>1 DEF Stray
<1>6. Grows /\ RecordsAreWhole
  BY <1>1, <1>2 DEF Grows, RecordsAreWhole, PubTypeOK
<1>7. StrayLate
  BY <1>2, <1>5 DEF StrayLate
<1>8. Spares(r)
  BY <1>2, <1>3 DEF Spares
<1>9. Staged(r)'
  BY <1>1, <1>2, <1>3 DEF Staged
<1>10. Settled(r)'
  <2>1. Owed(r)' \subseteq Owed(r)
    BY <1>2, <1>6, OwedLess
  <2>. QED  BY <1>1, <1>2, <1>3, <2>1 DEF Settled, Adopting, Adopted, Staged
<1>11. Seen(r)' /\ Spoken(r)'
  BY <1>1, <1>2, <1>3, <1>5 DEF Seen, Spoken
<1>12. Hiding'
  <2>1. \A x \in Reviews : at'[x] \in Unread => at[x] \in Unread
    BY <1>1, <1>3
  <2>. QED  BY <1>2, <1>4, <1>7, <2>1, HidingKept
<1>. QED  BY <1>4, <1>6, <1>7, <1>8, <1>9, <1>10, <1>11, <1>12, PubFrame

LEMMA PostInv ==
  ASSUME PubInv, NEW r \in Reviews, Post(r) \/ PostWithoutIds(r) \/ PostUnanswered(r)
  PROVE  PubInv'
<1>1. /\ at[r] = "posting" /\ PubTypeOK /\ local \in [Reviews -> Locals] /\ local[r] \in Locals
      /\ Late(r) \subseteq Reviews /\ Staged(r) /\ Settled(r)
      /\ {"posting", "failing"} \subseteq Working \ Unread
  BY DEF Post, PostWithoutIds, PostUnanswered, PubInv, PubTypeOK, Locals, Late, Unread, Working
<1>2. UNCHANGED local => local' = [local EXCEPT ![r] = local[r]]
  BY <1>1
<1>3. CASE Post(r)
  <2> DEFINE l == [local[r] EXCEPT !.ids = TRUE]
  <2>1. l \in Locals /\ l.ids /\ l.now = local[r].now /\ l.drafts = local[r].drafts
    BY <1>1 DEF Locals
  <2>2. local' = [local EXCEPT ![r] = l] /\ at' = [at EXCEPT ![r] = "posted"] /\ Appear(r)
        /\ lost' = lost \cup Late(r) /\ UNCHANGED troubles
    BY <1>3 DEF Post, Move
  <2> HIDE DEF l
  <2>. QED  BY <1>1, <2>1, <2>2, Appears DEF PubTypeOK
<1>4. CASE PostWithoutIds(r)
  <2>1. /\ UNCHANGED local /\ at' = [at EXCEPT ![r] = "posted"] /\ Appear(r)
        /\ lost' = lost \cup {r} /\ Trouble("ids") /\ "ids" \in TroubleKinds
    BY <1>4 DEF PostWithoutIds, Move, Trouble
  <2>2. lost \cup Late(r) \subseteq lost' /\ lost' \subseteq Reviews
    BY <1>1, <2>1 DEF PubTypeOK, Late
  <2>. QED  BY <1>1, <1>2, <2>1, <2>2, Appears
<1>5. CASE PostUnanswered(r)
  <2>1. UNCHANGED local /\ at' = [at EXCEPT ![r] = "failing"] /\ Trouble("answer") /\ "answer" \in TroubleKinds
    BY <1>5 DEF PostUnanswered, Move, Trouble
  <2>2. CASE Appear(r) /\ lost' = lost \cup Late(r)
    BY <1>1, <1>2, <2>1, <2>2, Appears DEF PubTypeOK
  <2>3. CASE UNCHANGED <<runs, host, records, history>>
    <3>1. at'[r] = "failing" /\ local'[r] = local[r] /\ Owed(r)' = Owed(r)
          /\ UNCHANGED <<row, clock, found, host, records, before, hidden, lost, blind>>
      BY <1>1, <2>1, <2>3 DEF PubTypeOK, Owed, runs, history
    <3>2. Staged(r)'
      BY <1>1, <2>1, <3>1 DEF Staged, host, records
    <3>3. Settled(r)' /\ Spoken(r)'
      BY <1>1, <3>1 DEF Settled, Adopting, Adopted, Staged, Spoken, records
    <3>4. \E k \in TroubleKinds : Trouble(k)
      BY <2>1
    <3>5. lost \subseteq lost' /\ lost' \subseteq Reviews /\ blind \subseteq blind' /\ blind' \subseteq Reviews
      BY <1>1, <3>1 DEF PubTypeOK
    <3>6. "failing" \in (Working \cup {"done"}) \ Unread /\ at[r] \in Working /\ at[r] \notin Unread
      BY <1>1
    <3>7. local' = [local EXCEPT ![r] = local[r]]
      BY <1>2, <2>1
    <3>. QED  BY <1>1, <2>1, <3>1, <3>2, <3>3, <3>4, <3>5, <3>6, <3>7, Moves
  <2>. QED  BY <1>5, <2>2, <2>3 DEF PostUnanswered
<1>. QED  BY <1>3, <1>4, <1>5

LEMMA RecordInv ==
  ASSUME PubInv, NEW r \in Reviews, Record(r)
  PROVE  PubInv'
<1>1. /\ at[r] = "posted" /\ PubTypeOK /\ local \in [Reviews -> Locals] /\ local[r] \in Locals
      /\ Staged(r) /\ Settled(r) /\ Seen(r) /\ {"posted", "failing", "recorded"} \subseteq Working \ Unread
      /\ UNCHANGED <<row, clock, found, local, host, troubles, before, lost, hidden, blind>>
  BY DEF Record, PubInv, PubTypeOK, Locals, Unread, Working, runs, history
<1>2. Owed(r)' = Owed(r) /\ local' = [local EXCEPT ![r] = local[r]]
  BY <1>1 DEF Owed
<1>3. CASE r \in recorded
  <2>1. at' = [at EXCEPT ![r] = "failing"] /\ at'[r] = "failing" /\ UNCHANGED records
    BY <1>1, <1>3 DEF Record, Move, PubTypeOK
  <2>2. Staged(r)'
    BY <1>1, <2>1 DEF Staged, host, records
  <2>3. Settled(r)' /\ Spoken(r)'
    BY <1>1, <1>2, <2>1 DEF Settled, Adopting, Adopted, Staged, Spoken, records
  <2>4. lost \subseteq lost' /\ lost' \subseteq Reviews /\ blind \subseteq blind' /\ blind' \subseteq Reviews
    BY <1>1 DEF PubTypeOK
  <2>. QED  BY <1>1, <1>2, <2>1, <2>2, <2>3, <2>4, Moves
<1>4. CASE r \notin recorded
  <2> DEFINE D == IF local[r].ids THEN local[r].drafts ELSE {}
  <2>1. /\ at' = [at EXCEPT ![r] = "recorded"] /\ at'[r] = "recorded" /\ Store(r, D, local[r].now)
        /\ D \in SUBSET Places /\ local[r].now \in 0..clock
    BY <1>1, <1>4 DEF Record, Move, PubTypeOK
  <2>2. r \in posted /\ (r \notin lost => D = comments[r])
    BY <1>1 DEF Staged
  <2> HIDE DEF D
  <2>3. /\ recorded' = recorded \cup {r} /\ inlineRow \subseteq inlineRow'
        /\ {r} \X D \subseteq inlineRow'
    BY <2>1 DEF Store
  <2>4. PubTypeOK'
    <3>1. at' \in [Reviews -> Working \cup {"idle", "done"}]
      BY <1>1, <2>1 DEF PubTypeOK
    <3>2. local' \in [Reviews -> Locals] /\ row' \in [Reviews -> Rows]
      BY <1>1 DEF PubTypeOK, Rows
    <3>3. /\ posted' \subseteq Reviews /\ comments' \in [Reviews -> SUBSET Places]
          /\ UNCHANGED <<closed, outdated>>
      BY <1>1 DEF PubTypeOK, host
    <3>4. /\ before' \in [Reviews -> SUBSET Reviews] /\ lost' \subseteq Reviews
          /\ hidden' \subseteq Reviews \X Reviews /\ blind' \subseteq Reviews
      BY <1>1 DEF PubTypeOK
    <3>. QED  BY <1>1, <2>1, <3>1, <3>2, <3>3, <3>4, QuietTypes
  <2>5. Stray' \subseteq Stray
    BY <1>1, <2>3 DEF Stray, host
  <2>6. Grows /\ StrayLate /\ Spares(r) /\ RecordsAreWhole
    <3>1. Grows
      BY <1>1, <2>3 DEF Grows, host
    <3>2. StrayLate
      BY <1>1, <2>5 DEF StrayLate
    <3>3. Spares(r)
      BY <1>1, <2>1 DEF Spares, host
    <3>4. RecordsAreWhole
      BY <1>1, <2>2, <2>3 DEF RecordsAreWhole, host
    <3>. QED  BY <3>1, <3>2, <3>3, <3>4
  <2>7. Staged(r)'
    BY <1>1, <2>1, <2>2, <2>3 DEF Staged, host
  <2>8. Settled(r)'
    BY <1>1, <1>2, <2>1, <2>3 DEF Settled, Adopting, Adopted
  <2>9. Seen(r)' /\ Spoken(r)'
    BY <1>1, <2>1, <2>5 DEF Seen, Spoken
  <2>10. Hiding'
    <3>1. \A x \in Reviews : at'[x] \in Unread => at[x] \in Unread
      BY <1>1, <2>1 DEF PubTypeOK
    <3>2. Stray' \cap Owed(r) = {}
      BY <1>1, <2>5 DEF Settled, Adopted, Stray
    <3>. QED  BY <1>1, <2>1, <2>5, <3>1, <3>2, HidingGrows
  <2>. QED  BY <2>4, <2>6, <2>7, <2>8, <2>9, <2>10, PubFrame
<1>. QED  BY <1>3, <1>4

LEMMA FreshIsLocal == ASSUME PubTypeOK PROVE Fresh \in Locals
BY DEF Fresh, Locals, PubTypeOK

\* The worker goes, be it dead, finished or failed, with the run over already.
LEMMA LeavesInv ==
  ASSUME PubInv, NEW r \in Reviews, at[r] \in Working, Finish(r),
         UNCHANGED <<runs, host, records, history>>,
         UNCHANGED troubles \/ \E k \in TroubleKinds : Trouble(k)
  PROVE  PubInv'
<1>1. /\ PubTypeOK /\ Staged(r) /\ Settled(r) /\ Fresh \in Locals /\ "done" \notin Working \cup Unread
      /\ UNCHANGED <<row, clock, found, host, records, before, lost, hidden, blind>>
  BY FreshIsLocal DEF PubInv, Working, Unread, runs, history
<1>2. /\ at' = [at EXCEPT ![r] = "done"] /\ local' = [local EXCEPT ![r] = Fresh]
      /\ at'[r] = "done" /\ Owed(r)' = Owed(r)
  BY <1>1 DEF Finish, Move, PubTypeOK, Owed
<1>3. Staged(r)'
  BY <1>1, <1>2 DEF Staged, host, records, Working
<1>4. Settled(r)' /\ Spoken(r)'
  BY <1>1, <1>2 DEF Settled, Adopting, Adopted, Staged, Spoken, records
<1>5. lost \subseteq lost' /\ lost' \subseteq Reviews /\ blind \subseteq blind' /\ blind' \subseteq Reviews
  BY <1>1 DEF PubTypeOK
<1>. QED  BY <1>1, <1>2, <1>3, <1>4, <1>5, Moves

\* The row of a publishing run changes, and its worker goes or does not know.
LEMMA RowMoves ==
  ASSUME PubInv, NEW r \in Reviews, NEW a, NEW l, NEW w,
         row[r].status = "publishing", w \in Rows', w.status \in {"completed", "failed", "cancelled"},
         w.status = "failed" => w.failedAt = clock + 1,
         \/ a = at[r] /\ l = local[r] /\ w.status # "completed"
         \/ a = "done" /\ l = Fresh /\ (w.status = "completed" => at[r] = "recorded"),
         at' = [at EXCEPT ![r] = a], local' = [local EXCEPT ![r] = l], row' = [row EXCEPT ![r] = w],
         clock' \in Nat, clock <= clock', UNCHANGED <<found, host, records, history>>,
         UNCHANGED troubles \/ \E k \in TroubleKinds : Trouble(k)
  PROVE  PubInv'
<1>1. /\ PubTypeOK /\ Staged(r) /\ Settled(r) /\ Seen(r) /\ Spoken(r) /\ "done" \notin Working \cup Unread
      /\ UNCHANGED <<posted, comments, closed, outdated, recorded, inlineRow, publishedAt,
                     before, lost, hidden, blind>>
  BY DEF PubInv, Working, Unread, host, records, history
<1>2. /\ at'[r] = a /\ local'[r] = l /\ row'[r] = w /\ Owed(r)' = Owed(r)
      /\ \A x \in Reviews \ {r} : at'[x] = at[x] /\ local'[x] = local[x] /\ row'[x] = row[x]
  BY <1>1 DEF PubTypeOK, Owed
<1>3. PubTypeOK'
  <2>1. at' \in [Reviews -> Working \cup {"idle", "done"}]
    BY <1>1 DEF PubTypeOK
  <2>2. row' \in [Reviews -> Rows']
    BY <1>1, LaterTypes
  <2>3. local' \in [Reviews -> Locals']
    <3>1. local \in [Reviews -> Locals'] /\ Fresh \in Locals'
      BY <1>1, LaterTypes DEF Fresh, Locals
    <3>. QED  BY <3>1
  <2>4. publishedAt' \in [Reviews -> 0..clock']
    BY <1>1, LaterTypes
  <2>5. troubles' \in 0..Troubles
    BY <1>1, PublicationAssumption DEF PubTypeOK, Trouble
  <2>. QED  BY <1>1, <2>1, <2>2, <2>3, <2>4, <2>5 DEF PubTypeOK, Rows, Locals
<1>4. Grows /\ RecordsAreWhole
  BY <1>1 DEF Grows, RecordsAreWhole
<1>5. StrayLate
  <2>1. ASSUME NEW q \in Stray', q # r PROVE q \in Stray /\ row'[q].failedAt = row[q].failedAt
    BY <1>1, <1>2, <2>1 DEF Stray, PubTypeOK
  <2>2. ASSUME r \in Stray' PROVE row'[r].failedAt > clock
    BY <1>1, <1>2, <2>2 DEF Stray, PubTypeOK
  <2>. QED  BY <2>1, <2>2 DEF StrayLate
<1>6. Spares(r)
  BY <1>1, <1>2 DEF Spares
<1>7. Staged(r)'
  BY <1>1, <1>2 DEF Staged, NextOrphan
<1>8. Settled(r)'
  BY <1>1, <1>2 DEF Settled, Adopting, Adopted
<1>9. Seen(r)'
  <2>1. ASSUME at'[r] \in Working \ Unread, NEW q \in Stray', row'[q].failedAt <= local'[r].now
        PROVE  q \in before[r]
    <3>1. a = at[r] /\ l = local[r] /\ local[r].now \in 0..clock /\ clock \in Nat
      BY <1>1, <1>2, <2>1 DEF PubTypeOK
    <3>2. row'[q].failedAt \in Nat
      BY <1>3 DEF PubTypeOK, Stray
    <3>3. q \in Stray /\ row[q].failedAt <= local[r].now
      BY <1>2, <1>5, <2>1, <3>1, <3>2 DEF StrayLate
    <3>. QED  BY <1>1, <1>2, <2>1, <3>1, <3>3 DEF Seen
  <2>. QED  BY <1>1, <2>1 DEF Seen
<1>10. Spoken(r)'
  BY <1>1, <1>2 DEF Spoken
<1>11. Hiding'
  <2>1. \A x \in Reviews : at'[x] \in Unread => at[x] \in Unread
    BY <1>1, <1>2
  <2>. QED  BY <1>1, <1>3, <1>5, <2>1, HidingKept
<1>. QED  BY <1>3, <1>4, <1>5, <1>6, <1>7, <1>8, <1>9, <1>10, <1>11, PubFrame

LEMMA EndInv ==
  ASSUME PubInv, NEW r \in Reviews, Complete(r) \/ Fail(r) \/ Crash(r)
  PROVE  PubInv'
<1>1. /\ at[r] \in Working /\ PubTypeOK /\ row \in [Reviews -> Rows] /\ Finish(r)
      /\ local[r] \in Locals /\ row[r] \in Rows /\ clock \in Nat
  BY DEF Complete, Fail, Crash, Working, PubInv, PubTypeOK, Rows, Locals
<1>2. at' = [at EXCEPT ![r] = "done"] /\ local' = [local EXCEPT ![r] = Fresh]
  BY <1>1 DEF Finish, Move
<1>3. CASE Crash(r)
  BY <1>1, <1>3, LeavesInv DEF Crash, Trouble
<1>4. CASE Complete(r) \/ Fail(r)
  <2>1. UNCHANGED <<found, host, records, troubles, history>>
    BY <1>4 DEF Complete, Fail
  <2>2. CASE row[r].status # "publishing"
    <3>1. UNCHANGED runs
      BY <1>4, <2>2 DEF Complete, Fail, runs
    <3>. QED  BY <1>1, <2>1, <3>1, LeavesInv
  <2>3. CASE row[r].status = "publishing" /\ Complete(r)
    <3> DEFINE w == [row[r] EXCEPT !.status = "completed"]
    <3>1. /\ row' = [row EXCEPT ![r] = w] /\ UNCHANGED clock /\ at[r] = "recorded"
          /\ w.status = "completed" /\ w \in Rows'
      BY <1>1, <2>3 DEF Complete, Rows
    <3>2. clock' \in Nat /\ clock <= clock'
      BY <1>1, <3>1
    <3> HIDE DEF w
    <3>. QED  BY <1>1, <1>2, <2>1, <2>3, <3>1, <3>2, RowMoves
  <2>4. CASE row[r].status = "publishing" /\ Fail(r)
    <3> DEFINE w == [status |-> "failed", failedAt |-> clock + 1]
    <3>1. row' = [row EXCEPT ![r] = w] /\ clock' = clock + 1
      BY <2>4 DEF Fail, Failing
    <3>2. w.status = "failed" /\ w.failedAt = clock + 1 /\ w \in Rows' /\ clock' \in Nat /\ clock <= clock'
      BY <1>1, <3>1 DEF Rows
    <3> HIDE DEF w
    <3>. QED  BY <1>1, <1>2, <2>1, <2>4, <3>1, <3>2, RowMoves
  <2>. QED  BY <1>4, <2>2, <2>3, <2>4
<1>. QED  BY <1>3, <1>4

LEMMA EndedInv ==
  ASSUME PubInv, NEW r \in Reviews, Sweep(r) \/ Cancel(r)
  PROVE  PubInv'
<1>1. /\ PubTypeOK /\ row \in [Reviews -> Rows] /\ row[r].status = "publishing"
      /\ row[r] \in Rows /\ clock \in Nat
      /\ UNCHANGED <<at, local, found, host, records, history>>
  BY DEF Sweep, Cancel, PubInv, PubTypeOK, Rows
<1>2. at' = [at EXCEPT ![r] = at[r]] /\ local' = [local EXCEPT ![r] = local[r]]
  BY <1>1 DEF PubTypeOK
<1>3. UNCHANGED troubles \/ \E k \in TroubleKinds : Trouble(k)
  BY DEF Sweep, Cancel, Trouble
<1>4. CASE Sweep(r)
  <2> DEFINE w == [status |-> "failed", failedAt |-> clock + 1]
  <2>1. row' = [row EXCEPT ![r] = w] /\ clock' = clock + 1
    BY <1>4 DEF Sweep, Failing
  <2>2. w.status = "failed" /\ w.failedAt = clock + 1 /\ w \in Rows' /\ clock' \in Nat /\ clock <= clock'
    BY <1>1, <2>1 DEF Rows
  <2> HIDE DEF w
  <2>. QED  BY <1>1, <1>2, <1>3, <2>1, <2>2, RowMoves
<1>5. CASE Cancel(r)
  <2> DEFINE w == [row[r] EXCEPT !.status = "cancelled"]
  <2>1. row' = [row EXCEPT ![r] = w] /\ UNCHANGED clock /\ w.status = "cancelled" /\ w \in Rows'
    BY <1>1, <1>5 DEF Cancel, Rows
  <2>2. clock' \in Nat /\ clock <= clock'
    BY <1>1, <2>1
  <2> HIDE DEF w
  <2>. QED  BY <1>1, <1>2, <1>3, <2>1, <2>2, RowMoves
<1>. QED  BY <1>4, <1>5

\* The threads of the pull request change in the hands of humans.
LEMMA ThreadInv ==
  ASSUME PubInv, NEW t \in Threads, CloseThread(t) \/ Outdate(t)
  PROVE  PubInv'
<1>1. /\ PubTypeOK /\ t[1] \in Reviews /\ outdated \subseteq outdated' /\ outdated' \subseteq Threads
      /\ closed' \subseteq Threads
      /\ UNCHANGED <<row, clock, found, at, local, posted, comments, recorded, inlineRow, publishedAt,
                     before, lost, hidden, blind>>
  BY DEF CloseThread, Outdate, PubInv, PubTypeOK, runs, records, history, Threads
<1>2. PubTypeOK'
  <2>1. troubles' \in 0..Troubles
    BY <1>1, PublicationAssumption DEF PubTypeOK, CloseThread, Outdate, Trouble
  <2>. QED  BY <1>1, <2>1 DEF PubTypeOK
<1>3. Stray' = Stray /\ \A r \in Reviews : Owed(r)' = Owed(r)
  BY <1>1 DEF Stray, Owed
<1>4. Hiding'
  BY <1>1, <1>3 DEF PubInv, Hiding, HiddenFromAll
<1>5. ASSUME NEW r \in Reviews
      PROVE  Staged(r)' /\ Complete_(r)' /\ Settled(r)' /\ Seen(r)' /\ Spoken(r)'
  <2>1. Staged(r)' /\ Complete_(r)'
    BY <1>1 DEF PubInv, Staged, Complete_, NextOrphan
  <2>2. Settled(r)' /\ Seen(r)'
    BY <1>1, <1>3 DEF PubInv, Settled, Seen, Adopted, Adopting
  <2>3. Spoken(r)'
    BY <1>1, <1>3 DEF PubInv, Spoken
  <2>. QED  BY <2>1, <2>2, <2>3
<1>. QED  BY <1>2, <1>4, <1>5 DEF PubInv

LEMMA PubInvInit == PubInit => PubInv
<1> SUFFICES ASSUME PubInit PROVE PubInv
  OBVIOUS
<1>1. PubTypeOK
  BY PublicationAssumption DEF PubInit, PubTypeOK, Fresh, Threads
<1>2. \A r \in Reviews : at[r] = "idle" /\ row[r].status = "waiting" /\ before[r] = {}
  BY DEF PubInit
<1>3. posted = {} /\ recorded = {} /\ hidden = {}
  BY DEF PubInit
<1>. QED  BY <1>1, <1>2, <1>3 DEF PubInv, Staged, Complete_, Settled, Seen, Spoken, Hiding, Stray,
          Adopting, Adopted, Owed, Unread

LEMMA PubInvNext == PubInv /\ [PubNext]_pubVars => PubInv'
<1> SUFFICES ASSUME PubInv, [PubNext]_pubVars PROVE PubInv'
  OBVIOUS
<1>1. ASSUME NEW r \in Reviews, Publisher(r) PROVE PubInv'
  BY <1>1, BeginInv, ReadOrphansInv, FindReviewInv, AdoptInv, ReadThreadsInv, SyncInv, CheckInv,
     PostInv, RecordInv, EndInv, EndedInv DEF Publisher
<1>2. ASSUME NEW t \in Threads, CloseThread(t) \/ Outdate(t) PROVE PubInv'
  BY <1>2, ThreadInv
<1>3. CASE UNCHANGED pubVars
  <2>1. PubTypeOK' /\ Stray' = Stray /\ Hiding'
    BY <1>3 DEF pubVars, PubInv, PubTypeOK, Stray, Hiding, HiddenFromAll
  <2>2. ASSUME NEW r \in Reviews
        PROVE  Staged(r)' /\ Complete_(r)' /\ Settled(r)' /\ Seen(r)' /\ Spoken(r)'
    <3>1. Staged(r)' /\ Complete_(r)'
      BY <1>3 DEF pubVars, PubInv, Staged, Complete_, NextOrphan
    <3>2. Settled(r)' /\ Seen(r)' /\ Spoken(r)'
      BY <1>3, <2>1 DEF pubVars, PubInv, Settled, Seen, Spoken, Owed, Adopting, Adopted
    <3>. QED  BY <3>1, <3>2
  <2>. QED  BY <2>1, <2>2 DEF PubInv
<1>. QED  BY <1>1, <1>2, <1>3 DEF PubNext

\* ---- theorems --------------------------------------------------------------

\* Every variable of a publication keeps its type, the history included.
THEOREM PublicationTypes == PubSpec => []PubTypeOK
<1>1. PubInv => PubTypeOK
  BY DEF PubInv
<1>. QED  BY <1>1, PubInvInit, PubInvNext, PTL DEF PubSpec

\* When a run has completed, the review of every run that had failed or was recorded
\* when it looked is in published_comments with all its threads, so that the merge
\* gate counts them: whatever died, was swept, or adopted at the same time.
THEOREM CompletedRunKnowsAll == PubSpec => []CompletedKnowsAll
<1>1. PubInv => CompletedKnowsAll
  <2> SUFFICES ASSUME PubInv, NEW r \in Reviews, row[r].status = "completed", NEW q \in Owed(r)
               PROVE  q \in recorded /\ {q} \X comments[q] \subseteq inlineRow
    BY DEF CompletedKnowsAll
  <2>1. q \in recorded \ lost
    BY DEF PubInv, Settled, Adopted, Owed
  <2>2. q \in Reviews
    BY <2>1 DEF PubInv, PubTypeOK
  <2>. QED  BY <2>1, <2>2 DEF PubInv, Complete_
<1>. QED  BY <1>1, PubInvInit, PubInvNext, PTL DEF PubSpec

LEMMA OnlyPostsPost ==
  ASSUME PubInv, PubNext, NEW r \in posted' \ posted
  PROVE  at[r] = "posting" /\ Appear(r)
<1>1. ASSUME NEW x \in Reviews, Publisher(x) PROVE posted' = posted \/ (at[x] = "posting" /\ Appear(x))
  BY <1>1 DEF Publisher, Begin, ReadOrphans, FindReview, FindFails, Adopt, ReadThreads, Sync, SyncFails,
     Drafted, CheckNotCancelled, Post, PostWithoutIds, PostUnanswered, Record, Complete, Fail, Crash,
     Sweep, Cancel, host
<1>2. ASSUME NEW t \in Threads, CloseThread(t) \/ Outdate(t) PROVE posted' = posted
  BY <1>2 DEF CloseThread, Outdate
<1>. QED  BY <1>1, <1>2 DEF PubNext, Appear

\* A review that appears repeats no standing comment, at least as severe, of a run it
\* owes: adoption before the threads are read, and the threads before the drafts.
THEOREM NoOrphanIsRepeated == PubSpec => OrphanIsNotRepeated
<1>1. PubInv /\ [PubNext]_pubVars =>
        [\A r \in posted' \ posted : \A q \in Owed(r) : r \notin blind => ~Repeats(r, q)]_pubVars
  <2> SUFFICES ASSUME PubInv, PubNext, NEW r \in posted' \ posted, NEW q \in Owed(r), r \notin blind
               PROVE  ~Repeats(r, q)
    OBVIOUS
  <2>1. at[r] = "posting" /\ comments' = [comments EXCEPT ![r] = local[r].drafts] /\ r \in Reviews
    <3>1. at[r] = "posting" /\ Appear(r)
      BY OnlyPostsPost
    <3>2. posted' \subseteq Reviews
      BY PubInvNext DEF PubInv, PubTypeOK
    <3>. QED  BY <3>1, <3>2 DEF Appear
  <2>2. comments'[r] = local[r].drafts /\ PubTypeOK /\ q \in Reviews
    BY <2>1 DEF PubInv, PubTypeOK, Owed
  <2>3. ASSUME NEW p \in local[r].drafts \cap comments[q], <<q, p>> \notin outdated, found[q][p] >= found[r][p]
        PROVE  FALSE
    <3>1. found[q][p] < found[r][p]
      BY <2>1, <2>3 DEF PubInv, Spoken
    <3>2. found[q][p] \in Nat /\ found[r][p] \in Nat
      BY <2>1, <2>2 DEF PubTypeOK
    <3>. QED  BY <2>3, <3>1, <3>2
  <2>. QED  BY <2>2, <2>3 DEF Repeats
<1>. QED  BY <1>1, PubInvInit, PubInvNext, PTL DEF PubSpec, OrphanIsNotRepeated

\* ---- the parts side by side -------------------------------------------------

\* Side by side each part of the worker behaves as it does alone, as no two of them share a
\* variable, so what is proved of a part is true of the whole (worker/factory.py).
LEMMA PartsKeepApart ==
  WorkerSpec => RequestSpec /\ PubSpec /\ RedeliverySpec /\ StepsSpec /\ PublisherSpec /\ FeedSpec
<1>1. WorkerInit => RequestInit /\ PubInit /\ RedeliveryInit /\ StepsInit /\ PublisherInit /\ FeedInit
  BY DEF WorkerInit
<1>2. [WorkerNext]_workerVars => [RequestNext]_requestVars
  BY DEF WorkerNext, workerVars
<1>3. [WorkerNext]_workerVars => [PubNext]_pubVars
  BY DEF WorkerNext, workerVars
<1>4. [WorkerNext]_workerVars => [RedeliveryNext]_redeliveryVars
  BY DEF WorkerNext, workerVars
<1>5. [WorkerNext]_workerVars => [StepsNext]_stepVars
  BY DEF WorkerNext, workerVars
<1>6. [WorkerNext]_workerVars => [PublisherNext]_publisherVars
  BY DEF WorkerNext, workerVars
<1>7. [WorkerNext]_workerVars => [FeedNext]_feedVars
  BY DEF WorkerNext, workerVars
<1>. QED
  BY <1>1, <1>2, <1>3, <1>4, <1>5, <1>6, <1>7, PTL
     DEF WorkerSpec, RequestSpec, PubSpec, RedeliverySpec, StepsSpec, PublisherSpec, FeedSpec

\* Every variable of every part of the worker keeps its type.
THEOREM WorkerTypes == WorkerSpec => []WorkerTypeOK
<1>1. RequestTypeOK /\ PubTypeOK /\ RedeliveryTypeOK /\ StepsTypeOK /\ PublisherTypeOK /\ FeedTypeOK
         => WorkerTypeOK
  BY DEF WorkerTypeOK
<1>2. (RedeliveryInv => RedeliveryTypeOK) /\ (StepsInv => StepsTypeOK) /\ (PublisherInv => PublisherTypeOK)
  BY DEF RedeliveryInv, StepsInv, PublisherInv
<1>. QED
  BY <1>1, <1>2, PartsKeepApart, RequestTypes, PublicationTypes, RedeliveryInvHolds, StepsInvHolds,
     PublisherInvInit, PublisherInvNext, FeedTypes, PTL DEF PublisherSpec
============================================================================
