---------------------------- MODULE ServerProofs ----------------------------
(***************************************************************************)
(* What the parts of the server promise for any number of requests, calls, *)
(* and providers.                                                          *)
(***************************************************************************)
EXTENDS ServiceStatus, ModelCall, RepositoryAccess, Cabinet, ListingProofs, TLAPS

\* ---- the status page -------------------------------------------------------

\* Who asks the source or has its answer in hand holds the lock.
LockIsHeld == \A g \in Guests : In(g, "querying") \/ In(g, "storing") => refresher = g
\* A request is over within the time a query may take.
OnTime == \A g \in Guests : guest[g].step \in {"trying", "querying", "storing", "answered"} =>
    guest[g].since <= moment /\ moment <= guest[g].since + QueryTime
\* A report lives from the query, and a query is no longer than a request.
ReportIsDated == \A r \in report :
    r.expires = queried + StatusTtl /\ queried <= r.asOf + QueryTime
AnswerIsDated == \A g \in Guests : In(g, "storing") => \A r \in guest[g].seen :
    guest[g].since <= r.asOf /\ r.asOf <= moment
StatusInv == StatusTypeOK /\ LockIsHeld /\ OnTime /\ ReportIsDated /\ AnswerIsDated /\ SourceIsSpared

Levels == {"operational", "unknown", "degraded", "outage"}
GuestSteps == {"idle", "waiting", "trying", "querying", "storing", "answered"}
GuestRecords == [step : GuestSteps, since : Nat, seen : SUBSET Reports, stale : BOOLEAN]

LEMMA WorstIsALevel ==
  ASSUME NEW L \in SUBSET {"unknown", "degraded", "outage"}
  PROVE  WorstStatus(L) \in DOMAIN Severity
<1>1. \E l \in L \cup {"operational"} : \A k \in L : Severity[k] <= Severity[l]
  <2>1. CASE "outage" \in L
    BY <2>1 DEF Severity
  <2>2. CASE "outage" \notin L /\ "degraded" \in L
    BY <2>2 DEF Severity
  <2>3. CASE "outage" \notin L /\ "degraded" \notin L /\ "unknown" \in L
    BY <2>3 DEF Severity
  <2>4. CASE L = {}
    BY <2>4
  <2>. QED  BY <2>1, <2>2, <2>3, <2>4
<1>2. DOMAIN Severity = Levels
  BY DEF Severity, Levels
<1>. QED  BY <1>1, <1>2 DEF WorstStatus, Levels

LEMMA EvaluationIsALevel ==
  ASSUME NEW alerts, NEW l \in {Evaluate(alerts), Blind}
  PROVE  l \in [Components -> DOMAIN Severity]
<1>1. "unknown" \in DOMAIN Severity
  BY DEF Severity
<1>2. ASSUME NEW c \in Components
      PROVE  WorstStatus({rule.status : rule \in {q \in AlertRules : q.component = c /\ q.alert \in alerts}})
                 \in DOMAIN Severity
  BY StatusAssumption, WorstIsALevel
<1>. QED  BY <1>1, <1>2 DEF Evaluate, Blind

LEMMA StatusInvInit == StatusInit => StatusInv
BY DEF StatusInit, StatusInv, StatusTypeOK, LockIsHeld, OnTime, ReportIsDated, AnswerIsDated,
       SourceIsSpared, In, NoGuest

\* Another guest's part of the invariant looks at its own record, the lock, the clock and the
\* report only.
Guarded(g) ==
    /\ In(g, "querying") \/ In(g, "storing") => refresher = g
    /\ guest[g].step \in {"trying", "querying", "storing", "answered"} =>
          guest[g].since <= moment /\ moment <= guest[g].since + QueryTime
    /\ In(g, "storing") => \A r \in guest[g].seen : guest[g].since <= r.asOf /\ r.asOf <= moment
    /\ In(g, "querying") /\ report # {} => guest[g].since >= queried + StatusTtl
    /\ In(g, "answered") /\ ~guest[g].stale =>
          \A r \in guest[g].seen : guest[g].since <= r.asOf + StatusTtl + QueryTime

LEMMA InvIsGuarded == StatusInv <=> StatusTypeOK /\ ReportIsDated /\ \A g \in Guests : Guarded(g)
BY DEF StatusInv, LockIsHeld, OnTime, AnswerIsDated, SourceIsSpared, Guarded

\* A step of one request that leaves report and clock alone.
LEMMA GuestStep ==
  ASSUME StatusInv, NEW g \in Guests, NEW v \in GuestRecords, guest' = [guest EXCEPT ![g] = v],
         UNCHANGED <<firing, report, moment, queried>>,
         refresher' = refresher \/ (refresher \in {g, NoOne} /\ refresher' \in {g, NoOne}),
         Guarded(g)'
  PROVE  StatusInv'
<1>1. StatusTypeOK /\ ReportIsDated /\ \A h \in Guests : Guarded(h)
  BY InvIsGuarded
<1>2. StatusTypeOK' /\ ReportIsDated'
  BY <1>1 DEF StatusTypeOK, ReportIsDated, GuestRecords, GuestSteps
<1>3. ASSUME NEW h \in Guests, h # g PROVE Guarded(h)'
  <2>1. guest'[h] = guest[h] /\ Guarded(h) /\ NoOne # h
    BY <1>1, <1>3, StatusAssumption DEF StatusTypeOK
  <2>2. refresher = h => refresher' = h
    BY <1>3, <2>1
  <2>. QED  BY <2>1, <2>2 DEF Guarded, In
<1>. QED  BY <1>2, <1>3 DEF StatusInv, LockIsHeld, OnTime, AnswerIsDated, SourceIsSpared, Guarded

LEMMA StatusInvNext == StatusInv /\ [StatusNext]_statusVars => StatusInv'
<1> SUFFICES ASSUME StatusInv, [StatusNext]_statusVars PROVE StatusInv'
  OBVIOUS
<1>1. /\ StatusTypeOK /\ ReportIsDated /\ \A g \in Guests : Guarded(g)
      /\ moment \in Nat /\ queried \in Nat /\ QueryTime \in Nat /\ StatusTtl \in Nat
      /\ report \in SUBSET Reports
  BY InvIsGuarded, StatusAssumption DEF StatusTypeOK
<1>2. ASSUME NEW g \in Guests PROVE guest[g] \in GuestRecords
  BY <1>1 DEF StatusTypeOK, GuestRecords, GuestSteps
\* An answer from the report that is current.
<1>3. ASSUME NEW g \in Guests, Current(report), AnswerGuest(g, report, FALSE),
             UNCHANGED <<firing, report, moment, queried, refresher>>
      PROVE  StatusInv'
  <2> DEFINE v == [step |-> "answered", since |-> moment, seen |-> report, stale |-> FALSE]
  <2>1. v \in GuestRecords /\ guest' = [guest EXCEPT ![g] = v] /\ guest'[g] = v
    BY <1>1, <1>3 DEF GuestRecords, GuestSteps, AnswerGuest, StatusTypeOK
  <2>2. \A r \in report : moment <= r.asOf + StatusTtl + QueryTime
    <3> SUFFICES ASSUME NEW r \in report PROVE moment <= r.asOf + StatusTtl + QueryTime
      OBVIOUS
    <3>1. PICK q \in report : moment < q.expires
      BY <1>3 DEF Current
    <3>2. q.expires = queried + StatusTtl /\ queried <= r.asOf + QueryTime /\ r.asOf \in Nat
      BY <1>1 DEF ReportIsDated, Reports
    <3>. QED  BY <1>1, <3>1, <3>2
  <2>3. Guarded(g)'
    BY <1>1, <1>3, <2>1, <2>2 DEF Guarded, In
  <2>. QED  BY <1>3, <2>1, <2>3, GuestStep
<1>4. ASSUME NEW g \in Guests, Arrive(g) PROVE StatusInv'
  <2>1. CASE Current(report)
    BY <1>3, <1>4, <2>1 DEF Arrive
  <2>2. CASE ~Current(report)
    <3> DEFINE v == [step |-> IF report = {} THEN "waiting" ELSE "trying", since |-> moment,
                     seen |-> report, stale |-> FALSE]
    <3>1. v \in GuestRecords /\ guest' = [guest EXCEPT ![g] = v] /\ guest'[g] = v
      BY <1>1, <1>4, <2>2 DEF GuestRecords, GuestSteps, Arrive, StatusTypeOK
    <3>2. Guarded(g)'
      BY <1>1, <1>4, <3>1 DEF Guarded, In, Arrive
    <3> HIDE DEF v
    <3>. QED  BY <1>4, <3>1, <3>2, GuestStep DEF Arrive
  <2>. QED  BY <2>1, <2>2
<1>5. ASSUME NEW g \in Guests, TakeOld(g) PROVE StatusInv'
  <2> DEFINE v == [step |-> "answered", since |-> moment, seen |-> guest[g].seen, stale |-> TRUE]
  <2>1. v \in GuestRecords /\ guest' = [guest EXCEPT ![g] = v] /\ guest'[g] = v
    BY <1>1, <1>2, <1>5 DEF GuestRecords, GuestSteps, TakeOld, AnswerGuest, StatusTypeOK
  <2>2. Guarded(g)'
    BY <1>1, <1>5, <2>1 DEF Guarded, In, TakeOld
  <2> HIDE DEF v
  <2>. QED  BY <1>5, <2>1, <2>2, GuestStep DEF TakeOld
<1>6. ASSUME NEW g \in Guests, LockReport(g) PROVE StatusInv'
  <2>1. CASE Current(report)
    BY <1>3, <1>6, <2>1 DEF LockReport
  <2>2. CASE ~Current(report)
    <3> DEFINE v == [NoGuest EXCEPT !.step = "querying", !.since = moment]
    <3>1. v \in GuestRecords /\ v.step = "querying" /\ v.since = moment /\ guest' = [guest EXCEPT ![g] = v]
          /\ guest'[g] = v /\ refresher = NoOne /\ refresher' = g
      BY <1>1, <1>6, <2>2 DEF GuestRecords, GuestSteps, LockReport, StatusTypeOK, NoGuest
    <3>2. report # {} => moment >= queried + StatusTtl
      <4> SUFFICES ASSUME NEW r \in report PROVE moment >= queried + StatusTtl
        OBVIOUS
      <4>1. ~(moment < r.expires) /\ r.expires = queried + StatusTtl
        BY <1>1, <2>2 DEF Current, ReportIsDated
      <4>. QED  BY <1>1, <4>1
    <3> HIDE DEF v
    <3>3. Guarded(g)'
      BY <1>1, <1>6, <3>1, <3>2 DEF Guarded, In, LockReport
    <3>. QED  BY <1>6, <3>1, <3>3, GuestStep DEF LockReport
  <2>. QED  BY <2>1, <2>2
<1>7. ASSUME NEW g \in Guests, QueryAlerts(g) PROVE StatusInv'
  <2>1. PICK l \in {Evaluate(firing), Blind} :
            guest' = [guest EXCEPT ![g].step = "storing",
                          ![g].seen = {[levels |-> l, asOf |-> moment, expires |-> moment]}]
    BY <1>7 DEF QueryAlerts
  <2> DEFINE r == [levels |-> l, asOf |-> moment, expires |-> moment]
             v == [guest[g] EXCEPT !.step = "storing", !.seen = {r}]
  <2>2. r \in Reports /\ r.asOf = moment
    BY <1>1, EvaluationIsALevel DEF Reports
  <2>3. /\ v \in GuestRecords /\ v.step = "storing" /\ v.since = guest[g].since /\ v.seen = {r}
        /\ guest' = [guest EXCEPT ![g] = v] /\ guest'[g] = v
    BY <1>1, <1>2, <2>1, <2>2 DEF GuestRecords, GuestSteps, StatusTypeOK
  <2> HIDE DEF r, v
  <2>4. guest[g].step = "querying" /\ UNCHANGED <<firing, report, refresher, moment, queried>>
    BY <1>7 DEF QueryAlerts, In
  <2>5. refresher = g /\ guest[g].since <= moment /\ moment <= guest[g].since + QueryTime
    BY <1>1, <2>4 DEF Guarded, In
  <2>6. Guarded(g)'
    BY <1>1, <2>2, <2>3, <2>4, <2>5 DEF Guarded, In
  <2>. QED  BY <2>3, <2>4, <2>6, GuestStep
<1>8. ASSUME NEW g \in Guests, StoreReport(g) PROVE StatusInv'
  <2> DEFINE new == {[r EXCEPT !.expires = moment + StatusTtl] : r \in guest[g].seen}
             v == [step |-> "answered", since |-> moment, seen |-> new, stale |-> FALSE]
  <2>1. \A q \in new : q \in Reports /\ q.expires = moment + StatusTtl
            /\ moment <= q.asOf + QueryTime
    <3> SUFFICES ASSUME NEW r \in guest[g].seen, NEW q, q = [r EXCEPT !.expires = moment + StatusTtl]
                 PROVE  q \in Reports /\ q.expires = moment + StatusTtl /\ moment <= q.asOf + QueryTime
      OBVIOUS
    <3>1. r \in Reports /\ guest[g].since \in Nat
      BY <1>2 DEF GuestRecords
    <3>2. q \in Reports /\ q.expires = moment + StatusTtl /\ q.asOf = r.asOf /\ r.asOf \in Nat
      BY <1>1, <3>1 DEF Reports
    <3>3. guest[g].since <= r.asOf /\ moment <= guest[g].since + QueryTime
      BY <1>1, <1>8 DEF Guarded, In, StoreReport
    <3>. QED  BY <1>1, <3>1, <3>2, <3>3
  <2>2. /\ v \in GuestRecords /\ guest' = [guest EXCEPT ![g] = v] /\ guest'[g] = v
        /\ report' = new /\ queried' = moment /\ refresher' = NoOne /\ refresher = g
        /\ UNCHANGED <<firing, moment>>
    BY <1>1, <1>8, <2>1 DEF GuestRecords, GuestSteps, StoreReport, AnswerGuest, Release, StatusTypeOK,
       Guarded
  <2> HIDE DEF new
  <2>3. StatusTypeOK' /\ ReportIsDated'
    BY <1>1, <2>1, <2>2 DEF StatusTypeOK, GuestRecords, GuestSteps, ReportIsDated
  <2>4. Guarded(g)'
    <3>1. \A q \in new : moment <= q.asOf + StatusTtl + QueryTime
      <4> SUFFICES ASSUME NEW q \in new PROVE moment <= q.asOf + StatusTtl + QueryTime
        OBVIOUS
      <4>1. q.asOf \in Nat /\ moment <= q.asOf + QueryTime
        BY <2>1 DEF Reports
      <4>. QED  BY <1>1, <4>1
    <3>. QED  BY <1>1, <2>2, <3>1 DEF Guarded, In
  <2>5. ASSUME NEW h \in Guests, h # g PROVE Guarded(h)'
    <3>1. guest'[h] = guest[h] /\ Guarded(h) /\ ~In(h, "querying") /\ ~In(h, "storing")
      BY <1>1, <2>2, <2>5 DEF StatusTypeOK, Guarded
    <3>. QED  BY <2>2, <3>1 DEF Guarded, In
  <2>. QED  BY <2>3, <2>4, <2>5 DEF StatusInv, LockIsHeld, OnTime, AnswerIsDated, SourceIsSpared, Guarded
<1>9. ASSUME NEW g \in Guests, Depart(g) PROVE StatusInv'
  <2>1. NoGuest \in GuestRecords /\ guest' = [guest EXCEPT ![g] = NoGuest] /\ guest'[g].step = "idle"
    BY <1>1, <1>9 DEF GuestRecords, GuestSteps, Depart, StatusTypeOK, NoGuest
  <2>2. Guarded(g)'
    BY <2>1 DEF Guarded, In
  <2>. QED  BY <1>9, <2>1, <2>2, GuestStep DEF Depart
<1>10. ASSUME NEW a \in Alerts, AlertChanges(a) PROVE StatusInv'
  BY <1>1, <1>10 DEF AlertChanges, StatusInv, StatusTypeOK, LockIsHeld, OnTime, ReportIsDated,
     AnswerIsDated, SourceIsSpared, In
<1>11. ASSUME MomentPasses PROVE StatusInv'
  <2>1. moment' = moment + 1 /\ UNCHANGED <<firing, report, refresher, guest, queried>>
    BY <1>11 DEF MomentPasses
  <2>2. StatusTypeOK' /\ ReportIsDated'
    BY <1>1, <2>1 DEF StatusTypeOK, ReportIsDated
  <2>3. ASSUME NEW h \in Guests PROVE Guarded(h)'
    <3>1. Guarded(h) /\ guest[h].since \in Nat
      BY <1>1, <1>2 DEF GuestRecords
    <3>2. guest[h].step \in {"trying", "querying", "storing", "answered"} =>
              moment < guest[h].since + QueryTime
      BY <1>11 DEF MomentPasses
    <3>3. In(h, "storing") => \A r \in guest[h].seen : r.asOf \in Nat
      BY <1>2 DEF GuestRecords, Reports
    <3>. QED  BY <1>1, <2>1, <3>1, <3>2, <3>3 DEF Guarded, In
  <2>. QED  BY <2>2, <2>3 DEF StatusInv, LockIsHeld, OnTime, AnswerIsDated, SourceIsSpared, Guarded
<1>12. CASE UNCHANGED statusVars
  BY <1>1, <1>12 DEF statusVars, StatusInv, StatusTypeOK, LockIsHeld, OnTime, ReportIsDated,
     AnswerIsDated, SourceIsSpared, In
<1>. QED  BY <1>4, <1>5, <1>6, <1>7, <1>8, <1>9, <1>10, <1>11, <1>12 DEF StatusNext

\* The source is asked by the holder of the lock alone and not before the report has expired,
\* and what a request is told is no older than the time to live and one query.
THEOREM StatusSourceIsSpared == StatusSpec => []SourceIsSpared
<1>1. StatusInv => SourceIsSpared
  BY DEF StatusInv
<1>. QED  BY <1>1, StatusInvInit, StatusInvNext, PTL DEF StatusSpec

\* ---- the calls of the model ------------------------------------------------

LEMMA RoundIsInRange == ASSUME NEW t \in 0..(Keys - 1) PROVE (t + 1) % Keys \in 0..(Keys - 1)
BY ModelAssumption

\* Attempts at the providers before n, and at n.
Allowed(n, attempt) == (n - 1) * SchemaAttempts + attempt

LEMMA AllowedIs ==
  ASSUME NEW n \in 1..Len(Providers), NEW attempt \in 1..SchemaAttempts
  PROVE  /\ Allowed(n, attempt) \in Nat
         /\ Allowed(n, attempt) < Allowed(n + 1, 1) /\ Allowed(n, attempt) <= Len(Providers) * SchemaAttempts
         /\ attempt < SchemaAttempts => Allowed(n, attempt) < Allowed(n, attempt + 1)
<1>1. n \in Nat /\ Len(Providers) \in Nat /\ SchemaAttempts \in Nat /\ n >= 1 /\ n <= Len(Providers)
  BY ModelAssumption
<1>2. (n - 1) * SchemaAttempts \in Nat /\ n * SchemaAttempts \in Nat
  BY <1>1
<1>3. (n - 1) * SchemaAttempts + SchemaAttempts = n * SchemaAttempts
  BY <1>1
<1>4. n * SchemaAttempts <= Len(Providers) * SchemaAttempts
  <2>1. PICK k \in Nat : Len(Providers) = n + k
    <3>1. Len(Providers) - n \in Nat /\ Len(Providers) = n + (Len(Providers) - n)
      BY <1>1
    <3>. QED  BY <3>1
  <2>2. (n + k) * SchemaAttempts = n * SchemaAttempts + k * SchemaAttempts /\ k * SchemaAttempts \in Nat
    BY <1>1
  <2>. QED  BY <1>1, <1>2, <2>1, <2>2
<1>5. n + 1 - 1 = n
  BY <1>1
<1>. QED  BY <1>1, <1>2, <1>3, <1>4, <1>5 DEF Allowed

\* A call that is asking somebody: its attempts fit the providers and attempts so far.
Underway(c) ==
    /\ request[c].provider \in 1..Len(Providers) /\ request[c].attempt \in 1..SchemaAttempts
    /\ attempts[c] \in 1..Allowed(request[c].provider, request[c].attempt)
    /\ told[c] = attempts[c] - 1
Settled(c) ==
    /\ attempts[c] <= Len(Providers) * SchemaAttempts
    /\ attempts[c] > 0 => told[c] = attempts[c] - 1
    /\ attempts[c] = 0 => told[c] = 0 /\ request[c].result = "tooLarge"
Tally(c) ==
    /\ metered[c] = IF request[c].at = "replied" THEN paid[c] - 1 ELSE paid[c]
    /\ request[c].at = "idle" => attempts[c] = 0 /\ told[c] = 0 /\ paid[c] = 0
    /\ request[c].at \in {"asking", "replied"} => Underway(c)
    /\ request[c].at = "over" => Settled(c)
    /\ paid[c] <= attempts[c]
    /\ request[c].at = "asking" => paid[c] < attempts[c]
ModelInv == ModelTypeOK /\ \A c \in ModelCalls : Tally(c)

RequestRecords ==
    [at : {"idle", "asking", "replied", "over"}, provider : 0..Len(Providers), attempt : 0..SchemaAttempts,
     first : 0..(Keys - 1), refusals : Seq(Refusal),
     reply : Replies \cup {"none"}, result : Failures \cup {"none", "answer"}]

LEMMA NothingAsked == NoRequest \in RequestRecords /\ NoRequest.refusals = <<>> /\ NoRequest.at = "idle"
BY ModelAssumption DEF NoRequest, RequestRecords

LEMMA ModelInvInit == ModelInit => ModelInv
<1> SUFFICES ASSUME ModelInit PROVE ModelInv
  OBVIOUS
<1>1. NoRequest \in RequestRecords /\ Len(NoRequest.refusals) = 0 /\ NoRequest.at = "idle"
  BY NothingAsked
<1>2. ModelTypeOK
  BY <1>1, ModelAssumption DEF ModelInit, ModelTypeOK, RequestRecords
<1>3. ASSUME NEW c \in ModelCalls PROVE Tally(c)
  BY <1>1 DEF ModelInit, Tally
<1>. QED  BY <1>2, <1>3 DEF ModelInv

\* The calls other than c.
OthersStand(c) == \A d \in ModelCalls \ {c} :
    /\ request'[d] = request[d] /\ attempts'[d] = attempts[d] /\ told'[d] = told[d]
    /\ paid'[d] = paid[d] /\ metered'[d] = metered[d]

LEMMA OneCallMoves ==
  ASSUME ModelInv, NEW c \in ModelCalls, OthersStand(c), ModelTypeOK', Tally(c)'
  PROVE  ModelInv'
<1>1. ASSUME NEW d \in ModelCalls \ {c} PROVE Tally(d)'
  BY DEF ModelInv, OthersStand, Tally, Underway, Settled
<1>. QED  BY <1>1 DEF ModelInv

LEMMA CountedIs ==
  ASSUME NEW counter \in [ModelCalls -> Nat], NEW c \in ModelCalls
  PROVE  /\ Counted(counter, c) \in [ModelCalls -> Nat] /\ Counted(counter, c)[c] = counter[c] + 1
         /\ \A d \in ModelCalls \ {c} : Counted(counter, c)[d] = counter[d]
BY DEF Counted

LEMMA RequestIs ==
  ASSUME ModelTypeOK, NEW c \in ModelCalls, NEW r \in RequestRecords, Len(r.refusals) < Keys,
         request' = [request EXCEPT ![c] = r]
  PROVE  /\ request' \in [ModelCalls -> RequestRecords] /\ request'[c] = r
         /\ \A d \in ModelCalls \ {c} : request'[d] = request[d]
         /\ \A d \in ModelCalls : Len(request'[d].refusals) < Keys
BY DEF ModelTypeOK, RequestRecords

\* The next call of a provider.
LEMMA AskProviderIs ==
  ASSUME ModelTypeOK, NEW c \in ModelCalls, NEW n \in 1..Len(Providers), AskProvider(c, n)
  PROVE  /\ request' \in [ModelCalls -> RequestRecords] /\ \A d \in ModelCalls : Len(request'[d].refusals) < Keys
         /\ turns' \in 0..(Keys - 1) /\ attempts' \in [ModelCalls -> Nat]
         /\ request'[c].at = "asking" /\ request'[c].provider = n /\ request'[c].attempt = 1
         /\ attempts'[c] = attempts[c] + 1
         /\ \A d \in ModelCalls \ {c} : request'[d] = request[d] /\ attempts'[d] = attempts[d]
<1> DEFINE r == [NoRequest EXCEPT !.at = "asking", !.provider = n, !.attempt = 1, !.first = turns]
<1>1. /\ r \in RequestRecords /\ r.refusals = <<>> /\ r.at = "asking" /\ r.provider = n /\ r.attempt = 1
  <2>1. NoRequest \in RequestRecords /\ NoRequest.refusals = <<>>
    BY NothingAsked
  <2>2. 1 \in 0..SchemaAttempts /\ n \in 0..Len(Providers) /\ turns \in 0..(Keys - 1)
    BY ModelAssumption DEF ModelTypeOK
  <2>. QED  BY <2>1, <2>2 DEF RequestRecords
<1>2. request' = [request EXCEPT ![c] = r]
  BY DEF AskProvider
<1>. HIDE DEF r
<1>3. Len(r.refusals) < Keys
  BY <1>1, ModelAssumption
<1>4. turns' \in 0..(Keys - 1)
  BY RoundIsInRange DEF AskProvider, ModelTypeOK
<1>5. attempts \in [ModelCalls -> Nat] /\ attempts' = Counted(attempts, c)
  BY DEF AskProvider, ModelTypeOK
<1>6. /\ request' \in [ModelCalls -> RequestRecords] /\ request'[c] = r
      /\ \A d \in ModelCalls \ {c} : request'[d] = request[d]
      /\ \A d \in ModelCalls : Len(request'[d].refusals) < Keys
  BY <1>1, <1>2, <1>3, RequestIs
<1>7. /\ attempts' \in [ModelCalls -> Nat] /\ attempts'[c] = attempts[c] + 1
      /\ \A d \in ModelCalls \ {c} : attempts'[d] = attempts[d]
  BY <1>5, CountedIs
<1>. QED  BY <1>1, <1>4, <1>6, <1>7

\* The call returns.
LEMMA ReturnIs ==
  ASSUME ModelTypeOK, NEW c \in ModelCalls, NEW result \in Failures \cup {"answer"}, Return(c, result)
  PROVE  /\ request' \in [ModelCalls -> RequestRecords] /\ \A d \in ModelCalls : Len(request'[d].refusals) < Keys
         /\ turns' \in 0..(Keys - 1) /\ attempts' = attempts
         /\ request'[c].at = "over" /\ request'[c].result = result
         /\ \A d \in ModelCalls \ {c} : request'[d] = request[d]
<1> DEFINE r == [NoRequest EXCEPT !.at = "over", !.result = result]
<1>1. /\ r \in RequestRecords /\ r.refusals = <<>> /\ r.at = "over" /\ r.result = result
  <2>1. NoRequest \in RequestRecords /\ NoRequest.refusals = <<>>
    BY NothingAsked
  <2>. QED  BY <2>1 DEF RequestRecords
<1>2. request' = [request EXCEPT ![c] = r] /\ UNCHANGED <<turns, attempts>>
  BY DEF Return
<1>. HIDE DEF r
<1>3. Len(r.refusals) < Keys
  BY <1>1, ModelAssumption
<1>. QED  BY <1>1, <1>2, <1>3, RequestIs DEF ModelTypeOK

\* After a failure: another provider, told to the listener, or the end.
LEMMA NextProviderIs ==
  ASSUME ModelTypeOK, NEW c \in ModelCalls, NEW failure \in Failures, Underway(c), NextProvider(c, failure)
  PROVE  /\ request' \in [ModelCalls -> RequestRecords] /\ \A d \in ModelCalls : Len(request'[d].refusals) < Keys
         /\ turns' \in 0..(Keys - 1) /\ attempts' \in [ModelCalls -> Nat] /\ told' \in [ModelCalls -> Nat]
         /\ \A d \in ModelCalls \ {c} : request'[d] = request[d] /\ attempts'[d] = attempts[d] /\ told'[d] = told[d]
         /\ \/ request'[c].at = "asking" /\ Underway(c)' /\ attempts'[c] = attempts[c] + 1
            \/ request'[c].at = "over" /\ Settled(c)' /\ attempts'[c] = attempts[c]
<1>1. told \in [ModelCalls -> Nat] /\ attempts \in [ModelCalls -> Nat]
  BY DEF ModelTypeOK
<1> DEFINE n == request[c].provider
<1>2. n \in 1..Len(Providers) /\ request[c].attempt \in 1..SchemaAttempts
      /\ attempts[c] \in 1..Allowed(n, request[c].attempt) /\ told[c] = attempts[c] - 1
  BY DEF Underway
<1>3. Allowed(n, request[c].attempt) \in Nat /\ Allowed(n, request[c].attempt) < Allowed(n + 1, 1)
      /\ Allowed(n, request[c].attempt) <= Len(Providers) * SchemaAttempts
  BY <1>2, AllowedIs
<1>. HIDE DEF n
<1>4. CASE n < Len(Providers)
  <2>1. n + 1 \in 1..Len(Providers)
    BY <1>2, <1>4, ModelAssumption
  <2>2. AskProvider(c, n + 1) /\ told' = Counted(told, c)
    BY <1>4 DEF NextProvider, n
  <2>3. /\ request'[c].at = "asking" /\ request'[c].provider = n + 1 /\ request'[c].attempt = 1
        /\ attempts'[c] = attempts[c] + 1 /\ told'[c] = told[c] + 1
    BY <1>1, <2>1, <2>2, AskProviderIs, CountedIs
  <2>4. Allowed(n + 1, 1) \in Nat /\ 1 \in 1..SchemaAttempts
    BY <2>1, AllowedIs, ModelAssumption
  <2>5. attempts'[c] \in 1..Allowed(n + 1, 1) /\ told'[c] = attempts'[c] - 1
    BY <1>1, <1>2, <1>3, <2>3, <2>4
  <2>6. Underway(c)'
    BY <2>1, <2>3, <2>4, <2>5 DEF Underway
  <2>. QED  BY <1>1, <2>1, <2>2, <2>3, <2>6, AskProviderIs, CountedIs
<1>5. CASE ~(n < Len(Providers))
  <2>1. Return(c, failure) /\ told' = told
    BY <1>5 DEF NextProvider, n
  <2>2. /\ request' \in [ModelCalls -> RequestRecords] /\ \A d \in ModelCalls : Len(request'[d].refusals) < Keys
        /\ turns' \in 0..(Keys - 1) /\ attempts' = attempts /\ request'[c].at = "over"
        /\ \A d \in ModelCalls \ {c} : request'[d] = request[d]
    BY <2>1, ReturnIs
  <2>3. Len(Providers) * SchemaAttempts \in Nat
    BY ModelAssumption
  <2>4. attempts[c] <= Len(Providers) * SchemaAttempts /\ attempts[c] > 0
    BY <1>2, <1>3, <2>3
  <2>5. Settled(c)'
    BY <1>2, <2>1, <2>2, <2>4 DEF Settled
  <2>. QED  BY <1>1, <2>1, <2>2, <2>5
<1>. QED  BY <1>4, <1>5

LEMMA AskInv == ASSUME ModelInv, NEW c \in ModelCalls, Ask(c) PROVE ModelInv'
<1>1. /\ request[c].at = "idle" /\ UNCHANGED <<told, metered, paid>>
      /\ attempts[c] = 0 /\ told[c] = 0 /\ paid[c] = 0 /\ metered[c] = 0
  BY DEF Ask, ModelInv, Tally
<1>2. CASE AskProvider(c, 1)
  <2>1. 1 \in 1..Len(Providers) /\ Allowed(1, 1) = 1 /\ 1 \in 1..SchemaAttempts
    BY ModelAssumption DEF Allowed
  <2>2. /\ request' \in [ModelCalls -> RequestRecords] /\ \A d \in ModelCalls : Len(request'[d].refusals) < Keys
        /\ turns' \in 0..(Keys - 1) /\ attempts' \in [ModelCalls -> Nat]
        /\ request'[c].at = "asking" /\ request'[c].provider = 1 /\ request'[c].attempt = 1
        /\ attempts'[c] = attempts[c] + 1
        /\ \A d \in ModelCalls \ {c} : request'[d] = request[d] /\ attempts'[d] = attempts[d]
    BY <1>2, <2>1, AskProviderIs DEF ModelInv
  <2>3. ModelTypeOK'
    BY <1>1, <2>2 DEF ModelInv, ModelTypeOK, RequestRecords
  <2>4. Underway(c)'
    BY <1>1, <2>1, <2>2 DEF Underway
  <2>5. Tally(c)'
    BY <1>1, <2>2, <2>4 DEF Tally
  <2>6. OthersStand(c)
    BY <1>1, <2>2 DEF OthersStand
  <2>. QED  BY <2>3, <2>5, <2>6, OneCallMoves
<1>3. CASE Return(c, "tooLarge")
  <2>1. "tooLarge" \in Failures \cup {"answer"}
    BY DEF Failures
  <2>2. /\ request' \in [ModelCalls -> RequestRecords] /\ \A d \in ModelCalls : Len(request'[d].refusals) < Keys
        /\ turns' \in 0..(Keys - 1) /\ attempts' = attempts
        /\ request'[c].at = "over" /\ request'[c].result = "tooLarge"
        /\ \A d \in ModelCalls \ {c} : request'[d] = request[d]
    BY <1>3, <2>1, ReturnIs DEF ModelInv
  <2>3. ModelTypeOK'
    BY <1>1, <2>2 DEF ModelInv, ModelTypeOK, RequestRecords
  <2>4. Len(Providers) * SchemaAttempts \in Nat
    BY ModelAssumption
  <2>5. Settled(c)'
    BY <1>1, <2>2, <2>4 DEF Settled
  <2>6. Tally(c)'
    BY <1>1, <2>2, <2>5 DEF Tally
  <2>7. OthersStand(c)
    BY <1>1, <2>2 DEF OthersStand
  <2>. QED  BY <2>3, <2>6, <2>7, OneCallMoves
<1>. QED  BY <1>2, <1>3 DEF Ask

\* A failure of the provider asked, its reply counted or not.
LEMMA FailureInv ==
  ASSUME ModelInv, NEW c \in ModelCalls, NEW failure \in Failures, NextProvider(c, failure), Underway(c),
         \/ request[c].at = "asking" /\ UNCHANGED metered
         \/ request[c].at = "replied" /\ metered' = Counted(metered, c),
         UNCHANGED paid
  PROVE  ModelInv'
<1>1. /\ request' \in [ModelCalls -> RequestRecords] /\ \A d \in ModelCalls : Len(request'[d].refusals) < Keys
      /\ turns' \in 0..(Keys - 1) /\ attempts' \in [ModelCalls -> Nat] /\ told' \in [ModelCalls -> Nat]
      /\ \A d \in ModelCalls \ {c} : request'[d] = request[d] /\ attempts'[d] = attempts[d] /\ told'[d] = told[d]
      /\ \/ request'[c].at = "asking" /\ Underway(c)' /\ attempts'[c] = attempts[c] + 1
         \/ request'[c].at = "over" /\ Settled(c)' /\ attempts'[c] = attempts[c]
  BY NextProviderIs DEF ModelInv
<1>2. /\ metered' \in [ModelCalls -> Nat] /\ metered'[c] = paid[c]
      /\ \A d \in ModelCalls \ {c} : metered'[d] = metered[d]
  <2>1. metered \in [ModelCalls -> Nat] /\ paid \in [ModelCalls -> Nat]
    BY DEF ModelInv, ModelTypeOK
  <2>2. CASE request[c].at = "asking" /\ UNCHANGED metered
    BY <2>1, <2>2 DEF ModelInv, Tally
  <2>3. CASE request[c].at = "replied" /\ metered' = Counted(metered, c)
    <3>1. metered[c] = paid[c] - 1
      BY <2>3 DEF ModelInv, Tally
    <3>. QED  BY <2>1, <2>3, <3>1, CountedIs
  <2>. QED  BY <2>2, <2>3
<1>3. ModelTypeOK'
  BY <1>1, <1>2 DEF ModelInv, ModelTypeOK, RequestRecords
<1>4. paid[c] \in Nat /\ attempts[c] \in Nat /\ paid[c] <= attempts[c]
  BY DEF ModelInv, ModelTypeOK, Tally
<1>5. Tally(c)'
  BY <1>1, <1>2, <1>4 DEF Tally
<1>6. OthersStand(c)
  BY <1>1, <1>2 DEF OthersStand
<1>. QED  BY <1>3, <1>5, <1>6, OneCallMoves

LEMMA NoReplyInv ==
  ASSUME ModelInv, NEW c \in ModelCalls, NEW failure \in {"unavailable", "timeout"}, NoReply(c, failure)
  PROVE  ModelInv'
<1>1. request[c].at = "asking" /\ Underway(c) /\ failure \in Failures
  BY DEF NoReply, Asking, ModelInv, Tally, Failures
<1>. QED  BY <1>1, FailureInv DEF NoReply

\* A record that says where the call stands is exchanged for one that asks the same.
LEMMA SameProviderInv ==
  ASSUME ModelInv, NEW c \in ModelCalls, NEW r \in RequestRecords, Len(r.refusals) < Keys,
         request' = [request EXCEPT ![c] = r],
         r.at \in {"asking", "replied"}, r.provider = request[c].provider,
         r.attempt \in 1..SchemaAttempts, turns' \in 0..(Keys - 1),
         request[c].at \in {"asking", "replied"},
         told' \in [ModelCalls -> Nat], metered' \in [ModelCalls -> Nat],
         attempts' \in [ModelCalls -> Nat], paid' \in [ModelCalls -> Nat],
         \A d \in ModelCalls \ {c} : attempts'[d] = attempts[d] /\ told'[d] = told[d]
                                     /\ paid'[d] = paid[d] /\ metered'[d] = metered[d],
         \/ r.attempt = request[c].attempt /\ attempts'[c] = attempts[c] /\ told'[c] = told[c]
         \/ /\ request[c].attempt < SchemaAttempts /\ r.attempt = request[c].attempt + 1
            /\ attempts'[c] = attempts[c] + 1 /\ told'[c] = told[c] + 1,
         metered'[c] = (IF r.at = "replied" THEN paid'[c] - 1 ELSE paid'[c]),
         paid'[c] <= attempts'[c], r.at = "asking" => paid'[c] < attempts'[c]
  PROVE  ModelInv'
<1>1. /\ request' \in [ModelCalls -> RequestRecords] /\ request'[c] = r
      /\ \A d \in ModelCalls \ {c} : request'[d] = request[d]
      /\ \A d \in ModelCalls : Len(request'[d].refusals) < Keys
  BY RequestIs DEF ModelInv
<1>2. ModelTypeOK'
  BY <1>1 DEF ModelTypeOK, RequestRecords
<1>3. Underway(c)
  BY DEF ModelInv, Tally
<1>4. /\ request[c].provider \in 1..Len(Providers) /\ request[c].attempt \in 1..SchemaAttempts
      /\ attempts[c] \in 1..Allowed(request[c].provider, request[c].attempt) /\ told[c] = attempts[c] - 1
  BY <1>3 DEF Underway
<1>5. /\ Allowed(request[c].provider, request[c].attempt) \in Nat /\ Allowed(r.provider, r.attempt) \in Nat
      /\ request[c].attempt < SchemaAttempts =>
            Allowed(request[c].provider, request[c].attempt) < Allowed(request[c].provider, request[c].attempt + 1)
  BY <1>4, AllowedIs
<1>6. attempts'[c] \in 1..Allowed(r.provider, r.attempt) /\ told'[c] = attempts'[c] - 1
  <2>1. CASE r.attempt = request[c].attempt /\ attempts'[c] = attempts[c] /\ told'[c] = told[c]
    BY <1>4, <2>1
  <2>2. CASE /\ request[c].attempt < SchemaAttempts /\ r.attempt = request[c].attempt + 1
             /\ attempts'[c] = attempts[c] + 1 /\ told'[c] = told[c] + 1
    <3>1. Allowed(request[c].provider, request[c].attempt) < Allowed(r.provider, r.attempt)
      BY <1>5, <2>2
    <3>. QED  BY <1>4, <1>5, <2>2, <3>1
  <2>. QED  BY <2>1, <2>2
<1>7. Underway(c)'
  BY <1>1, <1>4, <1>6 DEF Underway
<1>8. Tally(c)'
  BY <1>1, <1>7 DEF Tally
<1>9. OthersStand(c)
  BY <1>1 DEF OthersStand
<1>. QED  BY <1>2, <1>8, <1>9, OneCallMoves

\* What is known of a call that was asked.
LEMMA CallIs ==
  ASSUME ModelInv, NEW c \in ModelCalls, request[c].at \in {"asking", "replied"}
  PROVE  /\ request[c] \in RequestRecords /\ Len(request[c].refusals) < Keys /\ turns \in 0..(Keys - 1)
         /\ Underway(c) /\ request[c].attempt \in 1..SchemaAttempts
         /\ told \in [ModelCalls -> Nat] /\ metered \in [ModelCalls -> Nat]
         /\ attempts \in [ModelCalls -> Nat] /\ paid \in [ModelCalls -> Nat]
         /\ metered[c] = (IF request[c].at = "replied" THEN paid[c] - 1 ELSE paid[c])
         /\ paid[c] <= attempts[c] /\ (request[c].at = "asking" => paid[c] < attempts[c])
<1>1. Underway(c)
  BY DEF ModelInv, Tally
<1>. QED  BY <1>1 DEF ModelInv, ModelTypeOK, Tally, RequestRecords, Underway

LEMMA KeyRefusedInv ==
  ASSUME ModelInv, NEW c \in ModelCalls, NEW code \in Refusal, KeyRefused(c, code)
  PROVE  ModelInv'
<1> DEFINE refusals == Append(request[c].refusals, code)
           r == [request[c] EXCEPT !.refusals = refusals]
<1>1. request[c].at = "asking" /\ UNCHANGED <<metered, paid>>
  BY DEF KeyRefused, Asking
<1>2. CASE Len(refusals) < Keys
  <2>1. request' = [request EXCEPT ![c].refusals = refusals] /\ UNCHANGED <<turns, told, attempts>>
    BY <1>2 DEF KeyRefused
  <2>2. refusals \in Seq(Refusal)
    BY <1>1, CallIs DEF RequestRecords
  <2>3. request' = [request EXCEPT ![c] = r]
    BY <2>1
  <2>. HIDE DEF refusals
  <2>4. /\ r \in RequestRecords /\ r.refusals = refusals /\ r.at = "asking" /\ r.provider = request[c].provider
        /\ r.attempt = request[c].attempt
    BY <1>1, <2>2, CallIs DEF RequestRecords
  <2>. HIDE DEF r
  <2>. QED  BY <1>1, <1>2, <2>1, <2>3, <2>4, CallIs, SameProviderInv
<1>3. CASE ~(Len(refusals) < Keys)
  <2>1. PICK failure \in {"rateLimited", "unavailable"} : NextProvider(c, failure)
    BY <1>3 DEF KeyRefused
  <2>2. failure \in Failures
    BY DEF Failures
  <2>. QED  BY <1>1, <2>1, <2>2, CallIs, FailureInv
<1>. QED  BY <1>2, <1>3

LEMMA ReplyComesInv ==
  ASSUME ModelInv, NEW c \in ModelCalls, NEW reply \in Replies, ReplyComes(c, reply)
  PROVE  ModelInv'
<1> DEFINE r == [request[c] EXCEPT !.at = "replied", !.reply = reply]
<1>1. /\ request[c].at = "asking" /\ UNCHANGED <<turns, told, metered, attempts>> /\ paid' = Counted(paid, c)
      /\ request' = [request EXCEPT ![c] = r]
  BY DEF ReplyComes, Asking
<1>2. /\ r \in RequestRecords /\ r.refusals = request[c].refusals /\ r.at = "replied"
      /\ r.provider = request[c].provider /\ r.attempt = request[c].attempt
  BY <1>1, CallIs DEF RequestRecords
<1>. HIDE DEF r
<1>3. /\ paid' \in [ModelCalls -> Nat] /\ paid'[c] = paid[c] + 1
      /\ \A d \in ModelCalls \ {c} : paid'[d] = paid[d]
  BY <1>1, CallIs, CountedIs
<1>4. metered'[c] = paid'[c] - 1 /\ paid'[c] <= attempts'[c]
  BY <1>1, <1>3, CallIs
<1>. QED  BY <1>1, <1>2, <1>3, <1>4, CallIs, SameProviderInv

LEMMA AgainIs ==
  ASSUME NEW a \in RequestRecords, NEW n \in 0..SchemaAttempts
  PROVE  LET r == [a EXCEPT !.at = "asking", !.attempt = n, !.refusals = <<>>, !.reply = "none"]
         IN /\ r \in RequestRecords /\ r.refusals = <<>> /\ r.at = "asking" /\ r.provider = a.provider
            /\ r.attempt = n
<1>1. \A e \in Seq(Refusal) :
         LET r == [a EXCEPT !.at = "asking", !.attempt = n, !.refusals = e, !.reply = "none"]
         IN /\ r \in RequestRecords /\ r.refusals = e /\ r.at = "asking" /\ r.provider = a.provider
            /\ r.attempt = n
  BY DEF RequestRecords
<1>2. <<>> \in Seq(Refusal)
  OBVIOUS
<1>. QED  BY <1>1, <1>2

LEMMA ReadReplyInv == ASSUME ModelInv, NEW c \in ModelCalls, ReadReply(c) PROVE ModelInv'
<1>1. request[c].at = "replied" /\ metered' = Counted(metered, c) /\ UNCHANGED paid
  BY DEF ReadReply
<1>2. /\ metered' \in [ModelCalls -> Nat] /\ metered'[c] = paid[c]
      /\ \A d \in ModelCalls \ {c} : metered'[d] = metered[d]
  <2>1. metered'[c] = metered[c] + 1 /\ metered[c] = paid[c] - 1 /\ paid[c] \in Nat
    BY <1>1, CallIs, CountedIs
  <2>2. metered \in [ModelCalls -> Nat]
    BY <1>1, CallIs
  <2>3. metered' \in [ModelCalls -> Nat] /\ \A d \in ModelCalls \ {c} : metered'[d] = metered[d]
    BY <1>1, <2>2, CountedIs
  <2>. QED  BY <2>1, <2>3
<1>3. CASE Return(c, "answer") /\ UNCHANGED told
  <2>1. /\ request' \in [ModelCalls -> RequestRecords] /\ \A d \in ModelCalls : Len(request'[d].refusals) < Keys
        /\ turns' \in 0..(Keys - 1) /\ attempts' = attempts /\ request'[c].at = "over"
        /\ \A d \in ModelCalls \ {c} : request'[d] = request[d]
    BY <1>3, ReturnIs DEF ModelInv
  <2>2. ModelTypeOK'
    <3>1. told \in [ModelCalls -> Nat] /\ attempts \in [ModelCalls -> Nat] /\ paid \in [ModelCalls -> Nat]
      BY <1>1, CallIs
    <3>2. /\ told' \in [ModelCalls -> Nat] /\ attempts' \in [ModelCalls -> Nat]
          /\ paid' \in [ModelCalls -> Nat]
      BY <1>1, <1>3, <2>1, <3>1
    <3>. QED  BY <1>2, <2>1, <3>2 DEF ModelTypeOK, RequestRecords
  <2>3. Settled(c)'
    <3>1. Underway(c)
      BY <1>1, CallIs
    <3>2. Allowed(request[c].provider, request[c].attempt) \in Nat
          /\ Allowed(request[c].provider, request[c].attempt) <= Len(Providers) * SchemaAttempts
      BY <3>1, AllowedIs DEF Underway
    <3>3. Len(Providers) * SchemaAttempts \in Nat
      BY ModelAssumption
    <3>4. attempts[c] > 0 /\ attempts[c] <= Len(Providers) * SchemaAttempts /\ told[c] = attempts[c] - 1
      BY <3>1, <3>2, <3>3 DEF Underway
    <3>. QED  BY <1>3, <2>1, <3>4 DEF Settled
  <2>4. Tally(c)'
    BY <1>1, <1>2, <2>1, <2>3, CallIs DEF Tally
  <2>5. OthersStand(c)
    BY <1>1, <1>2, <1>3, <2>1 DEF OthersStand
  <2>. QED  BY <2>2, <2>4, <2>5, OneCallMoves
<1>4. CASE request[c].attempt < SchemaAttempts /\ Repeat(c)
  <2> DEFINE n == request[c].attempt + 1
             r == [request[c] EXCEPT !.at = "asking", !.attempt = n, !.refusals = <<>>, !.reply = "none"]
  <2>1. /\ request' = [request EXCEPT ![c] = r] /\ UNCHANGED turns
        /\ told' = Counted(told, c) /\ attempts' = Counted(attempts, c)
    BY <1>4 DEF Repeat
  <2>2. request[c].attempt + 1 \in 1..SchemaAttempts /\ request[c].attempt + 1 \in 0..SchemaAttempts
    BY <1>1, <1>4, CallIs, ModelAssumption
  <2>3. /\ r \in RequestRecords /\ r.refusals = <<>> /\ r.at = "asking" /\ r.provider = request[c].provider
        /\ r.attempt = n
    <3>1. n \in 0..SchemaAttempts /\ request[c] \in RequestRecords
      BY <1>1, <2>2, CallIs
    <3>. QED  BY Zenon, <3>1, AgainIs
  <2>. HIDE DEF r
  <2>4. Len(r.refusals) < Keys
    BY <2>3, ModelAssumption
  <2>5. /\ told' \in [ModelCalls -> Nat] /\ attempts' \in [ModelCalls -> Nat]
        /\ told'[c] = told[c] + 1 /\ attempts'[c] = attempts[c] + 1
        /\ \A d \in ModelCalls \ {c} : attempts'[d] = attempts[d] /\ told'[d] = told[d]
    BY <1>1, <2>1, CallIs, CountedIs
  <2>6. paid[c] < attempts'[c] /\ paid[c] <= attempts'[c]
    BY <1>1, <2>5, CallIs
  <2>. QED  BY <1>1, <1>2, <1>4, <2>1, <2>2, <2>3, <2>4, <2>5, <2>6, CallIs, SameProviderInv
<1>5. CASE \E failure \in {"unavailable", "invalidOutput"} : NextProvider(c, failure)
  <2>1. PICK failure \in {"unavailable", "invalidOutput"} : NextProvider(c, failure)
    BY <1>5
  <2>2. failure \in Failures
    BY DEF Failures
  <2>. QED  BY <1>1, <2>1, <2>2, CallIs, FailureInv
<1>. QED  BY <1>3, <1>4, <1>5 DEF ReadReply, Repeat

LEMMA ModelInvNext == ModelInv /\ [ModelNext]_modelVars => ModelInv'
<1> SUFFICES ASSUME ModelInv, [ModelNext]_modelVars PROVE ModelInv'
  OBVIOUS
<1>1. CASE ModelNext
  BY <1>1, AskInv, NoReplyInv, KeyRefusedInv, ReplyComesInv, ReadReplyInv DEF ModelNext
<1>2. CASE UNCHANGED modelVars
  BY <1>2 DEF modelVars, ModelInv, ModelTypeOK, Tally, Underway, Settled
<1>. QED  BY <1>1, <1>2

LEMMA EachCallIsAccounted == ModelInv => EveryAttemptIsAccounted
<1> SUFFICES ASSUME ModelInv, NEW c \in ModelCalls
             PROVE  /\ metered[c] = IF request[c].at = "replied" THEN paid[c] - 1 ELSE paid[c]
                    /\ paid[c] <= attempts[c]
                    /\ request[c].at # "idle" /\ attempts[c] > 0 => told[c] = attempts[c] - 1
                    /\ request[c].at # "idle" /\ attempts[c] = 0 => told[c] = 0 /\ request[c].result = "tooLarge"
                    /\ attempts[c] <= Len(Providers) * SchemaAttempts
  BY DEF EveryAttemptIsAccounted
<1>1. Tally(c) /\ request[c].at \in {"idle", "asking", "replied", "over"} /\ attempts[c] \in Nat
  BY DEF ModelInv, ModelTypeOK
<1>2. Len(Providers) * SchemaAttempts \in Nat
  BY ModelAssumption
<1>3. CASE request[c].at \in {"asking", "replied"}
  <2>1. Underway(c)
    BY <1>1, <1>3 DEF Tally
  <2>2. Allowed(request[c].provider, request[c].attempt) \in Nat
        /\ Allowed(request[c].provider, request[c].attempt) <= Len(Providers) * SchemaAttempts
    BY <2>1, AllowedIs DEF Underway
  <2>. QED  BY <1>1, <1>2, <1>3, <2>1, <2>2 DEF Tally, Underway
<1>4. CASE request[c].at \in {"idle", "over"}
  BY <1>1, <1>2, <1>4 DEF Tally, Settled
<1>. QED  BY <1>1, <1>3, <1>4

\* Whatever fails, at whichever provider and key: a reply is metered once, an attempt but
\* the last told once, and no call makes more attempts than the providers are allowed
\* (structured.py, fallback.py, _post_rotating).
THEOREM ModelCallIsAccounted == ModelSpec => []EveryAttemptIsAccounted
<1>1. ModelSpec => []ModelInv
  BY ModelInvInit, ModelInvNext, PTL DEF ModelSpec
<1>. QED  BY <1>1, EachCallIsAccounted, PTL

\* ---- the repositories of a user ---------------------------------------------

Whole(r) == r = [step |-> r.step, since |-> r.since, list |-> r.list, role |-> r.role, picked |-> r.picked,
                 answer |-> r.answer]
Shaped == ask = [a \in Asks |-> ask[a]] /\ \A a \in Asks : Whole(ask[a])

\* a's record becomes one in step s with that answer.
Becomes(a, s, answer) ==
    /\ ask'[a].step = s /\ ask'[a].answer = answer
    /\ \A d \in Asks \ {a} : ask'[d] = ask[d]

LEMMA SetIs ==
  ASSUME Shaped, NEW a \in Asks, NEW r, Whole(r), ask' = [ask EXCEPT ![a] = r]
  PROVE  Shaped' /\ ask'[a] = r /\ \A d \in Asks \ {a} : ask'[d] = ask[d]
<1>1. ask' = [x \in Asks |-> IF x = a THEN r ELSE ask[x]]
  BY DEF Shaped
<1>. QED  BY <1>1 DEF Shaped

LEMMA FieldIs ==
  ASSUME NEW q, Whole(q), NEW v
  PROVE  /\ [q EXCEPT !.step = v] = [step |-> v, since |-> q.since, list |-> q.list, role |-> q.role,
                                     picked |-> q.picked, answer |-> q.answer]
         /\ [q EXCEPT !.since = v] = [step |-> q.step, since |-> v, list |-> q.list, role |-> q.role,
                                     picked |-> q.picked, answer |-> q.answer]
         /\ [q EXCEPT !.list = v] = [step |-> q.step, since |-> q.since, list |-> v, role |-> q.role,
                                     picked |-> q.picked, answer |-> q.answer]
         /\ [q EXCEPT !.role = v] = [step |-> q.step, since |-> q.since, list |-> q.list, role |-> v,
                                     picked |-> q.picked, answer |-> q.answer]
         /\ [q EXCEPT !.picked = v] = [step |-> q.step, since |-> q.since, list |-> q.list, role |-> q.role,
                                     picked |-> v, answer |-> q.answer]
         /\ [q EXCEPT !.answer = v] = [step |-> q.step, since |-> q.since, list |-> q.list, role |-> q.role,
                                     picked |-> q.picked, answer |-> v]
BY DEF Whole

LEMMA NextIs ==
  ASSUME Shaped, NEW a \in Asks, NEW s, Next_(a, s)
  PROVE  Shaped' /\ Becomes(a, s, ask[a].answer) /\ ask'[a].role = ask[a].role
<1> DEFINE r == [ask[a] EXCEPT !.step = s]
<1>1. ask' = [ask EXCEPT ![a] = r]
  BY DEF Next_
<1>2. Whole(ask[a])
  BY DEF Shaped
<1>3. Whole(r) /\ r.step = s /\ r.answer = ask[a].answer /\ r.role = ask[a].role
  BY <1>2, FieldIs DEF Whole
<1>. HIDE DEF r
<1>. QED  BY <1>1, <1>3, SetIs DEF Becomes

\* Two fields at once are one after the other.
LEMMA OneByOne ==
  ASSUME NEW q, Whole(q), NEW v, NEW s
  PROVE  /\ [q EXCEPT !.since = v, !.step = s] = [[q EXCEPT !.since = v] EXCEPT !.step = s]
         /\ [q EXCEPT !.list = v, !.step = s] = [[q EXCEPT !.list = v] EXCEPT !.step = s]
         /\ [q EXCEPT !.role = v, !.step = s] = [[q EXCEPT !.role = v] EXCEPT !.step = s]
         /\ [q EXCEPT !.step = s, !.picked = v] = [[q EXCEPT !.step = s] EXCEPT !.picked = v]
         /\ [q EXCEPT !.picked = v, !.step = s] = [[q EXCEPT !.picked = v] EXCEPT !.step = s]
OBVIOUS

LEMMA StepKeeps ==
  ASSUME NEW q, Whole(q), NEW v, NEW e, e = [q EXCEPT !.step = v]
  PROVE  Whole(e) /\ e.step = v /\ e.answer = q.answer /\ e.role = q.role
BY DEF Whole

LEMMA SinceKeeps ==
  ASSUME NEW q, Whole(q), NEW v, NEW e, e = [q EXCEPT !.since = v]
  PROVE  Whole(e) /\ e.answer = q.answer /\ e.role = q.role
BY DEF Whole

LEMMA ListKeeps ==
  ASSUME NEW q, Whole(q), NEW v, NEW e, e = [q EXCEPT !.list = v]
  PROVE  Whole(e) /\ e.answer = q.answer /\ e.role = q.role
BY DEF Whole

LEMMA PickedKeeps ==
  ASSUME NEW q, Whole(q), NEW v, NEW e, e = [q EXCEPT !.picked = v]
  PROVE  Whole(e) /\ e.step = q.step /\ e.answer = q.answer /\ e.role = q.role
BY DEF Whole

LEMMA RoleKeeps ==
  ASSUME NEW q, Whole(q), NEW v, NEW e, e = [q EXCEPT !.role = v]
  PROVE  Whole(e) /\ e.answer = q.answer /\ e.role = v
BY DEF Whole

\* r is q with a note v, in step s.
Noted(q, v, s, r) ==
    \/ r = [q EXCEPT !.since = v, !.step = s] \/ r = [q EXCEPT !.list = v, !.step = s]
    \/ r = [q EXCEPT !.step = s, !.picked = v] \/ r = [q EXCEPT !.picked = v, !.step = s]

LEMMA TwoFieldsAre ==
  ASSUME NEW q, Whole(q), NEW v, NEW s, NEW r, Noted(q, v, s, r)
  PROVE  Whole(r) /\ r.step = s /\ r.answer = q.answer /\ r.role = q.role
<1>1. ASSUME NEW e, Whole(e), e.answer = q.answer, e.role = q.role, r = [e EXCEPT !.step = s]
      PROVE  Whole(r) /\ r.step = s /\ r.answer = q.answer /\ r.role = q.role
  BY <1>1, StepKeeps
<1>2. PICK e : /\ e \in {[q EXCEPT !.since = v], [q EXCEPT !.list = v], [q EXCEPT !.picked = v],
                         [q EXCEPT !.step = s]}
               /\ \/ e # [q EXCEPT !.step = s] /\ r = [e EXCEPT !.step = s]
                  \/ e = [q EXCEPT !.step = s] /\ r = [e EXCEPT !.step = s]
                  \/ e = [q EXCEPT !.step = s] /\ r = [e EXCEPT !.picked = v]
  BY OneByOne DEF Noted
<1>3. Whole(e) /\ e.answer = q.answer /\ e.role = q.role
  BY <1>2, StepKeeps, SinceKeeps, ListKeeps, PickedKeeps
<1>4. CASE r = [e EXCEPT !.step = s]
  BY <1>1, <1>3, <1>4
<1>5. CASE e = [q EXCEPT !.step = s] /\ r = [e EXCEPT !.picked = v]
  <2>1. e.step = s
    BY <1>5, StepKeeps
  <2>2. Whole(r) /\ r.step = e.step /\ r.answer = e.answer /\ r.role = e.role
    BY <1>3, <1>5 DEF Whole
  <2>. QED  BY <1>3, <2>1, <2>2
<1>. QED  BY <1>2, <1>4, <1>5

\* r is q in step s, with the role v.
Taken(q, v, s, r) == r = [q EXCEPT !.role = v, !.step = s]

LEMMA RoleTakenIs ==
  ASSUME NEW q, Whole(q), NEW v, NEW s, NEW r, Taken(q, v, s, r)
  PROVE  Whole(r) /\ r.step = s /\ r.answer = q.answer /\ r.role = v
<1>1. PICK e : e = [q EXCEPT !.role = v] /\ r = [e EXCEPT !.step = s]
  BY OneByOne DEF Taken
<1>2. Whole(e) /\ e.answer = q.answer /\ e.role = v
  BY <1>1, RoleKeeps
<1>. QED  BY <1>1, <1>2 DEF Whole

LEMMA ReplyIs ==
  ASSUME Shaped, NEW a \in Asks, NEW answer, Reply(a, answer)
  PROVE  Shaped' /\ Becomes(a, "over", answer)
<1>1. PICK r : r = [Idle EXCEPT !.step = "over", !.answer = answer] /\ ask' = [ask EXCEPT ![a] = r]
  BY DEF Reply
<1>2. PICK e : e = [Idle EXCEPT !.step = "over"] /\ r = [e EXCEPT !.answer = answer]
  BY <1>1, Zenon
<1>3. Whole(Idle)
  BY DEF Idle, Whole
<1>4. Whole(e) /\ e.step = "over"
  BY <1>2, <1>3, StepKeeps
<1>5. Whole(r) /\ r.step = "over" /\ r.answer = answer
  BY <1>2, <1>4 DEF Whole
<1>. QED  BY <1>1, <1>5, SetIs DEF Becomes

Records == [there : BOOLEAN, on : BOOLEAN, settings : SavedSettings \cup {Default}]
Active(a) == ask[a].step \notin {"idle", "over"}
Target(a) == asked[a].repo
Managed(a) == CanConnect(role[asked[a].user][asked[a].repo])
\* What a request that is under way has come by.
Known(a) ==
    /\ Active(a) => Facts(a) \subseteq seen[a]
    /\ ask[a].step \in {"write", "insert"} => "managed" \in seen[a]
    /\ InStep(a, "installation") /\ CanConnect(ask[a].role) => "managed" \in seen[a]
    /\ InStep(a, "insert") /\ repository[Target(a)].there => "on" \in seen[a]
Recorded == repository \in [Repos -> Records] /\ \A p \in Repos : repository[p].on => repository[p].there
AccessInv == Shaped /\ asked \in Plans /\ Recorded /\ \A a \in Asks : Known(a)

\* What a step may do with the records: one that appears is on, and one that was
\* switched off comes back by the request that connects it.
Kept(a) ==
    /\ Recorded'
    /\ \A p \in Repos : repository'[p].there => repository[p].there \/ repository'[p].on
    /\ \A p \in Repos : repository[p].there /\ ~repository[p].on /\ repository'[p].on =>
          /\ repository'[p].settings = repository[p].settings
          /\ asked[a].kind = "connect" /\ Target(a) = p /\ InStep(a, "write")
Truthful(a) == ask'[a].answer # ask[a].answer =>
    /\ ask'[a].answer \in {"created", "done"} => ask[a].step \in {"write", "insert"}
    /\ ask'[a].answer = "conflict" => InStep(a, "insert") /\ repository[Target(a)].there
    /\ ask'[a].answer = "notFound" /\ asked[a].kind = "connect" => Active(a) /\ "hidden" \in Facts(a)
Proceeds(a) ==
    /\ Shaped' /\ UNCHANGED outside /\ \A d \in Asks \ {a} : ask'[d] = ask[d]
    /\ Kept(a) /\ Truthful(a)
    /\ ask'[a].step = "write" =>
          (InStep(a, "role") /\ Managed(a)) \/ (InStep(a, "installation") /\ CanConnect(ask[a].role))
    /\ ask'[a].step = "installation" =>
          InStep(a, "role") /\ ask'[a].role = role[asked[a].user][asked[a].repo]
    /\ ask'[a].step = "insert" =>
          InStep(a, "write") /\ UNCHANGED repository
          /\ (repository[Target(a)].there => repository[Target(a)].on)

LEMMA AccessInvInit == AccessInit => AccessInv
<1> SUFFICES ASSUME AccessInit PROVE AccessInv
  OBVIOUS
<1>1. Whole(Idle) /\ Idle.step = "idle"
  BY DEF Idle, Whole
<1>2. Shaped
  BY <1>1 DEF AccessInit, Shaped
<1>3. Recorded
  <2>1. Absent \in Records /\ ~Absent.on
    BY DEF Absent, Records
  <2>2. PICK off : off = [New EXCEPT !.on = FALSE]
    OBVIOUS
  <2>3. off \in Records /\ ~off.on
    BY <2>2 DEF New, Records
  <2>4. repository \in [Repos -> {Absent, off}]
    BY <2>2 DEF AccessInit
  <2>. QED  BY <2>1, <2>3, <2>4 DEF Recorded
<1>4. \A a \in Asks : Known(a)
  BY <1>1 DEF AccessInit, Known, Active, InStep
<1>. QED  BY <1>2, <1>3, <1>4 DEF AccessInit, AccessInv

LEMMA PlanIs ==
  ASSUME AccessInv, NEW a \in Asks
  PROVE  /\ asked[a].repo \in Repos /\ asked[a].user \in Users /\ asked[a].settings \in SavedSettings
         /\ asked[a].kind \in Kinds
BY AccessAssumption DEF AccessInv

\* A step that moves the request on and leaves the records.
LEMMA MovesOn ==
  ASSUME AccessInv, NEW a \in Asks, NEW s, Next_(a, s), UNCHANGED <<repository, outside>>,
         s \notin {"write", "installation", "insert"}
  PROVE  Proceeds(a)
<1>1. Shaped' /\ Becomes(a, s, ask[a].answer)
  BY NextIs DEF AccessInv
<1>. QED  BY <1>1 DEF AccessInv, Proceeds, Becomes, Kept, Recorded, Truthful

Takes(a, v, s) == \E r : Noted(ask[a], v, s, r) /\ ask' = [ask EXCEPT ![a] = r]

LEMMA Notes ==
  ASSUME AccessInv, NEW a \in Asks, NEW v, NEW s, UNCHANGED <<repository, outside>>,
         Takes(a, v, s), s \notin {"write", "installation", "insert"}
  PROVE  Proceeds(a)
<1> PICK r : Noted(ask[a], v, s, r) /\ ask' = [ask EXCEPT ![a] = r]
  BY DEF Takes
<1>0. Whole(ask[a])
  BY DEF AccessInv, Shaped
<1>1. Whole(r) /\ r.step = s /\ r.answer = ask[a].answer
  BY <1>0, TwoFieldsAre
<1>2. Shaped' /\ Becomes(a, s, ask[a].answer)
  BY <1>1, SetIs DEF AccessInv, Becomes
<1>. QED  BY <1>2 DEF AccessInv, Proceeds, Becomes, Kept, Recorded, Truthful

\* A step that answers and leaves the records.
LEMMA Answers ==
  ASSUME AccessInv, NEW a \in Asks, NEW answer, Reply(a, answer), UNCHANGED <<repository, outside>>,
         answer \notin {"created", "done"},
         answer = "conflict" => InStep(a, "insert") /\ repository[Target(a)].there,
         answer = "notFound" /\ asked[a].kind = "connect" => Active(a) /\ "hidden" \in Facts(a)
  PROVE  Proceeds(a)
<1>1. Shaped' /\ Becomes(a, "over", answer)
  BY ReplyIs DEF AccessInv
<1>. QED  BY <1>1 DEF AccessInv, Proceeds, Becomes, Kept, Recorded, Truthful

\* A step that writes a record and answers.
LEMMA Writes ==
  ASSUME AccessInv, NEW a \in Asks, NEW answer, Reply(a, answer), UNCHANGED outside, Kept(a),
         answer \in {"created", "done", "ok"}, answer # "ok" => ask[a].step \in {"write", "insert"}
  PROVE  Proceeds(a)
<1>1. Shaped' /\ Becomes(a, "over", answer)
  BY ReplyIs DEF AccessInv
<1>. QED  BY <1>1 DEF Proceeds, Becomes, Truthful

LEMMA FactsAre ==
  ASSUME NEW a \in Asks
  PROVE  /\ Managed(a) => "managed" \in Facts(a)
         /\ repository[Target(a)].on => "on" \in Facts(a)
         /\ Target(a) \notin Visible(asked[a].user) => "hidden" \in Facts(a)
BY DEF Facts, Managed, Target

LEMMA AskRoleTurns == ASSUME AccessInv, NEW a \in Asks, AskRole(a) PROVE Proceeds(a)
<1> DEFINE r == role[asked[a].user][asked[a].repo]
<1>1. InStep(a, "role") /\ UNCHANGED <<repository, entries, outside>>
  BY DEF AskRole
<1>2. CASE ask' = [ask EXCEPT ![a].role = r, ![a].step = "installation"]
  <2>1. PICK e : Taken(ask[a], r, "installation", e) /\ ask' = [ask EXCEPT ![a] = e]
    BY <1>2 DEF Taken
  <2>2. Whole(ask[a])
    BY DEF AccessInv, Shaped
  <2>3. Whole(e) /\ e.step = "installation" /\ e.answer = ask[a].answer /\ e.role = r
    BY <2>1, <2>2, RoleTakenIs
  <2>4. Shaped' /\ ask'[a] = e /\ \A d \in Asks \ {a} : ask'[d] = ask[d]
    BY <2>1, <2>3, SetIs DEF AccessInv
  <2>. QED  BY <1>1, <2>3, <2>4 DEF AccessInv, Proceeds, Kept, Recorded, Truthful
<1>3. CASE asked[a].kind = "connect" /\ ~VisibleForConnect(r) /\ Reply(a, "notFound")
  <2>1. Target(a) \notin Visible(asked[a].user)
    BY <1>3 DEF Visible, VisibleForConnect, Target
  <2>2. Active(a) /\ "hidden" \in Facts(a)
    BY <1>1, <2>1, FactsAre DEF Active, InStep
  <2>. QED  BY <1>1, <1>3, <2>2, Answers
<1>4. CASE asked[a].kind # "connect" /\ \E answer \in {"notFound", "forbidden"} : Reply(a, answer)
  BY <1>1, <1>4, Answers
<1>5. CASE CanConnect(r) /\ Next_(a, "write")
  <2>1. Shaped' /\ Becomes(a, "write", ask[a].answer)
    BY <1>5, NextIs DEF AccessInv
  <2>. QED  BY <1>1, <1>5, <2>1 DEF AccessInv, Proceeds, Becomes, Kept, Recorded, Truthful, Managed
<1>. QED  BY <1>2, <1>3, <1>4, <1>5 DEF AskRole

LEMMA AskInstallationTurns ==
  ASSUME AccessInv, NEW a \in Asks, asked[a].kind = "connect", AskInstallation(a) PROVE Proceeds(a)
<1>1. InStep(a, "installation") /\ UNCHANGED <<repository, entries, outside>>
  BY DEF AskInstallation
<1>2. CASE asked[a].repo \notin installed /\ Reply(a, "notFound")
  <2>1. Target(a) \notin Visible(asked[a].user)
    BY <1>2 DEF Visible, Target
  <2>2. Active(a) /\ "hidden" \in Facts(a)
    BY <1>1, <2>1, FactsAre DEF Active, InStep
  <2>. QED  BY <1>1, <1>2, <2>2, Answers
<1>3. CASE Reply(a, "forbidden")
  BY <1>1, <1>3, Answers
<1>4. CASE CanConnect(ask[a].role) /\ Next_(a, "write")
  <2>1. Shaped' /\ Becomes(a, "write", ask[a].answer)
    BY <1>4, NextIs DEF AccessInv
  <2>. QED  BY <1>1, <1>4, <2>1 DEF AccessInv, Proceeds, Becomes, Kept, Recorded, Truthful
<1>. QED  BY <1>2, <1>3, <1>4 DEF AskInstallation

\* Writing one record.
LEMMA WriteIs ==
  ASSUME AccessInv, NEW p \in Repos, NEW r \in Records, r.on => r.there, Write(p, r)
  PROVE  Recorded' /\ repository'[p] = r /\ \A q \in Repos \ {p} : repository'[q] = repository[q]
BY DEF AccessInv, Recorded, Write

LEMMA ReconnectTurns ==
  ASSUME AccessInv, NEW a \in Asks, asked[a].kind = "connect", Reconnect(a) PROVE Proceeds(a)
<1> DEFINE p == asked[a].repo
           r == [repository[p] EXCEPT !.on = TRUE]
<1>1. InStep(a, "write") /\ UNCHANGED <<entries, outside>>
  BY DEF Reconnect
<1>2. p \in Repos /\ repository[p] \in Records
  BY PlanIs DEF AccessInv, Recorded
<1>3. CASE repository[p].there /\ ~repository[p].on
  <2>1. Write(p, r) /\ Reply(a, "created")
    BY <1>3 DEF Reconnect
  <2>2. r \in Records /\ r.on /\ r.there /\ r.settings = repository[p].settings
    BY <1>2, <1>3 DEF Records
  <2>. HIDE DEF r
  <2>3. Recorded' /\ repository'[p] = r /\ \A q \in Repos \ {p} : repository'[q] = repository[q]
    BY <1>2, <2>1, <2>2, WriteIs
  <2>4. Kept(a)
    BY <1>1, <1>2, <2>2, <2>3 DEF Kept, Target
  <2>. QED  BY <1>1, <2>1, <2>4, Writes DEF InStep
<1>4. CASE ~(repository[p].there /\ ~repository[p].on)
  <2>1. Next_(a, "insert") /\ UNCHANGED repository
    BY <1>4 DEF Reconnect
  <2>2. Shaped' /\ Becomes(a, "insert", ask[a].answer)
    BY <2>1, NextIs DEF AccessInv
  <2>. QED  BY <1>1, <1>4, <2>1, <2>2 DEF AccessInv, Proceeds, Becomes, Kept, Recorded, Truthful, Target
<1>. QED  BY <1>3, <1>4

LEMMA InsertTurns == ASSUME AccessInv, NEW a \in Asks, asked[a].kind = "connect", Insert(a) PROVE Proceeds(a)
<1> DEFINE p == asked[a].repo
<1>1. InStep(a, "insert") /\ UNCHANGED <<entries, outside>>
  BY DEF Insert
<1>2. p \in Repos /\ repository[p] \in Records
  BY PlanIs DEF AccessInv, Recorded
<1>3. CASE repository[p].there
  <2>1. Reply(a, "conflict") /\ UNCHANGED repository
    BY <1>3 DEF Insert
  <2>. QED  BY <1>1, <1>3, <2>1, Answers DEF Target
<1>4. CASE ~repository[p].there
  <2>1. Write(p, New) /\ Reply(a, "created")
    BY <1>4 DEF Insert
  <2>2. New \in Records /\ New.on /\ New.there
    BY DEF New, Records
  <2>3. Recorded' /\ repository'[p] = New /\ \A q \in Repos \ {p} : repository'[q] = repository[q]
    BY <1>2, <2>1, <2>2, WriteIs
  <2>4. Kept(a)
    BY <1>4, <2>2, <2>3 DEF Kept
  <2>. QED  BY <1>1, <2>1, <2>4, Writes DEF InStep
<1>. QED  BY <1>3, <1>4

LEMMA DisconnectTurns == ASSUME AccessInv, NEW a \in Asks, Disconnect(a) PROVE Proceeds(a)
<1> DEFINE p == asked[a].repo
           r == [repository[p] EXCEPT !.on = FALSE]
<1>1. InStep(a, "write") /\ UNCHANGED <<entries, outside>> /\ Write(p, r) /\ Reply(a, "done")
  BY DEF Disconnect
<1>2. p \in Repos /\ repository[p] \in Records
  BY PlanIs DEF AccessInv, Recorded
<1>3. r \in Records /\ ~r.on /\ r.there = repository[p].there
  BY <1>2 DEF Records
<1>. HIDE DEF r
<1>4. Recorded' /\ repository'[p] = r /\ \A q \in Repos \ {p} : repository'[q] = repository[q]
  BY <1>1, <1>2, <1>3, WriteIs
<1>5. Kept(a)
  BY <1>3, <1>4 DEF Kept
<1>. QED  BY <1>1, <1>5, Writes DEF InStep

LEMMA SaveSettingsTurns == ASSUME AccessInv, NEW a \in Asks, SaveSettings(a) PROVE Proceeds(a)
<1> DEFINE p == asked[a].repo
           r == [repository[p] EXCEPT !.settings = asked[a].settings]
<1>1. InStep(a, "write") /\ UNCHANGED <<entries, outside>> /\ Write(p, r) /\ Reply(a, "done")
  BY DEF SaveSettings
<1>2. p \in Repos /\ repository[p] \in Records /\ asked[a].settings \in SavedSettings
      /\ (repository[p].on => repository[p].there)
  BY PlanIs DEF AccessInv, Recorded
<1>3. r \in Records /\ r.on = repository[p].on /\ r.there = repository[p].there
  BY <1>2 DEF Records
<1>. HIDE DEF r
<1>4. Recorded' /\ repository'[p] = r /\ \A q \in Repos \ {p} : repository'[q] = repository[q]
  BY <1>1, <1>2, <1>3, WriteIs
<1>5. Kept(a)
  BY <1>3, <1>4 DEF Kept
<1>. QED  BY <1>1, <1>5, Writes DEF InStep

LEMMA AddAllTurns == ASSUME AccessInv, NEW a \in Asks, AddAll(a) PROVE Proceeds(a)
<1>1. /\ UNCHANGED <<entries, outside>> /\ Reply(a, "ok")
      /\ repository' = [p \in Repos |->
             IF p \in ask[a].picked /\ ~repository[p].there THEN New ELSE repository[p]]
  BY DEF AddAll
<1>2. New \in Records /\ New.on /\ New.there
  BY DEF New, Records
<1>3. Recorded
  BY DEF AccessInv
<1>4. Recorded'
  BY <1>1, <1>2, <1>3 DEF Recorded
<1>5. Kept(a)
  BY <1>1, <1>2, <1>4 DEF Kept
<1>. QED  BY <1>1, <1>5, Writes

LEMMA LookTurns == ASSUME AccessInv, NEW a \in Asks, Look(a) PROVE Proceeds(a)
<1>1. CASE ReadCache(a)
  <2> DEFINE hit == Live(entries, asked[a].user, day)
  <2>1. UNCHANGED <<repository, outside>>
    BY <1>1 DEF ReadCache
  <2>2. CASE ask' = [ask EXCEPT ![a].list = hit[1].value, ![a].step = "listed"]
    <3>1. PICK v : v = hit[1].value
      OBVIOUS
    <3>2. Takes(a, v, "listed")
      BY <2>2, <3>1 DEF Takes, Noted
    <3>. QED  BY <2>1, <3>2, Notes
  <2>3. CASE Next_(a, "ask")
    BY <2>1, <2>3, MovesOn
  <2>. QED  BY <1>1, <2>2, <2>3 DEF ReadCache
<1>2. CASE AskList(a)
  <2>1. PICK v : v = [asOf |-> day, visible |-> Visible(asked[a].user)]
    OBVIOUS
  <2>2. ask' = [ask EXCEPT ![a].list = v, ![a].step = "keep"] /\ UNCHANGED <<repository, outside>>
    BY <1>2, <2>1 DEF AskList
  <2>3. Takes(a, v, "keep")
    BY <2>2 DEF Takes, Noted
  <2>. QED  BY <2>2, <2>3, Notes
<1>3. CASE KeepList(a)
  <2>1. Next_(a, AfterListing(a)) /\ UNCHANGED <<repository, outside>>
    BY <1>3 DEF KeepList
  <2>2. AfterListing(a) \notin {"write", "installation", "insert"}
    BY DEF AfterListing
  <2>. QED  BY <2>1, <2>2, MovesOn
<1>. QED  BY <1>1, <1>2, <1>3 DEF Look

LEMMA SetupTurns ==
  ASSUME AccessInv, NEW a \in Asks, asked[a].kind = "setup", SetupRequest(a) PROVE Proceeds(a)
<1>1. CASE SetupDeclined(a)
  BY <1>1, Answers DEF SetupDeclined
<1>2. CASE AskSelection(a)
  BY <1>2, Answers, MovesOn DEF AskSelection
<1>3. CASE RefreshFails(a)
  BY <1>3, MovesOn DEF RefreshFails
<1>4. CASE Pick(a)
  <2>1. UNCHANGED <<repository, outside>>
    BY <1>4 DEF Pick
  <2>2. PICK v : v = {p \in Visible(asked[a].user) : CanConnect(role[asked[a].user][p])}
    OBVIOUS
  <2>3. CASE ask' = [ask EXCEPT ![a].step = "register", ![a].picked = v]
    <3>1. Takes(a, v, "register")
      BY <2>3 DEF Takes, Noted
    <3>. QED  BY <2>1, <3>1, Notes
  <2>4. CASE Reply(a, "ok")
    BY <2>1, <2>4, Answers
  <2>. QED  BY <1>4, <2>2, <2>3, <2>4 DEF Pick
<1>5. CASE Register(a)
  <2>1. UNCHANGED <<repository, outside>>
    BY <1>5 DEF Register
  <2>2. PICK v : v = {p \in ask[a].picked : ~repository[p].there}
    OBVIOUS
  <2>3. Takes(a, v, "addAll")
    BY <1>5, <2>2 DEF Takes, Noted, Register
  <2>. QED  BY <2>1, <2>3, Notes
<1>6. CASE AddAll(a)
  BY <1>6, AddAllTurns
<1>7. CASE AskList(a) \/ KeepList(a)
  BY <1>7, LookTurns DEF Look
<1>. QED  BY <1>1, <1>2, <1>3, <1>4, <1>5, <1>6, <1>7 DEF SetupRequest

LEMMA BeginTurns == ASSUME AccessInv, NEW a \in Asks, Begin(a) PROVE Proceeds(a)
<1>1. PICK s : s = IF asked[a].kind = "connect" THEN "role"
                   ELSE IF asked[a].kind = "setup" THEN "selection" ELSE "list"
  OBVIOUS
<1>2. ask' = [ask EXCEPT ![a].since = day, ![a].step = s] /\ UNCHANGED <<repository, outside>>
  BY <1>1 DEF Begin
<1>3. Takes(a, day, s)
  BY <1>2 DEF Takes, Noted
<1>4. s \notin {"write", "installation", "insert"}
  BY <1>1
<1>. QED  BY <1>2, <1>3, <1>4, Notes

LEMMA AskTurns == ASSUME AccessInv, NEW a \in Asks, AskStep(a) PROVE Proceeds(a)
<1>1. CASE Begin(a)
  BY <1>1, BeginTurns
<1>2. CASE ProviderFails(a)
  BY <1>2, Answers DEF ProviderFails
<1>3. CASE ListRequest(a)
  <2>1. CASE ShowList(a)
    BY <2>1, Answers DEF ShowList
  <2>. QED  BY <1>3, <2>1, LookTurns DEF ListRequest
<1>4. CASE ConnectRequest(a)
  BY <1>4, AskRoleTurns, AskInstallationTurns, ReconnectTurns, InsertTurns DEF ConnectRequest
<1>5. CASE DisconnectRequest(a) \/ SaveRequest(a)
  <2>1. asked[a].kind # "connect"
    BY <1>5 DEF DisconnectRequest, SaveRequest
  <2>2. CASE Listed(a)
    BY <2>1, <2>2, Answers, MovesOn DEF Listed
  <2>. QED  BY <1>5, <2>2, LookTurns, AskRoleTurns, DisconnectTurns, SaveSettingsTurns
            DEF DisconnectRequest, SaveRequest
<1>6. CASE SetupRequest(a)
  <2>1. asked[a].kind = "setup"
    BY <1>6 DEF SetupRequest
  <2>. QED  BY <1>6, <2>1, SetupTurns
<1>. QED  BY <1>1, <1>2, <1>3, <1>4, <1>5, <1>6 DEF AskStep

\* What Remember keeps of a request that goes on.
LEMMA RememberIs ==
  ASSUME NEW a \in Asks, Remember, ask'[a].step \notin {"idle", "over"}
  PROVE  seen[a] \subseteq seen'[a] /\ Facts(a)' \subseteq seen'[a]
BY DEF Remember

LEMMA StandingInv ==
  ASSUME AccessInv, Remember, UNCHANGED asked, NEW d \in Asks, ask'[d] = ask[d],
         \A p \in Repos : repository'[p].there => repository[p].there \/ repository'[p].on
  PROVE  Known(d)'
<1>1. Known(d) /\ Target(d) \in Repos /\ Target(d)' = Target(d)
  BY PlanIs DEF AccessInv, Target
<1>2. CASE ask[d].step \in {"idle", "over"}
  BY <1>2 DEF Known, Active, InStep
<1>3. CASE ask[d].step \notin {"idle", "over"}
  <2>1. seen[d] \subseteq seen'[d] /\ Facts(d)' \subseteq seen'[d]
    BY <1>3, RememberIs
  <2>2. repository'[Target(d)].on => "on" \in Facts(d)'
    BY <1>1 DEF Facts, Target
  <2>. QED  BY <1>1, <1>3, <2>1, <2>2 DEF Known, Active, InStep
<1>. QED  BY <1>2, <1>3

LEMMA TurnInv == ASSUME AccessInv, NEW a \in Asks, Proceeds(a), Remember PROVE AccessInv'
<1>1. UNCHANGED <<role, installed, asked>> /\ Shaped' /\ Recorded'
      /\ \A p \in Repos : repository'[p].there => repository[p].there \/ repository'[p].on
  BY DEF Proceeds, Kept, outside, github
<1>2. ASSUME NEW d \in Asks \ {a} PROVE Known(d)'
  BY <1>1, StandingInv DEF Proceeds
<1>3. Known(a)'
  <2>1. CASE ask'[a].step \in {"idle", "over"}
    BY <2>1 DEF Known, Active, InStep
  <2>2. CASE ask'[a].step \notin {"idle", "over"}
    <3>1. seen[a] \subseteq seen'[a] /\ Facts(a)' \subseteq seen'[a] /\ Known(a)
      BY <2>2, RememberIs DEF AccessInv
    <3>2. ask'[a].step = "write" => "managed" \in seen[a]
      BY <3>1, FactsAre DEF Proceeds, Known, Active, InStep
    <3>3. InStep(a, "installation")' /\ CanConnect(ask'[a].role) => "managed" \in seen[a]
      BY <3>1, FactsAre DEF Proceeds, Known, Active, InStep, Managed
    <3>4. ask'[a].step = "insert" => "managed" \in seen[a]
                                     /\ (repository'[Target(a)].there => "on" \in seen[a])
      BY <3>1, FactsAre DEF Proceeds, Known, Active, InStep
    <3>. QED  BY <1>1, <3>1, <3>2, <3>3, <3>4 DEF Known, Active, InStep, Target
  <2>. QED  BY <2>1, <2>2
<1>. QED  BY <1>1, <1>2, <1>3 DEF AccessInv

\* What is no request's step: the world and the clock.
WorldTurns ==
    /\ UNCHANGED <<repository, asked, ask>>
    /\ \/ \E u \in Users, p \in Repos, r \in Roles : ChangeRole(u, p, r)
       \/ \E p \in Repos : ChangeInstallation(p)
       \/ Wait

LEMMA NextTurns == AccessNext => Remember /\ (WorldTurns \/ \E a \in Asks : AskStep(a))
BY DEF AccessNext, AccessAction, WorldTurns, ChangeRole, ChangeInstallation, Wait

LEMMA AccessInvNext == AccessInv /\ [AccessNext]_accessVars => AccessInv'
<1> SUFFICES ASSUME AccessInv, [AccessNext]_accessVars PROVE AccessInv'
  OBVIOUS
<1>1. CASE \E a \in Asks : AskStep(a) /\ Remember
  BY <1>1, AskTurns, TurnInv
<1>2. CASE WorldTurns /\ Remember
  <2>1. UNCHANGED <<repository, asked, ask>>
    BY <1>2 DEF WorldTurns
  <2>2. \A d \in Asks : Known(d)'
    BY <1>2, <2>1, StandingInv
  <2>. QED  BY <2>1, <2>2 DEF AccessInv, Shaped, Recorded
<1>3. CASE UNCHANGED accessVars
  BY <1>3 DEF accessVars, AccessInv, Shaped, Recorded, Known, Active, InStep, Facts, Target, Visible
<1>. QED  BY <1>1, <1>2, <1>3, NextTurns

LEMMA AccessInvHolds == AccessSpec => []AccessInv
<1>. QED  BY AccessInvInit, AccessInvNext, PTL DEF AccessSpec

\* A write is of somebody who managed the repository while asking, a conflict is of one
\* that was connected meanwhile, and what is not found was hidden (ConnectRepository,
\* _manage_refusal): whatever else changes at GitHub and in the records meanwhile.
THEOREM AccessAnswersTruly == AccessSpec => AnswerWasTrue
<1> DEFINE Said == \A a \in Asks : ask'[a].answer # ask[a].answer =>
               /\ ask'[a].answer \in {"created", "done", "conflict"} => "managed" \in seen[a]
               /\ ask'[a].answer = "conflict" => "on" \in seen[a]
               /\ ask'[a].answer = "notFound" /\ asked[a].kind = "connect" => "hidden" \in seen[a]
<1>1. AccessInv /\ [AccessNext]_accessVars => [Said]_accessVars
  <2> SUFFICES ASSUME AccessInv, AccessNext, NEW a \in Asks, ask'[a].answer # ask[a].answer
               PROVE  /\ ask'[a].answer \in {"created", "done", "conflict"} => "managed" \in seen[a]
                      /\ ask'[a].answer = "conflict" => "on" \in seen[a]
                      /\ ask'[a].answer = "notFound" /\ asked[a].kind = "connect" => "hidden" \in seen[a]
    OBVIOUS
  <2>1. PICK d \in Asks : AskStep(d)
    BY NextTurns DEF WorldTurns
  <2>2. Proceeds(d)
    BY <2>1, AskTurns
  <2>3. d = a
    BY <2>2 DEF Proceeds
  <2>4. Truthful(a) /\ Known(a)
    BY <2>2, <2>3 DEF Proceeds, AccessInv
  <2>. QED  BY <2>4 DEF Truthful, Known, Active, InStep
<1>. QED  BY <1>1, AccessInvHolds, PTL DEF AccessSpec, AnswerWasTrue

\* A repository that was switched off comes back by a request to connect it, with the
\* settings that were saved, and by no setup that read the records before
\* (connect_installation, add_all with ON CONFLICT DO NOTHING).
THEOREM SwitchedOffIsKept == AccessSpec => SwitchedOffStaysOff
<1> DEFINE Off == \A p \in Repos :
        repository[p].there /\ ~repository[p].on /\ repository'[p].on =>
            /\ repository'[p].settings = repository[p].settings
            /\ \E a \in Asks : asked[a].kind = "connect" /\ asked[a].repo = p /\ InStep(a, "write")
<1>1. AccessInv /\ [AccessNext]_accessVars => [Off]_accessVars
  <2> SUFFICES ASSUME AccessInv, AccessNext, NEW p \in Repos,
                      repository[p].there, ~repository[p].on, repository'[p].on
               PROVE  /\ repository'[p].settings = repository[p].settings
                      /\ \E a \in Asks : asked[a].kind = "connect" /\ asked[a].repo = p /\ InStep(a, "write")
    OBVIOUS
  <2>1. PICK d \in Asks : AskStep(d)
    BY NextTurns DEF WorldTurns
  <2>2. Kept(d)
    BY <2>1, AskTurns DEF Proceeds
  <2>. QED  BY <2>2 DEF Kept, Target
<1>. QED  BY <1>1, AccessInvHolds, PTL DEF AccessSpec, SwitchedOffStaysOff

\* ---- the list of a user's repositories, out of the cache ---------------------

\* A store holds what it held and what was put.
LEMMA StoreHolds ==
  ASSUME NEW T, NEW es \in Seq(T), NEW key, NEW now
  PROVE  /\ AfterGet(es, key, now) \in Seq(T)
         /\ Live(es, key, now) \in Seq({e \in T : e.key = key /\ now < e.expires})
         /\ \A value, expires, limit : limit \in Nat /\ [key |-> key, value |-> value, expires |-> expires] \in T
               => AfterSet(es, key, value, expires, now, limit) \in Seq(T)
<1>1. ASSUME NEW s \in Seq(T), NEW K \in SUBSET DOMAIN s PROVE AtPlaces(s, K) \in Seq(T)
  <2>1. \A i \in K : s[i] \in T
    OBVIOUS
  <2>. QED  BY <2>1, PlacesHold
<1>2. Without(es, key) \in Seq(T)
  BY <1>1 DEF Without
<1>3. Live(es, key, now) \in Seq({e \in T : e.key = key /\ now < e.expires})
  <2> DEFINE K == {i \in DOMAIN es : es[i].key = key /\ now < es[i].expires}
  <2>1. K \in SUBSET DOMAIN es /\ \A i \in K : es[i] \in {e \in T : e.key = key /\ now < e.expires}
    OBVIOUS
  <2>2. AtPlaces(es, K) \in Seq({e \in T : e.key = key /\ now < e.expires})
    <3> HIDE DEF K
    <3>. QED  BY <2>1, PlacesHold
  <2>. QED  BY <2>2 DEF Live
<1>4. ASSUME NEW value, NEW expires, NEW limit \in Nat,
             [key |-> key, value |-> value, expires |-> expires] \in T
      PROVE  AfterSet(es, key, value, expires, now, limit) \in Seq(T)
  <2> DEFINE put == Append(Without(es, key), [key |-> key, value |-> value, expires |-> expires])
             fresh == AtPlaces(put, {i \in DOMAIN put : now < put[i].expires})
  <2>1. put \in Seq(T)
    BY <1>2, <1>4
  <2>2. fresh \in Seq(T)
    <3> HIDE DEF put
    <3>. QED  BY <1>1, <2>1
  <2>3. Evict(put, now, limit) \in Seq(T)
    <3>1. Evict(put, now, limit) = IF Len(fresh) <= limit THEN fresh
                                   ELSE SubSeq(fresh, Len(fresh) - limit + 1, Len(fresh))
      BY DEF Evict
    <3> HIDE DEF fresh
    <3>2. SubSeq(fresh, Len(fresh) - limit + 1, Len(fresh)) \in Seq(T) \/ Len(fresh) <= limit
      BY <2>2
    <3>. QED  BY <2>2, <3>1, <3>2
  <2>. QED  BY <2>1, <2>3 DEF AfterSet
<1>. QED  BY <1>2, <1>3, <1>4 DEF AfterGet

\* What is kept lives from the end of a request, and what it lists is of that request.
Recent == {e \in [key : Users, value : Lists, expires : Nat] : e.expires <= e.value.asOf + Ttl + Patience}
\* How old the list of a request may be.
Dated(a) == Active(a) =>
    /\ ask[a].since \in Nat /\ ask[a].since <= day /\ day <= ask[a].since + Patience
    /\ InStep(a, "keep") => ask[a].list \in Lists /\ ask[a].since <= ask[a].list.asOf
    /\ InStep(a, "listed") => ask[a].list \in Lists /\ ask[a].since < ask[a].list.asOf + Ttl + Patience
ListInv == day \in 0..Until /\ installed \subseteq Repos /\ entries \in Seq(Recent) /\ \A a \in Asks : Dated(a)

\* a goes on without a list, or replies.
Steady(a) ==
    /\ UNCHANGED <<day, installed, entries>> /\ \A d \in Asks \ {a} : ask'[d] = ask[d]
    /\ ask'[a].step \notin {"keep", "listed"}
    /\ Active(a)' => Active(a) /\ ask'[a].since = ask[a].since

LEMMA AccessNumbers == Ttl \in Nat /\ Limit \in Nat /\ Patience \in Nat /\ Until \in Nat /\ Ttl > 0
BY AccessAssumption

LEMMA ListInvInit == AccessInit => ListInv
<1> SUFFICES ASSUME AccessInit PROVE ListInv
  OBVIOUS
<1>1. Idle.step = "idle"
  BY DEF Idle
<1>2. \A a \in Asks : Dated(a)
  BY <1>1 DEF AccessInit, Dated, Active
<1>. QED  BY <1>2, AccessNumbers DEF AccessInit, ListInv

LEMMA SteadyInv == ASSUME ListInv, NEW a \in Asks, Steady(a) PROVE ListInv'
<1>1. \A d \in Asks : Dated(d)'
  BY DEF ListInv, Steady, Dated, Active, InStep
<1>. QED  BY <1>1 DEF ListInv, Steady

\* r is q in step s, its time and its list as they were.
Onward(q, v, s, r) ==
    \/ r = [q EXCEPT !.step = s] \/ r = [q EXCEPT !.role = v, !.step = s]
    \/ r = [q EXCEPT !.step = s, !.picked = v] \/ r = [q EXCEPT !.picked = v, !.step = s]
Begun(q, v, s, r) == r = [q EXCEPT !.since = v, !.step = s]
Given(q, v, s, r) == r = [q EXCEPT !.list = v, !.step = s]

LEMMA StepOnly ==
  ASSUME NEW q, Whole(q), NEW s, NEW e, e = [q EXCEPT !.step = s]
  PROVE  Whole(e) /\ e.step = s /\ e.since = q.since /\ e.list = q.list
BY DEF Whole

LEMMA RoleOnly ==
  ASSUME NEW q, Whole(q), NEW v, NEW e, e = [q EXCEPT !.role = v]
  PROVE  Whole(e) /\ e.step = q.step /\ e.since = q.since /\ e.list = q.list
BY DEF Whole

LEMMA PickedOnly ==
  ASSUME NEW q, Whole(q), NEW v, NEW e, e = [q EXCEPT !.picked = v]
  PROVE  Whole(e) /\ e.step = q.step /\ e.since = q.since /\ e.list = q.list
BY DEF Whole

LEMMA SinceOnly ==
  ASSUME NEW q, Whole(q), NEW v, NEW e, e = [q EXCEPT !.since = v]
  PROVE  Whole(e) /\ e.since = v /\ e.list = q.list
BY DEF Whole

LEMMA ListOnly ==
  ASSUME NEW q, Whole(q), NEW v, NEW e, e = [q EXCEPT !.list = v]
  PROVE  Whole(e) /\ e.since = q.since /\ e.list = v
BY DEF Whole

LEMMA OnwardIs ==
  ASSUME NEW q, Whole(q), NEW v, NEW s, NEW r, Onward(q, v, s, r)
  PROVE  r.step = s /\ r.since = q.since /\ r.list = q.list
<1>1. PICK e : /\ e \in {q, [q EXCEPT !.role = v], [q EXCEPT !.picked = v], [q EXCEPT !.step = s]}
               /\ \/ r = [e EXCEPT !.step = s]
                  \/ e = [q EXCEPT !.step = s] /\ r = [e EXCEPT !.picked = v]
  BY OneByOne DEF Onward
<1>2. Whole(e) /\ e.since = q.since /\ e.list = q.list
  BY <1>1, RoleOnly, PickedOnly, StepOnly
<1>3. CASE r = [e EXCEPT !.step = s]
  BY <1>2, <1>3, StepOnly
<1>4. CASE e = [q EXCEPT !.step = s] /\ r = [e EXCEPT !.picked = v]
  <2>1. e.step = s
    BY <1>4, StepOnly
  <2>. QED  BY <1>2, <1>4, <2>1, PickedOnly
<1>. QED  BY <1>1, <1>3, <1>4

LEMMA BegunIs ==
  ASSUME NEW q, Whole(q), NEW v, NEW s, NEW r, Begun(q, v, s, r)
  PROVE  r.step = s /\ r.since = v /\ r.list = q.list
<1>1. PICK e : e = [q EXCEPT !.since = v] /\ r = [e EXCEPT !.step = s]
  BY OneByOne DEF Begun
<1>2. Whole(e) /\ e.since = v /\ e.list = q.list
  BY <1>1, SinceOnly
<1>. QED  BY <1>1, <1>2, StepOnly

LEMMA GivenIs ==
  ASSUME NEW q, Whole(q), NEW v, NEW s, NEW r, Given(q, v, s, r)
  PROVE  r.step = s /\ r.since = q.since /\ r.list = v
<1>1. PICK e : e = [q EXCEPT !.list = v] /\ r = [e EXCEPT !.step = s]
  BY OneByOne DEF Given
<1>2. Whole(e) /\ e.since = q.since /\ e.list = v
  BY <1>1, ListOnly
<1>. QED  BY <1>1, <1>2, StepOnly

Goes(a, v, s) == \E r : Onward(ask[a], v, s, r) /\ ask' = [ask EXCEPT ![a] = r]

LEMMA GoesOn ==
  ASSUME AccessInv, NEW a \in Asks, Active(a), UNCHANGED <<entries, outside>>, NEW s, NEW v,
         Goes(a, v, s), s \notin {"keep", "listed"}
  PROVE  Steady(a)
<1>0. PICK r : Onward(ask[a], v, s, r) /\ ask' = [ask EXCEPT ![a] = r]
  BY DEF Goes
<1>1. Whole(ask[a]) /\ ask = [d \in Asks |-> ask[d]]
  BY DEF AccessInv, Shaped
<1>2. r.step = s /\ r.since = ask[a].since /\ r.list = ask[a].list
  BY <1>0, <1>1, OnwardIs
<1>3. ask'[a] = r /\ \A d \in Asks \ {a} : ask'[d] = ask[d]
  BY <1>0, <1>1
<1>. QED  BY <1>2, <1>3 DEF Steady, outside, github

LEMMA GoesTo ==
  ASSUME AccessInv, NEW a \in Asks, Active(a), UNCHANGED <<entries, outside>>, NEW s,
         Next_(a, s), s \notin {"keep", "listed"}
  PROVE  Steady(a)
<1>1. Goes(a, a, s)
  BY DEF Next_, Goes, Onward
<1>. QED  BY <1>1, GoesOn

LEMMA IsOver ==
  ASSUME AccessInv, NEW a \in Asks, UNCHANGED <<entries, outside>>, NEW answer, Reply(a, answer)
  PROVE  Steady(a)
<1>1. Becomes(a, "over", answer)
  BY ReplyIs DEF AccessInv
<1>. QED  BY <1>1 DEF Becomes, Steady, Active, outside, github

LEMMA SteadySteps ==
  ASSUME AccessInv, NEW a \in Asks,
         \/ ProviderFails(a) \/ ShowList(a) \/ Listed(a) \/ AskRole(a) \/ AskInstallation(a)
         \/ Reconnect(a) \/ Insert(a) \/ Disconnect(a) \/ SaveSettings(a)
         \/ SetupDeclined(a) \/ AskSelection(a) \/ RefreshFails(a) \/ Pick(a) \/ Register(a) \/ AddAll(a)
  PROVE  Steady(a)
<1>1. CASE ProviderFails(a) \/ ShowList(a) \/ SetupDeclined(a)
  BY <1>1, IsOver DEF ProviderFails, ShowList, SetupDeclined
<1>2. CASE Insert(a) \/ Disconnect(a) \/ SaveSettings(a) \/ AddAll(a)
  <2>1. UNCHANGED <<entries, outside>> /\ \E answer : Reply(a, answer)
    BY <1>2 DEF Insert, Disconnect, SaveSettings, AddAll
  <2>. QED  BY <2>1, IsOver
<1>3. CASE Listed(a)
  BY <1>3, IsOver, GoesTo DEF Listed, Active, InStep
<1>4. CASE AskRole(a)
  <2>1. UNCHANGED <<entries, outside>> /\ Active(a)
    BY <1>4 DEF AskRole, Active, InStep
  <2>2. PICK v : v = role[asked[a].user][asked[a].repo]
    OBVIOUS
  <2>3. CASE ask' = [ask EXCEPT ![a].role = v, ![a].step = "installation"]
    <3>1. Goes(a, v, "installation")
      BY <2>3 DEF Goes, Onward
    <3>. QED  BY <2>1, <3>1, GoesOn
  <2>4. CASE Next_(a, "write") \/ \E answer : Reply(a, answer)
    BY <2>1, <2>4, GoesTo, IsOver
  <2>. QED  BY <1>4, <2>2, <2>3, <2>4 DEF AskRole
<1>5. CASE AskInstallation(a) \/ AskSelection(a) \/ RefreshFails(a)
  <2>1. UNCHANGED <<entries, outside>> /\ Active(a)
    BY <1>5 DEF AskInstallation, AskSelection, RefreshFails, Active, InStep
  <2>2. Next_(a, "write") \/ Next_(a, "ask") \/ Next_(a, "pick") \/ \E answer : Reply(a, answer)
    BY <1>5 DEF AskInstallation, AskSelection, RefreshFails
  <2>. QED  BY <2>1, <2>2, GoesTo, IsOver
<1>6. CASE Reconnect(a)
  <2>1. UNCHANGED <<entries, outside>> /\ Active(a)
    BY <1>6 DEF Reconnect, Active, InStep
  <2>2. Next_(a, "insert") \/ \E answer : Reply(a, answer)
    BY <1>6 DEF Reconnect
  <2>. QED  BY <2>1, <2>2, GoesTo, IsOver
<1>7. CASE Pick(a)
  <2>1. UNCHANGED <<entries, outside>> /\ Active(a)
    BY <1>7 DEF Pick, Active, InStep
  <2>2. PICK v : v = {p \in Visible(asked[a].user) : CanConnect(role[asked[a].user][p])}
    OBVIOUS
  <2>3. CASE ask' = [ask EXCEPT ![a].step = "register", ![a].picked = v]
    <3>1. Goes(a, v, "register")
      BY <2>3 DEF Goes, Onward
    <3>. QED  BY <2>1, <3>1, GoesOn
  <2>. QED  BY <1>7, <2>1, <2>2, <2>3, IsOver DEF Pick
<1>8. CASE Register(a)
  <2>1. UNCHANGED <<entries, outside>> /\ Active(a)
    BY <1>8 DEF Register, Active, InStep
  <2>2. PICK v : v = {p \in ask[a].picked : ~repository[p].there}
    OBVIOUS
  <2>3. ask' = [ask EXCEPT ![a].picked = v, ![a].step = "addAll"]
    BY <1>8, <2>2 DEF Register
  <2>4. Goes(a, v, "addAll")
    BY <2>3 DEF Goes, Onward
  <2>. QED  BY <2>1, <2>4, GoesOn
<1>. QED  BY <1>1, <1>2, <1>3, <1>4, <1>5, <1>6, <1>7, <1>8

\* The list of one request is dated, those of the others stay so.
LEMMA DatesStay ==
  ASSUME ListInv, NEW a \in Asks, UNCHANGED <<day, installed>>, entries' \in Seq(Recent), Dated(a)',
         \A d \in Asks \ {a} : ask'[d] = ask[d]
  PROVE  ListInv'
<1>1. \A d \in Asks : Dated(d)'
  BY DEF ListInv, Dated, Active, InStep
<1>2. UNCHANGED Recent
  BY DEF Recent
<1>. QED  BY <1>1, <1>2 DEF ListInv

LEMMA BeginDates == ASSUME AccessInv, ListInv, NEW a \in Asks, Begin(a) PROVE ListInv'
<1>1. PICK s : s = IF asked[a].kind = "connect" THEN "role"
                   ELSE IF asked[a].kind = "setup" THEN "selection" ELSE "list"
  OBVIOUS
<1>2. ask' = [ask EXCEPT ![a].since = day, ![a].step = s] /\ UNCHANGED <<entries, outside>>
  BY <1>1 DEF Begin
<1>3. PICK r : Begun(ask[a], day, s, r) /\ ask' = [ask EXCEPT ![a] = r]
  BY <1>2 DEF Begun
<1>4. r.since = day /\ r.step = s
  BY <1>3, BegunIs DEF AccessInv, Shaped
<1>5. ask'[a] = r /\ \A d \in Asks \ {a} : ask'[d] = ask[d]
  BY <1>3 DEF AccessInv, Shaped
<1>6. Dated(a)'
  <2>1. UNCHANGED day /\ day \in Nat /\ s \notin {"keep", "listed"}
    BY <1>1, <1>2, AccessNumbers DEF outside, ListInv
  <2>. QED  BY <1>4, <1>5, <2>1, AccessNumbers DEF Dated, InStep
<1>. QED  BY <1>2, <1>5, <1>6, DatesStay DEF outside, github, ListInv

LEMMA AskListDates == ASSUME AccessInv, ListInv, NEW a \in Asks, AskList(a) PROVE ListInv'
<1>1. PICK v : v = [asOf |-> day, visible |-> Visible(asked[a].user)]
  OBVIOUS
<1>2. ask' = [ask EXCEPT ![a].list = v, ![a].step = "keep"] /\ UNCHANGED <<entries, outside>>
  BY <1>1 DEF AskList
<1>3. PICK r : Given(ask[a], v, "keep", r) /\ ask' = [ask EXCEPT ![a] = r]
  BY <1>2 DEF Given
<1>4. r.since = ask[a].since /\ r.step = "keep" /\ r.list = v
  BY <1>3, GivenIs DEF AccessInv, Shaped
<1>5. ask'[a] = r /\ \A d \in Asks \ {a} : ask'[d] = ask[d]
  BY <1>3 DEF AccessInv, Shaped
<1>6. v \in Lists /\ v.asOf = day
  BY <1>1 DEF Lists, ListInv, Visible
<1>7. Active(a)
  BY DEF AskList, InStep, Active
<1>8. Dated(a)'
  BY <1>2, <1>4, <1>5, <1>6, <1>7 DEF Dated, InStep, ListInv, outside
<1>. QED  BY <1>2, <1>5, <1>8, DatesStay DEF outside, github, ListInv

LEMMA KeepListDates == ASSUME AccessInv, ListInv, NEW a \in Asks, KeepList(a) PROVE ListInv'
<1>1. Next_(a, AfterListing(a)) /\ UNCHANGED <<day, installed>> /\ Active(a) /\ InStep(a, "keep")
  BY DEF KeepList, outside, github, InStep, Active
<1>2. /\ ask[a].since \in Nat /\ ask[a].since <= day /\ day <= ask[a].since + Patience /\ day \in Nat
      /\ ask[a].list \in Lists /\ ask[a].since <= ask[a].list.asOf
  BY <1>1, AccessNumbers DEF ListInv, Dated
<1>3. ask[a].list.asOf \in Nat
  BY <1>2, AccessNumbers DEF Lists
<1>4. entries' \in Seq(Recent)
  <2> DEFINE e == [key |-> asked[a].user, value |-> ask[a].list, expires |-> day + Ttl]
  <2>1. e \in Recent
    <3>1. day + Ttl \in Nat /\ day + Ttl <= ask[a].list.asOf + Ttl + Patience
      BY <1>2, <1>3, AccessNumbers
    <3>. QED  BY <1>2, <3>1, PlanIs DEF Recent
  <2>2. AfterSet(entries, asked[a].user, ask[a].list, day + Ttl, day, Limit) \in Seq(Recent)
    BY <2>1, StoreHolds, AccessNumbers DEF ListInv
  <2>. QED  BY <2>2 DEF KeepList, ListInv
<1>5. PICK r : r = [ask[a] EXCEPT !.step = AfterListing(a)] /\ ask' = [ask EXCEPT ![a] = r]
  BY <1>1 DEF Next_
<1>6. r.step = AfterListing(a) /\ r.since = ask[a].since /\ r.list = ask[a].list
  BY <1>5, StepOnly DEF AccessInv, Shaped
<1>7. ask'[a] = r /\ \A d \in Asks \ {a} : ask'[d] = ask[d]
  BY <1>5 DEF AccessInv, Shaped
<1>8. Dated(a)'
  <2>1. ask[a].since < ask[a].list.asOf + Ttl + Patience /\ AfterListing(a) # "keep"
    BY <1>2, <1>3, AccessNumbers DEF AfterListing
  <2>. QED  BY <1>1, <1>2, <1>6, <1>7, <2>1 DEF Dated, InStep
<1>. QED  BY <1>1, <1>4, <1>7, <1>8, DatesStay

LEMMA ReadCacheDates == ASSUME AccessInv, ListInv, NEW a \in Asks, ReadCache(a) PROVE ListInv'
<1> DEFINE hit == Live(entries, asked[a].user, day)
<1>1. UNCHANGED <<day, installed>> /\ Active(a) /\ entries' = AfterGet(entries, asked[a].user, day)
  BY DEF ReadCache, outside, github, InStep, Active
<1>2. /\ ask[a].since \in Nat /\ ask[a].since <= day /\ day <= ask[a].since + Patience /\ day \in Nat
  BY <1>1, AccessNumbers DEF ListInv, Dated
<1>3. entries' \in Seq(Recent) /\ hit \in Seq({e \in Recent : e.key = asked[a].user /\ day < e.expires})
  BY <1>1, StoreHolds DEF ListInv
<1>4. CASE hit # << >> /\ ask' = [ask EXCEPT ![a].list = hit[1].value, ![a].step = "listed"]
  <2>1. PICK e : e = hit[1]
    OBVIOUS
  <2>2. e \in Recent /\ day < e.expires
    <3> HIDE DEF hit
    <3>. QED  BY <1>3, <1>4, <2>1
  <2>3. e.value \in Lists /\ e.value.asOf \in Nat /\ e.expires \in Nat
        /\ e.expires <= e.value.asOf + Ttl + Patience
    BY <2>2, AccessNumbers DEF Recent, Lists
  <2>4. PICK r : Given(ask[a], e.value, "listed", r) /\ ask' = [ask EXCEPT ![a] = r]
    BY <1>4, <2>1 DEF Given
  <2>5. r.since = ask[a].since /\ r.step = "listed" /\ r.list = e.value
    BY <2>4, GivenIs DEF AccessInv, Shaped
  <2>6. ask'[a] = r /\ \A d \in Asks \ {a} : ask'[d] = ask[d]
    BY <2>4 DEF AccessInv, Shaped
  <2>7. Dated(a)'
    <3>1. ask[a].since < e.value.asOf + Ttl + Patience
      BY <1>2, <2>2, <2>3, AccessNumbers
    <3>. QED  BY <1>1, <1>2, <2>3, <2>5, <2>6, <3>1 DEF Dated, InStep
  <2>. QED  BY <1>1, <1>3, <2>6, <2>7, DatesStay
<1>5. CASE Next_(a, "ask")
  <2>1. PICK r : r = [ask[a] EXCEPT !.step = "ask"] /\ ask' = [ask EXCEPT ![a] = r]
    BY <1>5 DEF Next_
  <2>2. r.since = ask[a].since /\ r.step = "ask"
    BY <2>1, StepOnly DEF AccessInv, Shaped
  <2>3. ask'[a] = r /\ \A d \in Asks \ {a} : ask'[d] = ask[d]
    BY <2>1 DEF AccessInv, Shaped
  <2>4. Dated(a)'
    BY <1>1, <1>2, <2>2, <2>3 DEF Dated, InStep
  <2>. QED  BY <1>1, <1>3, <2>3, <2>4, DatesStay
<1>. QED  BY <1>4, <1>5 DEF ReadCache

LEMMA AskStepDates == ASSUME AccessInv, ListInv, NEW a \in Asks, AskStep(a) PROVE ListInv'
<1>1. CASE Look(a)
  BY <1>1, ReadCacheDates, AskListDates, KeepListDates DEF Look
<1>2. CASE Begin(a)
  BY <1>2, BeginDates
<1>3. CASE ~Look(a) /\ ~Begin(a)
  <2>1. \/ ProviderFails(a) \/ ShowList(a) \/ Listed(a) \/ AskRole(a) \/ AskInstallation(a)
        \/ Reconnect(a) \/ Insert(a) \/ Disconnect(a) \/ SaveSettings(a)
        \/ SetupDeclined(a) \/ AskSelection(a) \/ RefreshFails(a) \/ Pick(a) \/ Register(a) \/ AddAll(a)
    BY <1>3 DEF AskStep, ListRequest, ConnectRequest, DisconnectRequest, SaveRequest, SetupRequest, Look
  <2>. QED  BY <2>1, SteadySteps, SteadyInv
<1>. QED  BY <1>1, <1>2, <1>3

LEMMA WorldDates == ASSUME ListInv, WorldTurns PROVE ListInv'
<1>1. CASE Wait
  <2>1. day' = day + 1 /\ day < Until /\ UNCHANGED <<installed, entries, ask>>
    BY <1>1 DEF Wait, github
  <2>2. day' \in 0..Until
    BY <2>1, AccessNumbers DEF ListInv
  <2>3. ASSUME NEW a \in Asks PROVE Dated(a)'
    <3> SUFFICES ASSUME Active(a) PROVE Dated(a)'
      BY <2>1 DEF Dated, Active
    <3>1. day < ask[a].since + Patience
      BY <1>1 DEF Wait, Active
    <3>2. ask[a].since \in Nat /\ ask[a].since <= day /\ day \in Nat
      BY AccessNumbers DEF ListInv, Dated
    <3>3. ask[a].since <= day + 1 /\ day + 1 <= ask[a].since + Patience
      BY <3>1, <3>2, AccessNumbers
    <3>. QED  BY <2>1, <3>2, <3>3 DEF ListInv, Dated, InStep
  <2>4. UNCHANGED Recent
    BY DEF Recent
  <2>. QED  BY <2>1, <2>2, <2>3, <2>4 DEF ListInv
<1>2. CASE ~Wait
  <2>1. UNCHANGED <<day, entries, ask>> /\ installed' \subseteq installed \cup Repos
    BY <1>2 DEF WorldTurns, ChangeRole, ChangeInstallation
  <2>2. \A a \in Asks : Dated(a)'
    BY <2>1 DEF ListInv, Dated, Active, InStep
  <2>. QED  BY <2>1, <2>2 DEF ListInv
<1>. QED  BY <1>1, <1>2

LEMMA ListInvNext == AccessInv /\ ListInv /\ [AccessNext]_accessVars => ListInv'
<1> SUFFICES ASSUME AccessInv, ListInv, [AccessNext]_accessVars PROVE ListInv'
  OBVIOUS
<1>1. CASE UNCHANGED accessVars
  BY <1>1 DEF accessVars, ListInv, Dated, Active, InStep
<1>. QED  BY <1>1, NextTurns, AskStepDates, WorldDates

\* A list that is served is no older than the time to live and the time requests take,
\* whatever the cache drops and whoever filled it (memory.py, cached_installations.py).
THEOREM ListsAreRecent == AccessSpec => []ListIsRecent
<1>1. ListInv => ListIsRecent
  <2>1. SUFFICES ASSUME ListInv, NEW a \in Asks, InStep(a, "listed")
                 PROVE  day < ask[a].list.asOf + Ttl + 2 * Patience
    BY DEF ListIsRecent
  <2>2. /\ ask[a].since \in Nat /\ day <= ask[a].since + Patience /\ day \in Nat /\ ask[a].list \in Lists
        /\ ask[a].since < ask[a].list.asOf + Ttl + Patience
    BY <2>1, AccessNumbers DEF ListInv, Dated, Active, InStep
  <2>3. ask[a].list.asOf \in Nat
    BY <2>2, AccessNumbers DEF Lists
  <2>. QED  BY <2>2, <2>3, AccessNumbers
<1>. QED  BY <1>1, ListInvInit, ListInvNext, AccessInvHolds, PTL DEF AccessSpec

\* ---- what the cabinet asks of one repository --------------------------------

Entire(r) == r = [step |-> r.step, role |-> r.role, commit |-> r.commit, reply |-> r.reply, of |-> r.of]
Arranged == reader = [a \in Readers |-> reader[a]] /\ \A a \in Readers : Entire(reader[a])
\* What a cache holds is what the commit holds, or the application was off.
TrueRules == {e \in [key : Commits, value : Texts, expires : Nat] :
                 e.value = tree[e.key] \/ (e.value = "absent" /\ lapsed)}
TrueDiffs == {e \in [key : OldRuns, value : OldRuns, expires : Nat] : e.value = e.key /\ extent[e.key] = "small"}
\* A request where r stands has met what its next steps take for granted.
Fits(a, r, facts, heads, off) ==
    /\ r.step \in {"branch", "file"} => Does(a, "rules")
    /\ r.step = "diff" => Does(a, "diff")
    /\ r.step \in {"role", "record", "pull", "find", "insert", "enqueue"} => Does(a, "launch")
    /\ r.step \in {"list", "cache"} => ~Does(a, "launch")
    /\ Does(a, "rules") /\ r.step \in {"cache", "file", "keep"} => r.commit \in Commits /\ tree[r.commit] \in facts
    /\ Does(a, "rules") /\ r.step = "keep" => r.reply = tree[r.commit] \/ (r.reply = "absent" /\ off)
    /\ Does(a, "diff") /\ r.step = "keep" => r.of = errand[a].run /\ extent[errand[a].run] = "small"
    /\ r.step = "record" => r.role \in facts \cap {"reader", "writer"}
    /\ Does(a, "launch") /\ r.step \in {"installation", "pull", "find", "insert", "enqueue"}
          => {"writer", "connected"} \subseteq facts
    /\ r.step \in {"pull", "find", "insert", "enqueue"} => "on" \in facts
    /\ r.step \in {"find", "insert", "enqueue"} => "open" \in facts /\ r.commit \in heads
CabinetInv ==
    /\ Arranged /\ errand \in Errands /\ tree \in Trees /\ extent \in Sizes
    /\ tip \in Commits /\ today \in Nat /\ (app = "off" => lapsed) /\ app \in {"on", "off"}
    /\ rules \in Seq(TrueRules) /\ diffs \in Seq(TrueDiffs)
    /\ \A a \in Readers : Fits(a, reader[a], met[a].facts, met[a].heads, lapsed)

\* What a request has met by now.
Seen(a) == met[a].facts \cup FactsFor(a)
SeenHeads(a) == met[a].heads \cup {head}
\* The step of a request: it goes on knowing enough, or its reply is right.
Advances(a) ==
    /\ Arranged' /\ \A d \in Readers \ {a} : reader'[d] = reader[d]
    /\ Fits(a, reader'[a], Seen(a), SeenHeads(a), lapsed)
    /\ reader'[a].step = "over" => Right(a, reader'[a].reply, reader'[a].of, Seen(a), SeenHeads(a))
Stores == UNCHANGED <<errand, tree, extent, tip, today>> /\ rules' \in Seq(TrueRules) /\ diffs' \in Seq(TrueDiffs)

\* r is in step s with those fields.
Now(r, s, ro, c, w, o) == Entire(r) /\ r.step = s /\ r.role = ro /\ r.commit = c /\ r.reply = w /\ r.of = o

LEMMA StepChanges ==
  ASSUME NEW q, Entire(q), NEW v, NEW e, e = [q EXCEPT !.step = v]
  PROVE  Now(e, v, q.role, q.commit, q.reply, q.of)
BY DEF Entire, Now

LEMMA RoleChangesOnly ==
  ASSUME NEW q, Entire(q), NEW v, NEW e, e = [q EXCEPT !.role = v]
  PROVE  Now(e, q.step, v, q.commit, q.reply, q.of)
BY DEF Entire, Now

LEMMA CommitChanges ==
  ASSUME NEW q, Entire(q), NEW v, NEW e, e = [q EXCEPT !.commit = v]
  PROVE  Now(e, q.step, q.role, v, q.reply, q.of)
BY DEF Entire, Now

LEMMA ReplyChanges ==
  ASSUME NEW q, Entire(q), NEW v, NEW e, e = [q EXCEPT !.reply = v]
  PROVE  Now(e, q.step, q.role, q.commit, v, q.of)
BY DEF Entire, Now

LEMMA OfChanges ==
  ASSUME NEW q, Entire(q), NEW v, NEW e, e = [q EXCEPT !.of = v]
  PROVE  Now(e, q.step, q.role, q.commit, q.reply, v)
BY DEF Entire, Now

LEMMA StepByStep ==
  ASSUME NEW q, Entire(q), NEW v, NEW s, NEW w
  PROVE  /\ [q EXCEPT !.step = s, !.commit = v] = [[q EXCEPT !.step = s] EXCEPT !.commit = v]
         /\ [q EXCEPT !.step = s, !.reply = v] = [[q EXCEPT !.step = s] EXCEPT !.reply = v]
         /\ [q EXCEPT !.step = s, !.of = v] = [[q EXCEPT !.step = s] EXCEPT !.of = v]
         /\ [q EXCEPT !.step = s, !.role = v] = [[q EXCEPT !.step = s] EXCEPT !.role = v]
         /\ [q EXCEPT !.step = s, !.reply = v, !.of = w] = [[[q EXCEPT !.step = s] EXCEPT !.reply = v] EXCEPT !.of = w]
OBVIOUS

\* The forms of a step of a request, each one a record.
WithCommit(q, s, v, r) == r = [q EXCEPT !.step = s, !.commit = v]
WithReply(q, s, v, r) == r = [q EXCEPT !.step = s, !.reply = v]
WithRun(q, s, v, r) == r = [q EXCEPT !.step = s, !.of = v]
WithRole(q, s, v, r) == r = [q EXCEPT !.step = s, !.role = v]
WithBoth(q, s, v, w, r) == r = [q EXCEPT !.step = s, !.reply = v, !.of = w]

LEMMA WithCommitIs ==
  ASSUME NEW q, Entire(q), NEW s, NEW v, NEW r, WithCommit(q, s, v, r)
  PROVE  Now(r, s, q.role, v, q.reply, q.of)
<1>1. PICK e : e = [q EXCEPT !.step = s] /\ r = [e EXCEPT !.commit = v]
  BY StepByStep DEF WithCommit
<1>2. Now(e, s, q.role, q.commit, q.reply, q.of)
  BY <1>1, StepChanges
<1>3. /\ Entire(e) /\ e.step = s /\ e.role = q.role
      /\ e.commit = q.commit /\ e.reply = q.reply /\ e.of = q.of
  BY <1>2 DEF Now
<1>4. Now(r, e.step, e.role, v, e.reply, e.of)
  BY <1>1, <1>3, CommitChanges
<1>. QED  BY <1>3, <1>4

LEMMA WithReplyIs ==
  ASSUME NEW q, Entire(q), NEW s, NEW v, NEW r, WithReply(q, s, v, r)
  PROVE  Now(r, s, q.role, q.commit, v, q.of)
<1>1. PICK e : e = [q EXCEPT !.step = s] /\ r = [e EXCEPT !.reply = v]
  BY StepByStep DEF WithReply
<1>2. Now(e, s, q.role, q.commit, q.reply, q.of)
  BY <1>1, StepChanges
<1>3. /\ Entire(e) /\ e.step = s /\ e.role = q.role
      /\ e.commit = q.commit /\ e.reply = q.reply /\ e.of = q.of
  BY <1>2 DEF Now
<1>4. Now(r, e.step, e.role, e.commit, v, e.of)
  BY <1>1, <1>3, ReplyChanges
<1>. QED  BY <1>3, <1>4

LEMMA WithRunIs ==
  ASSUME NEW q, Entire(q), NEW s, NEW v, NEW r, WithRun(q, s, v, r)
  PROVE  Now(r, s, q.role, q.commit, q.reply, v)
<1>1. PICK e : e = [q EXCEPT !.step = s] /\ r = [e EXCEPT !.of = v]
  BY StepByStep DEF WithRun
<1>2. Now(e, s, q.role, q.commit, q.reply, q.of)
  BY <1>1, StepChanges
<1>3. /\ Entire(e) /\ e.step = s /\ e.role = q.role
      /\ e.commit = q.commit /\ e.reply = q.reply /\ e.of = q.of
  BY <1>2 DEF Now
<1>4. Now(r, e.step, e.role, e.commit, e.reply, v)
  BY <1>1, <1>3, OfChanges
<1>. QED  BY <1>3, <1>4

LEMMA WithRoleIs ==
  ASSUME NEW q, Entire(q), NEW s, NEW v, NEW r, WithRole(q, s, v, r)
  PROVE  Now(r, s, v, q.commit, q.reply, q.of)
<1>1. PICK e : e = [q EXCEPT !.step = s] /\ r = [e EXCEPT !.role = v]
  BY StepByStep DEF WithRole
<1>2. Now(e, s, q.role, q.commit, q.reply, q.of)
  BY <1>1, StepChanges
<1>3. /\ Entire(e) /\ e.step = s /\ e.role = q.role
      /\ e.commit = q.commit /\ e.reply = q.reply /\ e.of = q.of
  BY <1>2 DEF Now
<1>4. Now(r, e.step, v, e.commit, e.reply, e.of)
  BY <1>1, <1>3, RoleChangesOnly
<1>. QED  BY <1>3, <1>4

LEMMA WithBothIs ==
  ASSUME NEW q, Entire(q), NEW s, NEW v, NEW w, NEW r, WithBoth(q, s, v, w, r)
  PROVE  Now(r, s, q.role, q.commit, v, w)
<1>1. PICK e : e = [q EXCEPT !.step = s] /\ r = [[e EXCEPT !.reply = v] EXCEPT !.of = w]
  BY StepByStep DEF WithBoth
<1>2. PICK f : f = [e EXCEPT !.reply = v] /\ r = [f EXCEPT !.of = w]
  BY <1>1
<1>3. Now(e, s, q.role, q.commit, q.reply, q.of)
  BY <1>1, StepChanges
<1>4. /\ Entire(e) /\ e.step = s /\ e.role = q.role /\ e.commit = q.commit /\ e.of = q.of
  BY <1>3 DEF Now
<1>5. Now(f, e.step, e.role, e.commit, v, e.of)
  BY <1>2, <1>4, ReplyChanges
<1>6. /\ Entire(f) /\ f.step = s /\ f.role = q.role /\ f.commit = q.commit /\ f.reply = v
  BY <1>4, <1>5 DEF Now
<1>7. Now(r, f.step, f.role, f.commit, f.reply, w)
  BY <1>2, <1>6, OfChanges
<1>. QED  BY <1>6, <1>7

\* The reader's record becomes r and no other changes.
LEMMA ReaderIs ==
  ASSUME Arranged, NEW a \in Readers, NEW r, Entire(r), reader' = [reader EXCEPT ![a] = r]
  PROVE  Arranged' /\ reader'[a] = r /\ \A d \in Readers \ {a} : reader'[d] = reader[d]
<1>1. reader' = [x \in Readers |-> IF x = a THEN r ELSE reader[x]]
  BY DEF Arranged
<1>. QED  BY <1>1 DEF Arranged

Rearranged(a, s, ro, c, w, o) ==
    Arranged' /\ (\A d \in Readers \ {a} : reader'[d] = reader[d]) /\ Now(reader'[a], s, ro, c, w, o)

LEMMA GoToIs ==
  ASSUME Arranged, NEW a \in Readers, NEW s, GoTo(a, s)
  PROVE  Rearranged(a, s, reader[a].role, reader[a].commit, reader[a].reply, reader[a].of)
<1>1. PICK r : r = [reader[a] EXCEPT !.step = s] /\ reader' = [reader EXCEPT ![a] = r]
  BY DEF GoTo
<1>2. Now(r, s, reader[a].role, reader[a].commit, reader[a].reply, reader[a].of)
  BY <1>1, StepChanges DEF Arranged
<1>. QED  BY <1>1, <1>2, ReaderIs DEF Rearranged, Now

LEMMA SayIs ==
  ASSUME Arranged, NEW a \in Readers, NEW word, Say(a, word)
  PROVE  Rearranged(a, "over", reader[a].role, reader[a].commit, word, reader[a].of)
<1>1. PICK r : WithReply(reader[a], "over", word, r) /\ reader' = [reader EXCEPT ![a] = r]
  BY DEF Say, WithReply
<1>2. Now(r, "over", reader[a].role, reader[a].commit, word, reader[a].of)
  BY <1>1, WithReplyIs DEF Arranged
<1>. QED  BY <1>1, <1>2, ReaderIs DEF Rearranged, Now

LEMMA HoldingIs ==
  ASSUME Arranged, NEW a \in Readers, NEW word, Holding(a, word)
  PROVE  Rearranged(a, "keep", reader[a].role, reader[a].commit, word, reader[a].of)
<1>1. PICK r : WithReply(reader[a], "keep", word, r) /\ reader' = [reader EXCEPT ![a] = r]
  BY DEF Holding, WithReply
<1>2. Now(r, "keep", reader[a].role, reader[a].commit, word, reader[a].of)
  BY <1>1, WithReplyIs DEF Arranged
<1>. QED  BY <1>1, <1>2, ReaderIs DEF Rearranged, Now

LEMMA ShowIs ==
  ASSUME Arranged, NEW a \in Readers, NEW run, Show(a, run)
  PROVE  Rearranged(a, "over", reader[a].role, reader[a].commit, "shown", run)
<1>1. PICK r : WithBoth(reader[a], "over", "shown", run, r) /\ reader' = [reader EXCEPT ![a] = r]
  BY DEF Show, WithBoth
<1>2. Now(r, "over", reader[a].role, reader[a].commit, "shown", run)
  BY <1>1, WithBothIs DEF Arranged
<1>. QED  BY <1>1, <1>2, ReaderIs DEF Rearranged, Now

LEMMA WhatIsSeen ==
  ASSUME NEW a \in Readers
  PROVE  /\ {tree[tip], standing, app, pr, SeenBy(standing)} \subseteq Seen(a) /\ head \in SeenHeads(a)
         /\ met[a].facts \subseteq Seen(a) /\ met[a].heads \subseteq SeenHeads(a)
         /\ (IF connected THEN "connected" ELSE "disconnected") \in Seen(a)
         /\ reader[a].commit \in active => "active" \in Seen(a)
         /\ Does(a, "diff") => extent[errand[a].run] \in Seen(a)
         /\ Does(a, "diff") /\ errand[a].run \in lost => "lost" \in Seen(a)
BY DEF Seen, SeenHeads, FactsFor

LEMMA ErrandIs ==
  ASSUME CabinetInv, NEW a \in Readers
  PROVE  /\ errand[a].run \in OldRuns /\ extent[errand[a].run] \in Extents
         /\ \A c \in Commits : tree[c] \in Texts
         /\ ~Does(a, "rules") /\ ~Does(a, "diff") => Does(a, "launch")
         /\ ~(Does(a, "rules") /\ Does(a, "diff")) /\ ~(Does(a, "rules") /\ Does(a, "launch"))
         /\ ~(Does(a, "diff") /\ Does(a, "launch"))
         /\ Arranged /\ Fits(a, reader[a], met[a].facts, met[a].heads, lapsed)
BY CabinetAssumption DEF CabinetInv, Does

\* More that was met does no harm.
LEMMA FitsMore ==
  ASSUME NEW a \in Readers, NEW r, NEW f, NEW g, f \subseteq g, NEW h, NEW k, h \subseteq k,
         NEW o, NEW u, o => u, Fits(a, r, f, h, o)
  PROVE  Fits(a, r, g, k, u)
BY DEF Fits

\* Nothing is claimed by these words.
LEMMA Harmless ==
  ASSUME NEW a \in Readers, NEW word, word \in {"scm", "unavailable", "noBase", "failed"}, NEW of, NEW f, NEW h
  PROVE  Right(a, word, of, f, h)
BY DEF Right

LEMMA RepliesRightly ==
  ASSUME CabinetInv, NEW a \in Readers, NEW word, Say(a, word),
         Right(a, word, reader[a].of, Seen(a), SeenHeads(a))
  PROVE  Advances(a)
<1>1. Rearranged(a, "over", reader[a].role, reader[a].commit, word, reader[a].of)
  BY SayIs DEF CabinetInv
<1>. QED  BY <1>1 DEF Rearranged, Now, Advances, Fits

\* The request may be in step s, as it is otherwise.
May(a, s) == \A r : Now(r, s, reader[a].role, reader[a].commit, reader[a].reply, reader[a].of)
                       => Fits(a, r, Seen(a), SeenHeads(a), lapsed)

LEMMA MovesRightly ==
  ASSUME CabinetInv, NEW a \in Readers, NEW s, GoTo(a, s), s # "over", May(a, s)
  PROVE  Advances(a)
<1>1. Rearranged(a, s, reader[a].role, reader[a].commit, reader[a].reply, reader[a].of)
  BY GoToIs DEF CabinetInv
<1>2. reader'[a].step = s /\ Fits(a, reader'[a], Seen(a), SeenHeads(a), lapsed)
  BY <1>1 DEF Rearranged, Now, May
<1>. QED  BY <1>1, <1>2 DEF Rearranged, Advances

LEMMA StandStill == ASSUME CabinetInv, UNCHANGED <<errand, tree, extent, tip, today, rules, diffs>> PROVE Stores
BY DEF Stores, CabinetInv

LEMMA ComeAdvances == ASSUME CabinetInv, NEW a \in Readers, Come(a) PROVE Advances(a) /\ Stores
<1>1. GoTo(a, IF Does(a, "launch") THEN "role" ELSE "list")
      /\ UNCHANGED <<errand, tree, extent, tip, today, rules, diffs>>
  BY DEF Come, hosting, caches
<1>2. CASE Does(a, "launch")
  <2>1. May(a, "role")
    BY <1>2 DEF May, Now, Fits
  <2>. QED  BY <1>1, <1>2, <2>1, MovesRightly, StandStill
<1>3. CASE ~Does(a, "launch")
  <2>1. May(a, "list")
    BY <1>3 DEF May, Now, Fits
  <2>. QED  BY <1>1, <1>3, <2>1, MovesRightly, StandStill
<1>. QED  BY <1>2, <1>3

LEMMA AdmitAdvances ==
  ASSUME CabinetInv, NEW a \in Readers, Stands(a, "list"), NEW view, Admit(a, view)
  PROVE  Advances(a)
<1>1. ~Does(a, "launch")
  BY ErrandIs DEF Stands, Fits
<1>2. CASE Say(a, "notFound")
  BY <1>1, <1>2, RepliesRightly DEF Right
<1>3. CASE Say(a, "noBase")
  BY <1>3, Harmless, RepliesRightly
<1>4. CASE GoTo(a, AfterList(a)) /\ AfterList(a) # "noBase"
  <2>1. CASE Does(a, "rules")
    <3>1. AfterList(a) = "installation"
      BY <2>1 DEF AfterList
    <3>2. May(a, "installation")
      BY <1>1 DEF May, Now, Fits
    <3>. QED  BY <1>4, <3>1, <3>2, MovesRightly
  <2>2. CASE ~Does(a, "rules")
    <3>1. AfterList(a) = "cache"
      BY <1>4, <2>2 DEF AfterList
    <3>2. May(a, "cache")
      BY <1>1, <2>2 DEF May, Now, Fits
    <3>. QED  BY <1>4, <3>1, <3>2, MovesRightly
  <2>. QED  BY <2>1, <2>2
<1>. QED  BY <1>2, <1>3, <1>4 DEF Admit

LEMMA ListAdvances ==
  ASSUME CabinetInv, NEW a \in Readers, ListFromCache(a) \/ ListFromGitHub(a) \/ ListFails(a)
  PROVE  Advances(a) /\ Stores
<1>1. Stands(a, "list") /\ UNCHANGED <<errand, tree, extent, tip, today, rules, diffs>>
  BY DEF ListFromCache, ListFromGitHub, ListFails, hosting, caches
<1>2. CASE Say(a, "scm")
  BY <1>1, <1>2, Harmless, RepliesRightly, StandStill
<1>3. CASE \E view : Admit(a, view)
  BY <1>1, <1>3, AdmitAdvances, StandStill
<1>. QED  BY <1>2, <1>3 DEF ListFromCache, ListFromGitHub, ListFails

LEMMA AskAppAdvances == ASSUME CabinetInv, NEW a \in Readers, AskApp(a) PROVE Advances(a) /\ Stores
<1>1. Stands(a, "installation") /\ UNCHANGED <<errand, tree, extent, tip, today, rules, diffs>>
  BY DEF AskApp, hosting, caches
<1>2. CASE app = "off" /\ Say(a, "notInstalled")
  <2>1. "off" \in Seen(a)
    BY <1>2, WhatIsSeen
  <2>2. Right(a, "notInstalled", reader[a].of, Seen(a), SeenHeads(a))
    BY <2>1 DEF Right
  <2>. QED  BY <1>1, <1>2, <2>2, RepliesRightly, StandStill
<1>3. CASE Say(a, Failure(a))
  <2>1. Failure(a) \in {"scm", "unavailable"}
    BY DEF Failure
  <2>. QED  BY <1>1, <1>3, <2>1, Harmless, RepliesRightly, StandStill
<1>4. CASE app = "on" /\ GoTo(a, AfterInstallation(a))
  <2>1. "on" \in Seen(a) /\ met[a].facts \subseteq Seen(a)
    BY <1>4, WhatIsSeen
  <2>2. CASE Does(a, "rules")
    <3>1. AfterInstallation(a) = "branch"
      BY <2>2 DEF AfterInstallation
    <3>2. May(a, "branch")
      BY <2>2 DEF May, Now, Fits
    <3>. QED  BY <1>1, <1>4, <3>1, <3>2, MovesRightly, StandStill
  <2>3. CASE Does(a, "diff")
    <3>1. AfterInstallation(a) = "diff"
      BY <2>3, ErrandIs DEF AfterInstallation
    <3>2. May(a, "diff")
      BY <2>3 DEF May, Now, Fits
    <3>. QED  BY <1>1, <1>4, <3>1, <3>2, MovesRightly, StandStill
  <2>4. CASE ~Does(a, "rules") /\ ~Does(a, "diff")
    <3>1. AfterInstallation(a) = "pull" /\ Does(a, "launch")
      BY <2>4, ErrandIs DEF AfterInstallation
    <3>2. {"writer", "connected"} \subseteq Seen(a)
      BY <1>1, <2>1, <3>1, ErrandIs DEF Fits, Stands
    <3>3. May(a, "pull")
      BY <2>1, <3>1, <3>2 DEF May, Now, Fits
    <3>. QED  BY <1>1, <1>4, <3>1, <3>3, MovesRightly, StandStill
  <2>. QED  BY <2>2, <2>3, <2>4
<1>. QED  BY <1>2, <1>3, <1>4 DEF AskApp

\* A request comes to another step with what it has learnt.
LEMMA LearnsRightly ==
  ASSUME CabinetInv, NEW a \in Readers, NEW s, NEW ro, NEW c, NEW w, NEW o, Rearranged(a, s, ro, c, w, o),
         s # "over", \A r : Now(r, s, ro, c, w, o) => Fits(a, r, Seen(a), SeenHeads(a), lapsed)
  PROVE  Advances(a)
<1>1. reader'[a].step = s /\ Fits(a, reader'[a], Seen(a), SeenHeads(a), lapsed)
  BY DEF Rearranged, Now
<1>. QED  BY <1>1 DEF Rearranged, Advances

\* What stays in a store is true; what is put must be.
LEMMA StoresAreTrue ==
  ASSUME CabinetInv, NEW key
  PROVE  /\ AfterGet(rules, key, today) \in Seq(TrueRules) /\ AfterGet(diffs, key, today) \in Seq(TrueDiffs)
         /\ Live(rules, key, today) \in Seq({e \in TrueRules : e.key = key /\ today < e.expires})
         /\ Live(diffs, key, today) \in Seq({e \in TrueDiffs : e.key = key /\ today < e.expires})
         /\ \A value, expires : [key |-> key, value |-> value, expires |-> expires] \in TrueRules
               => AfterSet(rules, key, value, expires, today, Room) \in Seq(TrueRules)
         /\ \A value, expires : [key |-> key, value |-> value, expires |-> expires] \in TrueDiffs
               => AfterSet(diffs, key, value, expires, today, Room) \in Seq(TrueDiffs)
<1>1. rules \in Seq(TrueRules) /\ diffs \in Seq(TrueDiffs) /\ Room \in Nat
  BY CabinetAssumption DEF CabinetInv
<1>2. ASSUME NEW T, NEW es, es \in Seq(T)
      PROVE  /\ AfterGet(es, key, today) \in Seq(T)
             /\ Live(es, key, today) \in Seq({e \in T : e.key = key /\ today < e.expires})
             /\ \A value, expires : [key |-> key, value |-> value, expires |-> expires] \in T
                   => AfterSet(es, key, value, expires, today, Room) \in Seq(T)
  <2>1. AfterGet(es, key, today) \in Seq(T)
        /\ Live(es, key, today) \in Seq({e \in T : e.key = key /\ today < e.expires})
    BY <1>2, StoreHolds
  <2>2. ASSUME NEW value, NEW expires, [key |-> key, value |-> value, expires |-> expires] \in T
        PROVE  AfterSet(es, key, value, expires, today, Room) \in Seq(T)
    BY <1>1, <1>2, <2>2, StoreHolds
  <2>. QED  BY <2>1, <2>2
<1>. QED  BY <1>1, <1>2

LEMMA ResolveBranchAdvances == ASSUME CabinetInv, NEW a \in Readers, ResolveBranch(a) PROVE Advances(a) /\ Stores
<1>1. Stands(a, "branch") /\ UNCHANGED <<errand, tree, extent, tip, today, rules, diffs>>
  BY DEF ResolveBranch, hosting, caches
<1>2. CASE Say(a, "unavailable")
  BY <1>1, <1>2, Harmless, RepliesRightly, StandStill
<1>3. CASE reader' = [reader EXCEPT ![a].step = "cache", ![a].commit = tip]
  <2>1. PICK r : WithCommit(reader[a], "cache", tip, r) /\ reader' = [reader EXCEPT ![a] = r]
    BY <1>3 DEF WithCommit
  <2>2. Now(r, "cache", reader[a].role, tip, reader[a].reply, reader[a].of) /\ Entire(r)
    BY <2>1, WithCommitIs DEF CabinetInv, Arranged, Now
  <2>3. Rearranged(a, "cache", reader[a].role, tip, reader[a].reply, reader[a].of)
    BY <2>1, <2>2, ReaderIs DEF CabinetInv, Rearranged
  <2>4. Does(a, "rules") /\ ~Does(a, "launch") /\ tip \in Commits /\ tree[tip] \in Seen(a)
    BY <1>1, ErrandIs, WhatIsSeen DEF Fits, Stands, CabinetInv
  <2>5. ASSUME NEW x, Now(x, "cache", reader[a].role, tip, reader[a].reply, reader[a].of)
        PROVE  Fits(a, x, Seen(a), SeenHeads(a), lapsed)
    BY <2>4, <2>5 DEF Now, Fits
  <2>6. Advances(a)
    BY <2>3, <2>5, LearnsRightly
  <2>. QED  BY <1>1, <2>6, StandStill
<1>. QED  BY <1>2, <1>3 DEF ResolveBranch

\* What is known of the rules of a commit may be told.
LEMMA RulesAreRight ==
  ASSUME CabinetInv, NEW a \in Readers, reader[a].commit \in Commits, tree[reader[a].commit] \in met[a].facts,
         NEW word, word = tree[reader[a].commit] \/ (word = "absent" /\ lapsed), NEW of
  PROVE  Right(a, word, of, Seen(a), SeenHeads(a))
<1>1. word \in Texts /\ (word \in Seen(a) \/ (word = "absent" /\ lapsed))
  BY ErrandIs, WhatIsSeen DEF Texts
<1>. QED  BY <1>1 DEF Right, Texts

LEMMA ReadRulesAdvances == ASSUME CabinetInv, NEW a \in Readers, ReadRules(a) PROVE Advances(a) /\ Stores
<1> DEFINE hit == Live(rules, reader[a].commit, today)
<1>1. /\ Stands(a, "cache") /\ Does(a, "rules") /\ UNCHANGED <<errand, tree, extent, tip, today, diffs>>
      /\ rules' = AfterGet(rules, reader[a].commit, today)
  BY DEF ReadRules, hosting, caches
<1>2. Stores
  BY <1>1, StoresAreTrue DEF Stores, CabinetInv
<1>3. reader[a].commit \in Commits /\ tree[reader[a].commit] \in met[a].facts
  BY <1>1, ErrandIs DEF Fits, Stands
<1>4. CASE hit # << >> /\ Say(a, hit[1].value)
  <2>1. hit \in Seq({e \in TrueRules : e.key = reader[a].commit /\ today < e.expires})
    BY StoresAreTrue
  <2>2. PICK e : e = hit[1]
    OBVIOUS
  <2>3. e \in TrueRules /\ e.key = reader[a].commit
    <3> HIDE DEF hit
    <3>. QED  BY <1>4, <2>1, <2>2
  <2>4. e.value = tree[reader[a].commit] \/ (e.value = "absent" /\ lapsed)
    BY <2>3 DEF TrueRules
  <2>5. Right(a, e.value, reader[a].of, Seen(a), SeenHeads(a))
    BY <1>3, <2>4, RulesAreRight
  <2>6. Say(a, e.value)
    BY <1>4, <2>2
  <2>. QED  BY <1>2, <2>5, <2>6, RepliesRightly
<1>5. CASE GoTo(a, "file")
  <2>1. May(a, "file")
    BY <1>1, <1>3, WhatIsSeen DEF May, Now, Fits
  <2>. QED  BY <1>2, <1>5, <2>1, MovesRightly
<1>. QED  BY <1>4, <1>5 DEF ReadRules

LEMMA FetchRulesAdvances == ASSUME CabinetInv, NEW a \in Readers, FetchRules(a) PROVE Advances(a) /\ Stores
<1>1. Stands(a, "file") /\ UNCHANGED <<errand, tree, extent, tip, today, rules, diffs>>
  BY DEF FetchRules, hosting, caches
<1>2. /\ Does(a, "rules") /\ ~Does(a, "launch") /\ ~Does(a, "diff")
      /\ reader[a].commit \in Commits /\ tree[reader[a].commit] \in Seen(a)
  BY <1>1, ErrandIs, WhatIsSeen DEF Fits, Stands
<1>3. CASE Say(a, "unavailable")
  BY <1>1, <1>3, Harmless, RepliesRightly, StandStill
<1>4. CASE \/ app = "on" /\ Holding(a, tree[reader[a].commit])
           \/ app = "off" /\ Holding(a, "absent")
  <2>1. PICK word : Holding(a, word) /\ (word = tree[reader[a].commit] \/ (word = "absent" /\ lapsed))
    BY <1>4 DEF CabinetInv
  <2>2. Rearranged(a, "keep", reader[a].role, reader[a].commit, word, reader[a].of)
    BY <2>1, HoldingIs DEF CabinetInv
  <2>3. ASSUME NEW x, Now(x, "keep", reader[a].role, reader[a].commit, word, reader[a].of)
        PROVE  Fits(a, x, Seen(a), SeenHeads(a), lapsed)
    BY <1>2, <2>1, <2>3 DEF Now, Fits
  <2>4. Advances(a)
    BY <2>2, <2>3, LearnsRightly
  <2>. QED  BY <1>1, <2>4, StandStill
<1>. QED  BY <1>3, <1>4 DEF FetchRules

LEMMA KeepRulesAdvances == ASSUME CabinetInv, NEW a \in Readers, KeepRules(a) PROVE Advances(a) /\ Stores
<1>1. /\ Stands(a, "keep") /\ Does(a, "rules") /\ UNCHANGED <<errand, tree, extent, tip, today, diffs>>
      /\ Say(a, reader[a].reply)
      /\ rules' \in {rules, AfterSet(rules, reader[a].commit, reader[a].reply, today + KeepFor, today, Room)}
  BY DEF KeepRules, hosting, caches
<1>2. /\ reader[a].commit \in Commits /\ tree[reader[a].commit] \in met[a].facts
      /\ reader[a].reply = tree[reader[a].commit] \/ (reader[a].reply = "absent" /\ lapsed)
  BY <1>1, ErrandIs DEF Fits, Stands
<1>3. Stores
  <2>1. today + KeepFor \in Nat /\ reader[a].reply \in Texts
    BY <1>2, ErrandIs, CabinetAssumption DEF CabinetInv, Texts
  <2>2. [key |-> reader[a].commit, value |-> reader[a].reply, expires |-> today + KeepFor] \in TrueRules
    BY <1>2, <2>1 DEF TrueRules
  <2>. QED  BY <1>1, <2>2, StoresAreTrue DEF Stores, CabinetInv
<1>. QED  BY <1>1, <1>2, <1>3, RulesAreRight, RepliesRightly

\* The small diff of the run may be shown.
LEMMA ShowsRightly ==
  ASSUME CabinetInv, NEW a \in Readers, Does(a, "diff"), extent[errand[a].run] = "small", Show(a, errand[a].run)
  PROVE  Advances(a)
<1>1. Rearranged(a, "over", reader[a].role, reader[a].commit, "shown", errand[a].run)
  BY ShowIs DEF CabinetInv
<1>2. "small" \in Seen(a)
  BY WhatIsSeen
<1>3. Right(a, "shown", errand[a].run, Seen(a), SeenHeads(a))
  BY <1>2 DEF Right
<1>. QED  BY <1>1, <1>3 DEF Rearranged, Now, Advances, Fits

LEMMA ReadDiffAdvances == ASSUME CabinetInv, NEW a \in Readers, ReadDiff(a) PROVE Advances(a) /\ Stores
<1> DEFINE hit == Live(diffs, errand[a].run, today)
<1>1. /\ Stands(a, "cache") /\ Does(a, "diff") /\ UNCHANGED <<errand, tree, extent, tip, today, rules>>
      /\ diffs' = AfterGet(diffs, errand[a].run, today)
  BY DEF ReadDiff, hosting, caches
<1>2. Stores
  BY <1>1, StoresAreTrue DEF Stores, CabinetInv
<1>3. CASE hit # << >> /\ Show(a, hit[1].value)
  <2>1. hit \in Seq({e \in TrueDiffs : e.key = errand[a].run /\ today < e.expires})
    BY StoresAreTrue
  <2>2. PICK e : e = hit[1]
    OBVIOUS
  <2>3. e \in TrueDiffs /\ e.key = errand[a].run
    <3> HIDE DEF hit
    <3>. QED  BY <1>3, <2>1, <2>2
  <2>4. e.value = errand[a].run /\ extent[errand[a].run] = "small"
    BY <2>3 DEF TrueDiffs
  <2>. QED  BY <1>1, <1>2, <1>3, <2>2, <2>4, ShowsRightly
<1>4. CASE GoTo(a, "installation")
  <2>1. May(a, "installation")
    BY <1>1, ErrandIs DEF May, Now, Fits
  <2>. QED  BY <1>2, <1>4, <2>1, MovesRightly
<1>. QED  BY <1>3, <1>4 DEF ReadDiff

LEMMA FetchDiffAdvances == ASSUME CabinetInv, NEW a \in Readers, FetchDiff_(a) PROVE Advances(a) /\ Stores
<1> DEFINE run == errand[a].run
<1>1. Stands(a, "diff") /\ UNCHANGED <<errand, tree, extent, tip, today, rules, diffs>>
  BY DEF FetchDiff_, hosting, caches
<1>2. Does(a, "diff") /\ ~Does(a, "launch") /\ ~Does(a, "rules")
  BY <1>1, ErrandIs DEF Fits, Stands
<1>3. CASE Say(a, "scm")
  BY <1>1, <1>3, Harmless, RepliesRightly, StandStill
<1>4. CASE (app = "off" \/ run \in lost) /\ Say(a, "gone")
  <2>1. "off" \in Seen(a) \/ "lost" \in Seen(a)
    BY <1>2, <1>4, WhatIsSeen
  <2>2. Right(a, "gone", reader[a].of, Seen(a), SeenHeads(a))
    BY <2>1 DEF Right, OneOf
  <2>. QED  BY <1>1, <1>4, <2>2, RepliesRightly, StandStill
<1>5. CASE extent[run] = "large" /\ Say(a, "tooLarge")
  <2>1. "large" \in Seen(a)
    BY <1>2, <1>5, WhatIsSeen
  <2>2. Right(a, "tooLarge", reader[a].of, Seen(a), SeenHeads(a))
    BY <2>1 DEF Right
  <2>. QED  BY <1>1, <1>5, <2>2, RepliesRightly, StandStill
<1>6. CASE extent[run] = "small" /\ reader' = [reader EXCEPT ![a].step = "keep", ![a].of = run]
  <2>1. PICK r : WithRun(reader[a], "keep", run, r) /\ reader' = [reader EXCEPT ![a] = r]
    BY <1>6 DEF WithRun
  <2>2. Now(r, "keep", reader[a].role, reader[a].commit, reader[a].reply, run) /\ Entire(r)
    BY <2>1, WithRunIs DEF CabinetInv, Arranged, Now
  <2>3. Rearranged(a, "keep", reader[a].role, reader[a].commit, reader[a].reply, run)
    BY <2>1, <2>2, ReaderIs DEF CabinetInv, Rearranged
  <2>4. ASSUME NEW x, Now(x, "keep", reader[a].role, reader[a].commit, reader[a].reply, run)
        PROVE  Fits(a, x, Seen(a), SeenHeads(a), lapsed)
    BY <1>2, <1>6, <2>4 DEF Now, Fits
  <2>5. Advances(a)
    BY <2>3, <2>4, LearnsRightly
  <2>. QED  BY <1>1, <2>5, StandStill
<1>. QED  BY <1>3, <1>4, <1>5, <1>6 DEF FetchDiff_

LEMMA KeepDiffAdvances == ASSUME CabinetInv, NEW a \in Readers, KeepDiff(a) PROVE Advances(a) /\ Stores
<1>1. /\ Stands(a, "keep") /\ Does(a, "diff") /\ UNCHANGED <<errand, tree, extent, tip, today, rules>>
      /\ Show(a, reader[a].of)
      /\ diffs' \in {diffs, AfterSet(diffs, errand[a].run, reader[a].of, today + KeepFor, today, Room)}
  BY DEF KeepDiff, hosting, caches
<1>2. reader[a].of = errand[a].run /\ extent[errand[a].run] = "small" /\ errand[a].run \in OldRuns
  BY <1>1, ErrandIs DEF Fits, Stands
<1>3. Stores
  <2>1. today + KeepFor \in Nat
    BY CabinetAssumption DEF CabinetInv
  <2>2. [key |-> errand[a].run, value |-> reader[a].of, expires |-> today + KeepFor] \in TrueDiffs
    BY <1>2, <2>1 DEF TrueDiffs
  <2>. QED  BY <1>1, <2>2, StoresAreTrue DEF Stores, CabinetInv
<1>. QED  BY <1>1, <1>2, <1>3, ShowsRightly

LEMMA AskStandingAdvances == ASSUME CabinetInv, NEW a \in Readers, AskStanding(a) PROVE Advances(a) /\ Stores
<1>1. Stands(a, "role") /\ UNCHANGED <<errand, tree, extent, tip, today, rules, diffs>>
  BY DEF AskStanding, hosting, caches
<1>2. CASE Say(a, "scm")
  BY <1>1, <1>2, Harmless, RepliesRightly, StandStill
<1>3. CASE SeenBy(standing) = "hidden" /\ Say(a, "notFound")
  <2>1. "hidden" \in Seen(a)
    BY <1>3, WhatIsSeen
  <2>2. Right(a, "notFound", reader[a].of, Seen(a), SeenHeads(a))
    BY <2>1 DEF Right, OneOf
  <2>. QED  BY <1>1, <1>3, <2>2, RepliesRightly, StandStill
<1>4. CASE /\ SeenBy(standing) = "visible"
           /\ reader' = [reader EXCEPT ![a].step = "record", ![a].role = standing]
  <2>1. PICK r : WithRole(reader[a], "record", standing, r) /\ reader' = [reader EXCEPT ![a] = r]
    BY <1>4 DEF WithRole
  <2>2. Now(r, "record", standing, reader[a].commit, reader[a].reply, reader[a].of) /\ Entire(r)
    BY <2>1, WithRoleIs DEF CabinetInv, Arranged, Now
  <2>3. Rearranged(a, "record", standing, reader[a].commit, reader[a].reply, reader[a].of)
    BY <2>1, <2>2, ReaderIs DEF CabinetInv, Rearranged
  <2>4. Does(a, "launch") /\ standing \in Seen(a) /\ standing \in {"reader", "writer"}
    BY <1>1, <1>4, ErrandIs, WhatIsSeen DEF Fits, Stands, SeenBy
  <2>5. ASSUME NEW x, Now(x, "record", standing, reader[a].commit, reader[a].reply, reader[a].of)
        PROVE  Fits(a, x, Seen(a), SeenHeads(a), lapsed)
    BY <2>4, <2>5, ErrandIs DEF Now, Fits
  <2>6. Advances(a)
    BY <2>3, <2>5, LearnsRightly
  <2>. QED  BY <1>1, <2>6, StandStill
<1>. QED  BY <1>2, <1>3, <1>4 DEF AskStanding

LEMMA CheckRecordAdvances == ASSUME CabinetInv, NEW a \in Readers, CheckRecord(a) PROVE Advances(a) /\ Stores
<1>1. Stands(a, "record") /\ UNCHANGED <<errand, tree, extent, tip, today, rules, diffs>>
  BY DEF CheckRecord, hosting, caches
<1>2. Does(a, "launch") /\ reader[a].role \in Seen(a) /\ reader[a].role \in {"reader", "writer"}
  BY <1>1, ErrandIs, WhatIsSeen DEF Fits, Stands
<1>3. CASE ~connected /\ Say(a, "notFound")
  <2>1. "disconnected" \in Seen(a)
    BY <1>3, WhatIsSeen
  <2>2. Right(a, "notFound", reader[a].of, Seen(a), SeenHeads(a))
    BY <2>1 DEF Right, OneOf
  <2>. QED  BY <1>1, <1>3, <2>2, RepliesRightly, StandStill
<1>4. CASE reader[a].role # "writer" /\ Say(a, "forbidden")
  <2>1. "reader" \in Seen(a)
    BY <1>2, <1>4
  <2>2. Right(a, "forbidden", reader[a].of, Seen(a), SeenHeads(a))
    BY <2>1 DEF Right
  <2>. QED  BY <1>1, <1>4, <2>2, RepliesRightly, StandStill
<1>5. CASE connected /\ reader[a].role = "writer" /\ GoTo(a, "installation")
  <2>1. {"writer", "connected"} \subseteq Seen(a)
    BY <1>2, <1>5, WhatIsSeen
  <2>2. May(a, "installation")
    BY <2>1 DEF May, Now, Fits
  <2>. QED  BY <1>1, <1>5, <2>2, MovesRightly, StandStill
<1>. QED  BY <1>3, <1>4, <1>5 DEF CheckRecord

LEMMA ReadPullAdvances == ASSUME CabinetInv, NEW a \in Readers, ReadPull(a) PROVE Advances(a) /\ Stores
<1>1. Stands(a, "pull") /\ UNCHANGED <<errand, tree, extent, tip, today, rules, diffs>>
  BY DEF ReadPull, hosting, caches
<1>2. {pr, app} \subseteq Seen(a) /\ head \in SeenHeads(a)
  BY WhatIsSeen
<1>3. CASE Say(a, "scm")
  BY <1>1, <1>3, Harmless, RepliesRightly, StandStill
<1>4. CASE (app = "off" \/ pr = "none") /\ Say(a, "noPull")
  <2>1. Right(a, "noPull", reader[a].of, Seen(a), SeenHeads(a))
    BY <1>2, <1>4 DEF Right, OneOf
  <2>. QED  BY <1>1, <1>4, <2>1, RepliesRightly, StandStill
<1>5. CASE pr = "closed" /\ Say(a, "notOpen")
  <2>1. Right(a, "notOpen", reader[a].of, Seen(a), SeenHeads(a))
    BY <1>2, <1>5 DEF Right
  <2>. QED  BY <1>1, <1>5, <2>1, RepliesRightly, StandStill
<1>6. CASE pr = "stranger" /\ Say(a, "untrusted")
  <2>1. Right(a, "untrusted", reader[a].of, Seen(a), SeenHeads(a))
    BY <1>2, <1>6 DEF Right
  <2>. QED  BY <1>1, <1>6, <2>1, RepliesRightly, StandStill
<1>7. CASE /\ app = "on" /\ pr = "open"
           /\ reader' = [reader EXCEPT ![a].step = "find", ![a].commit = head]
  <2>1. PICK r : WithCommit(reader[a], "find", head, r) /\ reader' = [reader EXCEPT ![a] = r]
    BY <1>7 DEF WithCommit
  <2>2. Now(r, "find", reader[a].role, head, reader[a].reply, reader[a].of) /\ Entire(r)
    BY <2>1, WithCommitIs DEF CabinetInv, Arranged, Now
  <2>3. Rearranged(a, "find", reader[a].role, head, reader[a].reply, reader[a].of)
    BY <2>1, <2>2, ReaderIs DEF CabinetInv, Rearranged
  <2>4. Does(a, "launch") /\ {"writer", "connected", "on", "open"} \subseteq Seen(a)
    BY <1>1, <1>2, <1>7, ErrandIs, WhatIsSeen DEF Fits, Stands
  <2>5. ASSUME NEW x, Now(x, "find", reader[a].role, head, reader[a].reply, reader[a].of)
        PROVE  Fits(a, x, Seen(a), SeenHeads(a), lapsed)
    BY <1>2, <2>4, <2>5 DEF Now, Fits
  <2>6. Advances(a)
    BY <2>3, <2>5, LearnsRightly
  <2>. QED  BY <1>1, <2>6, StandStill
<1>. QED  BY <1>3, <1>4, <1>5, <1>6, <1>7 DEF ReadPull

LEMMA LaunchAdvances ==
  ASSUME CabinetInv, NEW a \in Readers,
         FindActive(a) \/ InsertByHand(a) \/ EnqueueByHand(a) \/ EnqueueByHandFails(a)
  PROVE  Advances(a) /\ Stores
<1>1. /\ reader[a].step \in {"find", "insert", "enqueue"}
      /\ UNCHANGED <<errand, tree, extent, tip, today, rules, diffs>>
  BY DEF FindActive, InsertByHand, EnqueueByHand, EnqueueByHandFails, hosting, caches, Stands
<1>2. /\ Does(a, "launch") /\ {"writer", "connected", "on", "open"} \subseteq met[a].facts
      /\ reader[a].commit \in met[a].heads
  BY <1>1, ErrandIs DEF Fits
<1>3. CASE reader[a].commit \in active /\ Say(a, "alreadyActive")
  <2>1. "active" \in Seen(a)
    BY <1>3, WhatIsSeen
  <2>2. Right(a, "alreadyActive", reader[a].of, Seen(a), SeenHeads(a))
    BY <2>1 DEF Right
  <2>. QED  BY <1>1, <1>3, <2>2, RepliesRightly, StandStill
<1>4. CASE GoTo(a, "insert") \/ GoTo(a, "enqueue")
  <2>1. May(a, "insert") /\ May(a, "enqueue")
    BY <1>2, WhatIsSeen DEF May, Now, Fits
  <2>. QED  BY <1>1, <1>4, <2>1, MovesRightly, StandStill
<1>5. CASE Say(a, "accepted")
  <2>1. Right(a, "accepted", reader[a].of, Seen(a), SeenHeads(a))
    BY <1>2, WhatIsSeen DEF Right
  <2>. QED  BY <1>1, <1>5, <2>1, RepliesRightly, StandStill
<1>6. CASE Say(a, "failed")
  BY <1>1, <1>6, Harmless, RepliesRightly, StandStill
<1>. QED  BY <1>3, <1>4, <1>5, <1>6 DEF FindActive, InsertByHand, EnqueueByHand, EnqueueByHandFails

LEMMA ReaderAdvances == ASSUME CabinetInv, NEW a \in Readers, ReaderStep(a) PROVE Advances(a) /\ Stores
<1>1. CASE Come(a) \/ ListFromCache(a) \/ ListFromGitHub(a) \/ ListFails(a) \/ AskApp(a)
  BY <1>1, ComeAdvances, ListAdvances, AskAppAdvances
<1>2. CASE ResolveBranch(a) \/ ReadRules(a) \/ FetchRules(a) \/ KeepRules(a)
  BY <1>2, ResolveBranchAdvances, ReadRulesAdvances, FetchRulesAdvances, KeepRulesAdvances
<1>3. CASE ReadDiff(a) \/ FetchDiff_(a) \/ KeepDiff(a)
  BY <1>3, ReadDiffAdvances, FetchDiffAdvances, KeepDiffAdvances
<1>4. CASE AskStanding(a) \/ CheckRecord(a) \/ ReadPull(a)
  BY <1>4, AskStandingAdvances, CheckRecordAdvances, ReadPullAdvances
<1>5. CASE FindActive(a) \/ InsertByHand(a) \/ EnqueueByHand(a) \/ EnqueueByHandFails(a)
  BY <1>5, LaunchAdvances
<1>. QED  BY <1>1, <1>2, <1>3, <1>4, <1>5 DEF ReaderStep

\* What goes on meanwhile moves no request and touches no store.
Meanwhile ==
    /\ UNCHANGED <<errand, reader, tree, extent, rules, diffs>>
    /\ tip' \in {tip} \cup Commits /\ today' \in {today, today + 1}

LEMMA MeanwhileIs ==
  CabinetNext => /\ Witness /\ app' \in {app, "on", "off"}
                 /\ Meanwhile \/ \E a \in Readers : ReaderStep(a)
<1> SUFFICES ASSUME CabinetNext PROVE Witness /\ app' \in {app, "on", "off"}
                                      /\ (Meanwhile \/ \E a \in Readers : ReaderStep(a))
  OBVIOUS
<1>1. CASE \E a \in Readers : ReaderStep(a)
  <2>1. PICK a \in Readers : ReaderStep(a)
    BY <1>1
  <2>2. UNCHANGED app
    BY <2>1 DEF ReaderStep, Come, ListFromCache, ListFromGitHub, ListFails, AskApp, ResolveBranch, ReadRules,
           FetchRules, KeepRules, ReadDiff, FetchDiff_, KeepDiff, AskStanding, CheckRecord, ReadPull,
           FindActive, InsertByHand, EnqueueByHand, EnqueueByHandFails, hosting
  <2>. QED  BY <1>1, <2>2 DEF CabinetNext
<1>2. CASE ~\E a \in Readers : ReaderStep(a)
  <2>1. \/ \E r \in Standings : RoleChanges(r)
        \/ AppChanges \/ SwitchChanges \/ DayPasses
        \/ \E c \in Commits : Pushed(c) \/ OtherRun(c)
        \/ \E p \in Pulls : PullChanges(p)
        \/ \E r \in OldRuns : DiffLost(r)
    BY <1>2 DEF CabinetNext, CabinetAction
  <2>2. Meanwhile /\ app' \in {app, "on", "off"}
    BY <2>1 DEF Meanwhile, Turn, caches, RoleChanges, AppChanges, SwitchChanges, DayPasses, Pushed, OtherRun,
           PullChanges, DiffLost
  <2>. QED  BY <2>2 DEF CabinetNext
<1>. QED  BY <1>1, <1>2

\* What was met is kept while a request is under way.
LEMMA MetIsKept ==
  ASSUME NEW a \in Readers, Witness, reader'[a].step \notin {"start", "over"}
  PROVE  Seen(a) \subseteq met'[a].facts /\ SeenHeads(a) \subseteq met'[a].heads /\ (lapsed => lapsed')
BY DEF Witness, Seen, SeenHeads

LEMMA FitsStay ==
  ASSUME CabinetInv, Witness, NEW a \in Readers, UNCHANGED <<errand, tree, extent>>,
         Fits(a, reader'[a], Seen(a), SeenHeads(a), lapsed)
  PROVE  Fits(a, reader[a], met[a].facts, met[a].heads, lapsed)'
<1>1. CASE reader'[a].step \in {"start", "over"}
  BY <1>1 DEF Fits
<1>2. CASE reader'[a].step \notin {"start", "over"}
  <2>1. PICK r : r = reader'[a]
    OBVIOUS
  <2>2. PICK g : g = met'[a].facts
    OBVIOUS
  <2>3. PICK k : k = met'[a].heads
    OBVIOUS
  <2>4. PICK u \in BOOLEAN : u = lapsed'
    BY DEF Witness
  <2>5. Seen(a) \subseteq g /\ SeenHeads(a) \subseteq k /\ (lapsed => u)
    BY <1>2, <2>2, <2>3, <2>4, MetIsKept
  <2>6. Fits(a, r, Seen(a), SeenHeads(a), lapsed)
    BY <2>1
  <2>7. Fits(a, r, g, k, u)
    BY <2>5, <2>6, FitsMore
  <2>. QED  BY <2>1, <2>2, <2>3, <2>4, <2>7 DEF Fits, Does
<1>. QED  BY <1>1, <1>2

LEMMA CabinetInvInit == CabinetInit => CabinetInv
<1> SUFFICES ASSUME CabinetInit PROVE CabinetInv
  OBVIOUS
<1>1. Entire(Fresh_) /\ Fresh_.step = "start"
  BY DEF Fresh_, Entire
<1>2. Arranged /\ \A a \in Readers : reader[a].step = "start"
  BY <1>1 DEF CabinetInit, Arranged
<1>3. \A a \in Readers : Fits(a, reader[a], met[a].facts, met[a].heads, lapsed)
  BY <1>2 DEF Fits
<1>4. rules \in Seq(TrueRules) /\ diffs \in Seq(TrueDiffs)
  BY DEF CabinetInit
<1>. QED  BY <1>2, <1>3, <1>4 DEF CabinetInit, CabinetInv

LEMMA TruthStays ==
  ASSUME UNCHANGED <<tree, extent>>, lapsed => lapsed'
  PROVE  Seq(TrueRules) \subseteq Seq(TrueRules)' /\ Seq(TrueDiffs) \subseteq Seq(TrueDiffs)'
<1>1. TrueRules \subseteq TrueRules' /\ TrueDiffs \subseteq TrueDiffs'
  BY DEF TrueRules, TrueDiffs
<1>2. ASSUME NEW S, NEW T, S \subseteq T PROVE Seq(S) \subseteq Seq(T)
  BY <1>2
<1>3. PICK T : T = TrueRules'
  OBVIOUS
<1>4. PICK U : U = TrueDiffs'
  OBVIOUS
<1>5. Seq(TrueRules) \subseteq Seq(T) /\ Seq(TrueDiffs) \subseteq Seq(U)
  BY <1>1, <1>2, <1>3, <1>4
<1>. QED  BY <1>3, <1>4, <1>5

LEMMA CabinetInvNext == CabinetInv /\ [CabinetNext]_cabinetVars => CabinetInv'
<1> SUFFICES ASSUME CabinetInv, [CabinetNext]_cabinetVars PROVE CabinetInv'
  OBVIOUS
<1>1. CASE UNCHANGED cabinetVars
  <2>1. UNCHANGED <<TrueRules, TrueDiffs>>
    BY <1>1 DEF cabinetVars, TrueRules, TrueDiffs
  <2>2. \A a \in Readers : Fits(a, reader[a], met[a].facts, met[a].heads, lapsed)'
    BY <1>1 DEF cabinetVars, CabinetInv, Fits, Does
  <2>. QED  BY <1>1, <2>1, <2>2 DEF cabinetVars, CabinetInv, Arranged
<1>2. CASE CabinetNext
  <2>1. Witness /\ app' \in {"on", "off"} /\ (lapsed => lapsed') /\ (app' = "off" => lapsed')
    BY <1>2, MeanwhileIs DEF CabinetInv, Witness
  <2>2. CASE \E a \in Readers : ReaderStep(a)
    <3>1. PICK a \in Readers : ReaderStep(a)
      BY <2>2
    <3>2. Advances(a) /\ Stores
      BY <3>1, ReaderAdvances
    <3>3. ASSUME NEW d \in Readers
          PROVE  Fits(d, reader[d], met[d].facts, met[d].heads, lapsed)'
      <4>1. Fits(d, reader'[d], Seen(d), SeenHeads(d), lapsed)
        <5>1. CASE d = a
          BY <3>2, <5>1 DEF Advances
        <5>2. CASE d # a
          <6>1. reader'[d] = reader[d]
            BY <3>2, <5>2 DEF Advances
          <6>2. Fits(d, reader[d], Seen(d), SeenHeads(d), lapsed)
            BY WhatIsSeen, FitsMore DEF CabinetInv
          <6>. QED  BY <6>1, <6>2
        <5>. QED  BY <5>1, <5>2
      <4>. QED  BY <2>1, <3>2, <4>1, FitsStay DEF Stores
    <3>4. rules' \in Seq(TrueRules)' /\ diffs' \in Seq(TrueDiffs)'
      BY <2>1, <3>2, TruthStays DEF Stores
    <3>. QED  BY <2>1, <3>2, <3>3, <3>4 DEF CabinetInv, Advances, Stores
  <2>3. CASE Meanwhile
    <3>1. ASSUME NEW d \in Readers
          PROVE  Fits(d, reader[d], met[d].facts, met[d].heads, lapsed)'
      <4>1. reader'[d] = reader[d]
        BY <2>3 DEF Meanwhile
      <4>2. Fits(d, reader[d], Seen(d), SeenHeads(d), lapsed)
        BY WhatIsSeen, FitsMore DEF CabinetInv
      <4>3. Fits(d, reader'[d], Seen(d), SeenHeads(d), lapsed)
        BY <4>1, <4>2
      <4>. QED  BY <2>1, <2>3, <4>3, FitsStay DEF Meanwhile
    <3>2. rules' \in Seq(TrueRules)' /\ diffs' \in Seq(TrueDiffs)'
      BY <2>1, <2>3, TruthStays DEF Meanwhile, CabinetInv
    <3>3. Arranged'
      BY <2>3 DEF Meanwhile, CabinetInv, Arranged
    <3>. QED  BY <2>1, <2>3, <3>1, <3>2, <3>3 DEF CabinetInv, Meanwhile
  <2>. QED  BY <1>2, <2>2, <2>3, MeanwhileIs
<1>. QED  BY <1>1, <1>2

\* A reply of the cabinet was right at some moment of its request, whatever changes at
\* GitHub in between and whoever filled the caches: a failure is never taken for what a
\* commit holds, and a run by hand is of a head, an open pull request, a connected repository
\* and a user as they were meanwhile (run_diff.py, repo_config_loader.py, launch_review.py).
THEOREM CabinetRepliesTruly == CabinetSpec => ReplyWasRight
<1> DEFINE Replied == \A a \in Readers : reader'[a].step = "over" /\ reader[a].step # "over" =>
               Right(a, reader'[a].reply, reader'[a].of,
                     met[a].facts \cup FactsFor(a), met[a].heads \cup {head})
<1>1. CabinetInv /\ [CabinetNext]_cabinetVars => [Replied]_cabinetVars
  <2> SUFFICES ASSUME CabinetInv, CabinetNext, NEW a \in Readers, reader'[a].step = "over", reader[a].step # "over"
               PROVE  Right(a, reader'[a].reply, reader'[a].of,
                            met[a].facts \cup FactsFor(a), met[a].heads \cup {head})
    OBVIOUS
  <2>1. PICK d \in Readers : ReaderStep(d)
    BY MeanwhileIs DEF Meanwhile
  <2>2. Advances(d)
    BY <2>1, ReaderAdvances
  <2>3. d = a
    BY <2>2 DEF Advances
  <2>. QED  BY <2>2, <2>3 DEF Advances, Seen, SeenHeads
<1>2. CabinetSpec => []CabinetInv
  BY CabinetInvInit, CabinetInvNext, PTL DEF CabinetSpec
<1>. QED  BY <1>1, <1>2, PTL DEF CabinetSpec, ReplyWasRight
=============================================================================
