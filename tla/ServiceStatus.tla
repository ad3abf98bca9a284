---------------------------- MODULE ServiceStatus ----------------------------
(***************************************************************************)
(* The status page (use_cases/service_status.py, domain/service_status.py, *)
(* monitoring/prometheus.py): alerts that fire are judged for each         *)
(* component and the report is kept for a while.  One request renews a     *)
(* report that is out of date, the others take the old one; only those     *)
(* that come before the first report wait.                                 *)
(***************************************************************************)
EXTENDS Naturals

CONSTANTS
    Guests,         \* requests to the page
    Components,     \* ServiceComponent
    AlertRules,     \* ALERT_RULES: records of an alert, its status, its component
    StatusTtl,      \* ttl_seconds
    QueryTime,      \* how long a request to the source, or a guest, may take, a bound
    LastMoment      \* bound on the clock

NoOne == "no one"

ASSUME StatusAssumption ==
    /\ {StatusTtl, QueryTime, LastMoment} \subseteq Nat /\ NoOne \notin Guests
    /\ \A rule \in AlertRules : rule.status \in {"unknown", "degraded", "outage"}
                                /\ rule.component \in Components

VARIABLES
    firing,     \* the alerts that fire now
    report,     \* _cached, a set of at most one report with its expiry
    refresher,  \* who holds the lock
    guest,      \* the requests
    moment,     \* the clock
    queried     \* history: when the last query of the source was over

statusVars == <<firing, report, refresher, guest, moment, queried>>

Alerts == {rule.alert : rule \in AlertRules}
Severity == [operational |-> 0, unknown |-> 1, degraded |-> 2, outage |-> 3]
NoGuest == [step |-> "idle", since |-> 0, seen |-> {}, stale |-> FALSE]

WorstStatus(levels) == CHOOSE l \in levels \cup {"operational"} :
    \A k \in levels : Severity[k] <= Severity[l]
\* evaluate_service_status
Evaluate(alerts) == [c \in Components |->
    WorstStatus({rule.status : rule \in {q \in AlertRules : q.component = c /\ q.alert \in alerts}})]
Blind == [c \in Components |-> "unknown"]

StatusInit ==
    /\ firing = {} /\ report = {} /\ refresher = NoOne
    /\ guest = [g \in Guests |-> NoGuest]
    /\ moment = 0 /\ queried = 0

In(g, s) == guest[g].step = s
Current(reports) == \E r \in reports : moment < r.expires
Release == refresher' = NoOne
AnswerGuest(g, reports, old) ==
    guest' = [guest EXCEPT ![g] = [step |-> "answered", since |-> moment, seen |-> reports, stale |-> old]]

Arrive(g) ==
    /\ In(g, "idle")
    /\ IF Current(report) THEN AnswerGuest(g, report, FALSE)
       ELSE guest' = [guest EXCEPT ![g] = [step |-> IF report = {} THEN "waiting" ELSE "trying",
                                           since |-> moment, seen |-> report, stale |-> FALSE]]
    /\ UNCHANGED <<firing, report, refresher, moment, queried>>

\* Somebody else renews the report: the old one does.
TakeOld(g) ==
    /\ In(g, "trying") /\ refresher # NoOne
    /\ AnswerGuest(g, guest[g].seen, TRUE)
    /\ UNCHANGED <<firing, report, refresher, moment, queried>>

\* MUTANT of LockReport: the report is not looked at again under the lock.
LockReportBlindly(g) ==
    /\ In(g, "trying") \/ In(g, "waiting")
    /\ refresher = NoOne
    /\ guest' = [guest EXCEPT ![g] = [NoGuest EXCEPT !.step = "querying", !.since = moment]]
    /\ refresher' = g
    /\ UNCHANGED <<firing, report, moment, queried>>

\* Under the lock the report is looked at again: another may have renewed it.
LockReport(g) ==
    /\ In(g, "trying") \/ In(g, "waiting")
    /\ refresher = NoOne
    /\ IF Current(report) THEN AnswerGuest(g, report, FALSE) /\ UNCHANGED refresher
       ELSE /\ guest' = [guest EXCEPT ![g] = [NoGuest EXCEPT !.step = "querying", !.since = moment]]
            /\ refresher' = g
    /\ UNCHANGED <<firing, report, moment, queried>>

\* firing_alerts: what fires, or nothing is known.
QueryAlerts(g) ==
    /\ In(g, "querying")
    /\ \E levels \in {Evaluate(firing), Blind} :
          guest' = [guest EXCEPT ![g].step = "storing",
                        ![g].seen = {[levels |-> levels, asOf |-> moment, expires |-> moment]}]
    /\ UNCHANGED <<firing, report, refresher, moment, queried>>

StoreReport(g) ==
    /\ In(g, "storing")
    /\ LET new == {[r EXCEPT !.expires = moment + StatusTtl] : r \in guest[g].seen}
       IN report' = new /\ AnswerGuest(g, new, FALSE)
    /\ queried' = moment
    /\ Release
    /\ UNCHANGED <<firing, moment>>

Depart(g) ==
    /\ In(g, "answered")
    /\ guest' = [guest EXCEPT ![g] = NoGuest]
    /\ UNCHANGED <<firing, report, refresher, moment, queried>>

AlertChanges(a) ==
    /\ firing' = (firing \cup {a}) \ (firing \cap {a})
    /\ UNCHANGED <<report, refresher, guest, moment, queried>>

MomentPasses ==
    /\ moment < LastMoment
    /\ \A g \in Guests : guest[g].step \in {"trying", "querying", "storing", "answered"} =>
           moment < guest[g].since + QueryTime
    /\ moment' = moment + 1
    /\ UNCHANGED <<firing, report, refresher, guest, queried>>

StatusNext ==
    \/ \E g \in Guests : Arrive(g) \/ TakeOld(g) \/ LockReport(g) \/ QueryAlerts(g)
                         \/ StoreReport(g) \/ Depart(g)
    \/ \E a \in Alerts : AlertChanges(a)
    \/ MomentPasses

StatusSpec == StatusInit /\ [][StatusNext]_statusVars

Reports == [levels : [Components -> DOMAIN Severity], asOf : Nat, expires : Nat]
StatusTypeOK ==
    /\ firing \subseteq Alerts /\ refresher \in Guests \cup {NoOne}
    /\ report \subseteq Reports /\ moment \in Nat /\ queried \in Nat
    /\ guest \in [Guests -> [step : {"idle", "waiting", "trying", "querying", "storing", "answered"},
                             since : Nat, seen : SUBSET Reports, stale : BOOLEAN]]

\* However many requests come at once, the source is asked by one of them and not
\* again before the report has expired; and a request is told what was so not longer
\* ago than the time to live and a query, unless another one is renewing the report.
SourceIsSpared == \A g \in Guests :
    /\ In(g, "querying") => refresher = g /\ (report # {} => guest[g].since >= queried + StatusTtl)
    /\ In(g, "answered") /\ ~guest[g].stale =>
          \A r \in guest[g].seen : guest[g].since <= r.asOf + StatusTtl + QueryTime
==============================================================================
