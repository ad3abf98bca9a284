----------------------------- MODULE Redelivery -----------------------------
(***************************************************************************)
(* Webhook deliveries of the pushes to one pull request: the intake that   *)
(* answers them (app/api/webhooks.py, use_cases/handle_webhook.py), and    *)
(* the pass of the workers that has failed ones sent again                 *)
(* (app/application/webhook_redelivery.py).  GitHub keeps the attempts; it *)
(* repeats none by itself.  One tick is the interval between two passes,   *)
(* longer than any request lasts.                                          *)
(***************************************************************************)
EXTENDS Integers, Sequences, FiniteSets

CONSTANTS
    Pushes,         \* guids of the deliveries, numbers from 1 in the order of the pushes
    Ignored,        \* those the intake ignores: a stranger's pull request, another action
    Passers,        \* workers that run the pass
    MaxRedeliveries, Backoff, PassLimit, Window,    \* RedeliveryPolicy
    Slots,          \* deliveries under way at once, a bound
    Faults,         \* failures of the network, the host, the broker, a bound
    Horizon         \* the last tick, a bound

ASSUME RedeliveryAssumption ==
    /\ Pushes \subseteq Nat /\ Ignored \subseteq Pushes
    /\ {MaxRedeliveries, Backoff, PassLimit, Window, Faults, Horizon} \subseteq Nat
    /\ MaxRedeliveries > 0 /\ IsFiniteSet(Passers) /\ IsFiniteSet(Slots)

VARIABLES
    attempts,       \* what GitHub lists of each guid, in order
    headPush,       \* the push whose commit is the head, 0 before the first
    delivery,       \* a delivery under way in each slot
    headRun,        \* the latest run on the commit of each push
    reviews,        \* reviews completed on it
    pass,           \* what each worker holds of its pass
    knownStale,     \* known_stale, in the memory of each worker
    passed,         \* workers whose pass of this tick is over
    tick, faults,
    shadowed,       \* history: runs that failed after another delivery was answered by them
    relapsed        \* history: commits on which a run failed after one had completed

redeliveryVars == <<attempts, headPush, delivery, headRun, reviews, pass, knownStale,
                    passed, tick, faults, shadowed, relapsed>>
github == <<attempts, headPush>>
passing == <<pass, knownStale, passed>>

Nothing == [push |-> 0, again |-> FALSE, stage |-> "none", fresh |-> FALSE]
Resting == [due |-> {}, accepted |-> 0, stage |-> "none"]

RedeliveryInit ==
    /\ attempts = [p \in Pushes |-> <<>>] /\ headPush = 0
    /\ delivery = [s \in Slots |-> Nothing]
    /\ headRun = [p \in Pushes |-> "none"] /\ reviews = [p \in Pushes |-> 0]
    /\ pass = [w \in Passers |-> Resting] /\ knownStale = [w \in Passers |-> {}]
    /\ passed = {} /\ tick = 0 /\ faults = Faults
    /\ shadowed = {} /\ relapsed = {}

Fault == faults > 0 /\ faults' = faults - 1

\* A delivery sets out; what is not under way is not in the list yet.
Send(p, again) ==
    \E s \in Slots :
        /\ delivery[s] = Nothing
        /\ delivery' = [delivery EXCEPT ![s] =
               [push |-> p, again |-> again, stage |-> "arriving", fresh |-> reviews[p] = 0]]

Push(p) ==
    /\ p = headPush + 1
    /\ headPush' = p
    /\ Send(p, FALSE)
    /\ UNCHANGED <<attempts, headRun, reviews, passing, tick, faults, shadowed, relapsed>>

\* ---- the intake --------------------------------------------------------

DeliveryAnswered(s, ok) ==
    /\ attempts' = [attempts EXCEPT ![delivery[s].push] =
           Append(@, [at |-> tick, again |-> delivery[s].again, ok |-> ok])]
    /\ delivery' = [delivery EXCEPT ![s] = Nothing]
\* The answer may not reach GitHub in time, which then lists a failure.
AnswerDelivery(s) ==
    \/ DeliveryAnswered(s, TRUE) /\ UNCHANGED faults
    \/ DeliveryAnswered(s, FALSE) /\ Fault
Continue(s, stg) == delivery' = [delivery EXCEPT ![s].stage = stg]

\* extract_github_event, is_trusted_pull_request.
Relevant(p) == p \notin Ignored
\* The latest run on a commit fails; what was reviewed there before no longer counts.
Fails(p) ==
    /\ headRun' = [headRun EXCEPT ![p] = "failed"]
    /\ relapsed' = IF reviews[p] > 0 THEN relapsed \cup {p} ELSE relapsed
Active(p) == headRun[p] \in {"inserted", "queued"}
Reviewed(p) == headRun[p] = "completed"

\* MUTANT of Intake: only an active run makes a delivery a duplicate.
IntakeForgetsReviews(s) ==
    LET p == delivery[s].push
    IN /\ delivery[s].stage = "arriving"
       /\ IF ~Relevant(p) \/ Active(p) THEN AnswerDelivery(s)
          ELSE Continue(s, "inserting") /\ UNCHANGED <<attempts, faults>>
       /\ UNCHANGED <<headPush, headRun, reviews, passing, tick, shadowed, relapsed>>

\* receive_webhook up to the look for a duplicate: ignored, duplicate, or to insert.
Intake(s) ==
    LET p == delivery[s].push
    IN /\ delivery[s].stage = "arriving"
       /\ IF ~Relevant(p) \/ Active(p) \/ Reviewed(p) THEN AnswerDelivery(s)
          ELSE Continue(s, "inserting") /\ UNCHANGED <<attempts, faults>>
       /\ UNCHANGED <<headPush, headRun, reviews, passing, tick, shadowed, relapsed>>

\* The unique index keeps one active run on a commit: the loser answers with it.
InsertRun(s) ==
    LET p == delivery[s].push
    IN /\ delivery[s].stage = "inserting"
       /\ IF Active(p) THEN AnswerDelivery(s) /\ UNCHANGED headRun
          ELSE /\ headRun' = [headRun EXCEPT ![p] = "inserted"]
               /\ Continue(s, "enqueuing")
               /\ UNCHANGED <<attempts, faults>>
       /\ UNCHANGED <<headPush, reviews, passing, tick, shadowed, relapsed>>

EnqueueRun(s) ==
    LET p == delivery[s].push
    IN /\ delivery[s].stage = "enqueuing"
       /\ headRun' = [headRun EXCEPT ![p] = "queued"]
       /\ AnswerDelivery(s)
       /\ UNCHANGED <<headPush, reviews, passing, tick, shadowed, relapsed>>

\* The broker refuses: the run is failed so that a repeat may start another.
EnqueueFails(s) ==
    LET p == delivery[s].push
    IN /\ delivery[s].stage = "enqueuing"
       /\ Fault
       /\ Fails(p)
       /\ DeliveryAnswered(s, FALSE)
       /\ shadowed' = IF \E i \in DOMAIN attempts[p] : attempts[p][i].ok
                      THEN shadowed \cup {p} ELSE shadowed
       /\ UNCHANGED <<headPush, reviews, passing, tick>>

\* The service is down, GitHub's metadata fail (502), or the process dies.
IntakeFails(s) ==
    /\ delivery[s] # Nothing
    /\ Fault
    /\ DeliveryAnswered(s, FALSE)
    /\ UNCHANGED <<headPush, headRun, reviews, passing, tick, shadowed, relapsed>>

\* The worker ends the run; the sweep ends one that never reached the queue.
RunEnds(p) ==
    /\ \/ /\ headRun[p] = "queued"
          /\ headRun' = [headRun EXCEPT ![p] = "completed"]
          /\ reviews' = [reviews EXCEPT ![p] = @ + 1]
          /\ UNCHANGED relapsed
       \/ /\ \/ headRun[p] = "queued"
             \/ headRun[p] = "inserted" /\ \A s \in Slots : delivery[s].stage # "enqueuing"
          /\ Fails(p)
          /\ UNCHANGED reviews
    /\ UNCHANGED <<github, delivery, passing, tick, faults, shadowed>>

\* ---- the pass ----------------------------------------------------------

\* MUTANT of Again: the list is cut after the latest attempt.
AgainOfLatest(p) == Cardinality({i \in DOMAIN attempts[p] : i = Len(attempts[p]) /\ attempts[p][i].again})
Again(p) == Cardinality({i \in DOMAIN attempts[p] : attempts[p][i].again})
Old(p) == tick - attempts[p][1].at > Window

Exhausted(p) == Again(p) >= MaxRedeliveries

\* MUTANT of Pause: the first attempt counts as well.
PauseDoubled(p) == Backoff * 2^(Again(p) + 1)
Pause(p) == Backoff * 2^Again(p)

\* select_redeliveries: no attempt succeeded, and the last is far enough back.
Due == {p \in Pushes :
    /\ attempts[p] # <<>>
    /\ \A i \in DOMAIN attempts[p] : ~attempts[p][i].ok
    /\ ~Old(p) /\ ~Exhausted(p)
    /\ tick - attempts[p][Len(attempts[p])].at >= Pause(p)}

PassBegins(w) ==
    /\ pass[w].stage = "none" /\ w \notin passed
    /\ knownStale' = [knownStale EXCEPT ![w] = @ \cap Due]
    /\ pass' = [pass EXCEPT ![w] =
           [due |-> Due \ knownStale[w], accepted |-> 0, stage |-> "asking"]]
    /\ UNCHANGED <<github, delivery, headRun, reviews, passed, tick, faults, shadowed, relapsed>>

Ended(w) == pass' = [pass EXCEPT ![w] = Resting] /\ passed' = passed \cup {w}
\* The oldest first.
First(w) == CHOOSE p \in pass[w].due : \A q \in pass[w].due : p <= q
Others(w) == [pass EXCEPT ![w].due = @ \ {First(w)}, ![w].stage = "asking"]

\* _still_current; a stale delivery is remembered.  GitHub refuses a redelivery for good
\* only when it has dropped the delivery, which is past the window, or the pull request.
AskWhetherCurrent(w) ==
    /\ pass[w].stage = "asking" /\ pass[w].due # {} /\ pass[w].accepted < PassLimit
    /\ IF First(w) = headPush /\ Relevant(First(w))
       THEN pass' = [pass EXCEPT ![w].stage = "sending"] /\ UNCHANGED knownStale
       ELSE pass' = Others(w) /\ knownStale' = [knownStale EXCEPT ![w] = @ \cup {First(w)}]
    /\ UNCHANGED <<github, delivery, headRun, reviews, passed, tick, faults, shadowed, relapsed>>

Redeliver(w) ==
    /\ pass[w].stage = "sending"
    /\ Send(First(w), TRUE)
    /\ pass' = [Others(w) EXCEPT ![w].accepted = @ + 1]
    /\ UNCHANGED <<github, headRun, reviews, knownStale, passed, tick, faults, shadowed, relapsed>>

PassEnds(w) ==
    /\ pass[w].stage = "asking"
    /\ pass[w].due = {} \/ pass[w].accepted >= PassLimit
    /\ Ended(w)
    /\ UNCHANGED <<github, delivery, headRun, reviews, knownStale, tick, faults, shadowed, relapsed>>

\* The budget is spent, or a request failed for the time being.
PassAborts(w) ==
    /\ pass[w].stage # "none" \/ w \notin passed
    /\ Fault
    /\ Ended(w)
    /\ UNCHANGED <<github, delivery, headRun, reviews, knownStale, tick, shadowed, relapsed>>

\* Every pass of the interval was run, and what it sent has been answered.
Tick ==
    /\ tick < Horizon /\ passed = Passers
    /\ \A s \in Slots : delivery[s] = Nothing
    /\ tick' = tick + 1 /\ passed' = {}
    /\ UNCHANGED <<github, delivery, headRun, reviews, pass, knownStale, faults, shadowed, relapsed>>

RedeliveryNext ==
    \/ \E p \in Pushes : Push(p) \/ RunEnds(p)
    \/ \E s \in Slots : Intake(s) \/ InsertRun(s) \/ EnqueueRun(s) \/ EnqueueFails(s)
                        \/ IntakeFails(s)
    \/ \E w \in Passers : PassBegins(w) \/ AskWhetherCurrent(w) \/ Redeliver(w)
                          \/ PassEnds(w) \/ PassAborts(w)
    \/ Tick

RedeliverySpec == RedeliveryInit /\ [][RedeliveryNext]_redeliveryVars

RedeliveryTypeOK ==
    /\ attempts \in [Pushes -> Seq([at : 0..Horizon, again : BOOLEAN, ok : BOOLEAN])]
    /\ headPush \in Pushes \cup {0}
    /\ delivery \in [Slots -> [push : Pushes \cup {0}, again : BOOLEAN, fresh : BOOLEAN,
                               stage : {"none", "arriving", "inserting", "enqueuing"}]]
    /\ headRun \in [Pushes -> {"none", "inserted", "queued", "completed", "failed"}]
    /\ reviews \in [Pushes -> Nat]
    /\ pass \in [Passers -> [due : SUBSET Pushes, accepted : 0..PassLimit,
                             stage : {"none", "asking", "sending"}]]
    /\ knownStale \in [Passers -> SUBSET Pushes] /\ passed \subseteq Passers
    /\ tick \in 0..Horizon /\ faults \in 0..Faults /\ shadowed \cup relapsed \subseteq Pushes

RepeatsOf(p) == Cardinality({i \in DOMAIN attempts[p] : attempts[p][i].again})
               + Cardinality({s \in Slots : delivery[s].push = p /\ delivery[s].again})

\* Workers that list the deliveries before each other's repeats are made may exceed
\* the limit of attempts, by at most one each.
AttemptsAreBounded == \A p \in Pushes :
    RepeatsOf(p) <= MaxRedeliveries + Cardinality(Passers) - 1

\* As long as fewer things go wrong than there are attempts, a push that is still the
\* head when its window closes was accepted, and its run reached the queue.
Done(p) == headRun[p] \in {"queued", "completed"}
WasMadeUp(p) == Done(p) \/ \E i \in DOMAIN attempts[p] : attempts[p][i].ok
PushIsMadeUp == \A p \in Pushes \ Ignored :
    (p = headPush /\ attempts[p] # <<>> /\ Old(p) /\ Faults - faults <= MaxRedeliveries)
        => WasMadeUp(p)

\* A delivery that sets out when its commit has been reviewed starts no second review,
\* unless a later run on the commit has failed, which the delivery then repeats (_duplicate_of).
ReviewedOnce ==
    [][\A s \in Slots : (delivery[s].stage = "inserting" /\ delivery'[s].stage = "enqueuing")
          => delivery[s].fresh \/ delivery[s].push \in relapsed]_redeliveryVars

\* "an extra attempt only uses up the limit sooner" (webhook_redelivery.py): it costs
\* the push nothing else, its review above all.
ExtraAttemptIsHarmless == shadowed = {}
=============================================================================
