---------------------------- MODULE JobPublisher ----------------------------
(***************************************************************************)
(* Putting jobs into the queue (app/infrastructure/queue/rabbitmq.py): the *)
(* threads of one process share a connection under a lock.  The broker may *)
(* close it unnoticed, refuse a message, or stop reading while an alarm is *)
(* on.  Time is counted in seconds and passes only for a thread that waits *)
(* for the lock or for a broker that does not read.                        *)
(***************************************************************************)
EXTENDS Naturals

CONSTANTS
    Publishers,         \* threads that call enqueue
    LockTimeout,        \* LOCK_TIMEOUT_SECONDS
    BlockedTimeout,     \* BLOCKED_CONNECTION_TIMEOUT_SECONDS
    HookLimit,          \* how long GitHub waits for the answer to a delivery
    Upsets              \* what may go wrong, a bound

NoThread == "no thread"

\* "both timeouts keep the worst enqueue under the limit": here with the second attempt.
ASSUME PublisherAssumption ==
    /\ {LockTimeout, BlockedTimeout, HookLimit, Upsets} \subseteq Nat /\ NoThread \notin Publishers
    /\ LockTimeout > 0 /\ LockTimeout + 2 * BlockedTimeout < HookLimit

VARIABLES
    broker,     \* "up", "alarm" (it does not read) or "down"
    link,       \* _connection and _channel: "none", "open", "cut" (open as far as the
                \* process knows) or "noChannel" (the broker has closed the channel)
    owner,      \* who holds _lock
    publisher,  \* where each call stands, its attempt, its wait, how long it lasts
    copies,     \* how many copies of its job the broker took
    upsets,     \* what may still go wrong
    met         \* history: what went wrong while the call was under way

publisherVars == <<broker, link, owner, publisher, copies, upsets, met>>

NotCalled == [step |-> "idle", attempt |-> 1, waited |-> 0, lasted |-> 0]
Endings == {"queued", "refused", "failed", "blocked"}
PublisherSteps == {"idle", "waiting", "connecting", "sending", "held", "sent"} \cup Endings

PublisherInit ==
    /\ broker = "up" /\ link = "none" /\ owner = NoThread
    /\ publisher = [t \in Publishers |-> NotCalled]
    /\ copies = [t \in Publishers |-> 0]
    /\ upsets = Upsets
    /\ met = [t \in Publishers |-> {}]

IsAt(t, s) == publisher[t].step = s
Calling(t) == publisher[t].step \notin {"idle"} \cup Endings
Proceed(t, s) == publisher' = [publisher EXCEPT ![t].step = s, ![t].waited = 0]
\* enqueue returns or raises, and the lock is released.
Conclude(t, result) ==
    /\ Proceed(t, result)
    /\ owner' = IF owner = t THEN NoThread ELSE owner
Taken(t) == copies' = [copies EXCEPT ![t] = @ + 1]
Upset(kind) ==
    /\ upsets > 0
    /\ upsets' = upsets - 1
    /\ met' = [t \in Publishers |-> IF Calling(t) THEN met[t] \cup {kind} ELSE met[t]]
calm == <<upsets, met>>

EnqueueJob(t) ==
    /\ ~Calling(t)
    /\ publisher' = [publisher EXCEPT ![t] = [NotCalled EXCEPT !.step = "waiting"]]
    /\ copies' = [copies EXCEPT ![t] = 0]
    /\ met' = [met EXCEPT ![t] = {broker} \ {"up"}]
    /\ UNCHANGED <<broker, link, owner, upsets>>

TakeConnection(t) ==
    /\ IsAt(t, "waiting") /\ owner = NoThread
    /\ owner' = t
    /\ Proceed(t, "connecting")
    /\ UNCHANGED <<broker, link, copies, calm>>

\* The connection is left alone: another thread owns it.
GiveUpLock(t) ==
    /\ IsAt(t, "waiting") /\ owner # NoThread /\ publisher[t].waited = LockTimeout
    /\ Conclude(t, "blocked")
    /\ UNCHANGED <<broker, link, copies, calm>>

\* MUTANT of Broken: a broken connection is not opened again for the same job.
BrokenAtOnce(t) ==
    /\ link' = "none"
    /\ Conclude(t, "failed")
    /\ UNCHANGED <<broker, copies, calm>>

\* AMQPConnectionError or ChannelWrongStateError: the connection is dropped, and the
\* job is published once more.
Broken(t) ==
    /\ link' = "none"
    /\ IF publisher[t].attempt = 1
       THEN /\ publisher' = [publisher EXCEPT ![t].attempt = 2, ![t].step = "connecting", ![t].waited = 0]
            /\ UNCHANGED owner
       ELSE Conclude(t, "failed")
    /\ UNCHANGED <<broker, copies, calm>>

\* _channel_ready finds a connection and a channel that are open, as far as it knows.
ReuseChannel(t) ==
    /\ IsAt(t, "connecting") /\ link \in {"open", "cut"}
    /\ Proceed(t, "sending")
    /\ UNCHANGED <<broker, link, owner, copies, calm>>

\* Or it opens both and declares the topology.
OpenChannel(t) ==
    /\ IsAt(t, "connecting") /\ link \in {"none", "noChannel"} /\ broker # "down"
    /\ link' = "open"
    /\ Proceed(t, "sending")
    /\ UNCHANGED <<broker, owner, copies, calm>>

\* An attempt finds the connection broken: on opening, on sending, or on waiting.
Breaks(t) ==
    /\ \/ IsAt(t, "connecting") /\ link \in {"none", "noChannel"} /\ broker = "down"
       \/ publisher[t].step \in {"sending", "held", "sent"} /\ link = "cut"
    /\ Broken(t)

\* A declaration that does not fit, a nack, a message that cannot be routed: an answer
\* of the broker, with or without the loss of the channel.
Refuses(t) ==
    /\ publisher[t].step = "sending" /\ link = "open" /\ broker = "up"
    /\ link' \in {"open", "noChannel"}
    /\ Conclude(t, "refused")
    /\ Upset("refusal")
    /\ UNCHANGED <<broker, copies>>

BrokerTakes(t) ==
    /\ publisher[t].step \in {"sending", "held"} /\ link = "open" /\ broker = "up"
    /\ Taken(t)
    /\ Proceed(t, "sent")
    /\ UNCHANGED <<broker, link, owner, calm>>

BrokerDoesNotRead(t) ==
    /\ IsAt(t, "sending") /\ link = "open" /\ broker = "alarm"
    /\ Proceed(t, "held")
    /\ UNCHANGED <<broker, link, owner, copies, calm>>

\* ConnectionBlockedTimeout is not repeated; what was written the broker may read
\* when the alarm is over.
BlockedTooLong(t) ==
    /\ IsAt(t, "held") /\ link = "open" /\ publisher[t].waited = BlockedTimeout
    /\ Taken(t) \/ UNCHANGED copies
    /\ link' = "none"
    /\ Conclude(t, "blocked")
    /\ UNCHANGED <<broker, calm>>

Confirmed(t) ==
    /\ IsAt(t, "sent") /\ link = "open"
    /\ Conclude(t, "queued")
    /\ UNCHANGED <<broker, link, copies, calm>>

\* No heartbeat goes out while nobody publishes, and the broker hangs up; or the
\* network breaks.
HangUp ==
    /\ link = "open"
    /\ link' = "cut"
    /\ Upset("cut")
    /\ UNCHANGED <<broker, owner, publisher, copies>>

BrokerFails(state) ==
    /\ broker = "up"
    /\ broker' = state
    /\ link' = IF state = "down" /\ link = "open" THEN "cut" ELSE link
    /\ Upset(state)
    /\ UNCHANGED <<owner, publisher, copies>>

BrokerRecovers ==
    /\ broker # "up"
    /\ broker' = "up"
    /\ UNCHANGED <<link, owner, publisher, copies, calm>>

MayWait(t) ==
    \/ IsAt(t, "waiting") /\ owner # NoThread /\ publisher[t].waited < LockTimeout
    \/ IsAt(t, "held") /\ link = "open" /\ broker = "alarm" /\ publisher[t].waited < BlockedTimeout

SecondPasses ==
    /\ \E t \in Publishers : Calling(t)
    /\ \A t \in Publishers : Calling(t) => MayWait(t)
    /\ publisher' = [t \in Publishers |->
           IF Calling(t) THEN [publisher[t] EXCEPT !.waited = @ + 1, !.lasted = @ + 1] ELSE publisher[t]]
    /\ UNCHANGED <<broker, link, owner, copies, calm>>

PublisherNext ==
    \/ \E t \in Publishers :
          EnqueueJob(t) \/ TakeConnection(t) \/ GiveUpLock(t) \/ ReuseChannel(t) \/ OpenChannel(t)
          \/ Breaks(t) \/ Refuses(t) \/ BrokerTakes(t) \/ BrokerDoesNotRead(t)
          \/ BlockedTooLong(t) \/ Confirmed(t)
    \/ HangUp \/ (\E state \in {"alarm", "down"} : BrokerFails(state)) \/ BrokerRecovers \/ SecondPasses

PublisherSpec == PublisherInit /\ [][PublisherNext]_publisherVars

PublisherTypeOK ==
    /\ broker \in {"up", "alarm", "down"} /\ link \in {"none", "open", "cut", "noChannel"}
    /\ owner \in Publishers \cup {NoThread}
    /\ publisher \in [Publishers -> [step : PublisherSteps, attempt : {1, 2}, waited : Nat, lasted : Nat]]
    /\ copies \in [Publishers -> Nat] /\ upsets \in 0..Upsets
    /\ met \in [Publishers -> SUBSET {"cut", "alarm", "down", "refusal"}]

\* A call that says a job is queued has queued it, twice only if the connection broke
\* under it; a call that fails does so for something that went wrong while it was under
\* way, not for what an earlier call left behind; and no call is longer than GitHub waits
\* ("both timeouts keep the worst enqueue under the limit of 10 seconds").
EnqueueFailsForCause == \A t \in Publishers : publisher[t].step \in Endings =>
    /\ IsAt(t, "queued") => copies[t] > 0
    /\ copies[t] > 1 => copies[t] = 2 /\ met[t] \cap {"cut", "down"} # {}
    /\ ~IsAt(t, "queued") => met[t] # {}
    /\ publisher[t].lasted < HookLimit
=============================================================================
